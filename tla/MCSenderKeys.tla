---------------------------- MODULE MCSenderKeys ----------------------------
(* Instances of SenderKeys for TLC. *)
EXTENDS SenderKeys

CONSTANTS a, b

\* One user with one device, one with two.
ThreeDevices == {<<a, 1>>, <<b, 1>>, <<b, 2>>}
=============================================================================

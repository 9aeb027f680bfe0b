-------------------------- MODULE MCSignalWebsocket --------------------------
(* Instances of SignalWebsocket for TLC.                                   *)
EXTENDS SignalWebsocket
=============================================================================

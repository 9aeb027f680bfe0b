----------------------------- MODULE MCSending -----------------------------
(* Instances of Sending for TLC. *)
EXTENDS Sending
=============================================================================

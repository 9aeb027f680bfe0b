----------------------------- MODULE MCReceiving -----------------------------
(* Instances of Receiving for TLC.                                         *)
EXTENDS Receiving

OneMessage == {1}
TwoMessages == 1..2
=============================================================================

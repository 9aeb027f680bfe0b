----------------------------- MODULE AtLeastOnce -----------------------------
(***************************************************************************)
(* What receiving promises: whoever keeps the messages forgets one that is *)
(* owed to the bridge only after the bridge has it.  A message may be      *)
(* given to the bridge any number of times, before or after that.          *)
(***************************************************************************)
CONSTANT Messages

VARIABLES owed, kept, given

vars == <<owed, kept, given>>

Init ==
    /\ owed \subseteq Messages
    /\ kept = Messages
    /\ given = {}

Give(m) ==
    /\ given' = given \cup {m}
    /\ UNCHANGED <<owed, kept>>

Forget(m) ==
    /\ m \in owed => m \in given
    /\ kept' = kept \ {m}
    /\ UNCHANGED <<owed, given>>

Next == \E m \in Messages : Give(m) \/ Forget(m)

Spec == Init /\ [][Next]_vars
=============================================================================

---------------------------- MODULE AtomicUpdates ----------------------------
(***************************************************************************)
(* What changing chat settings promises, whoever else changes them: a call *)
(* that succeeds has made its change once, in one step, to the settings of *)
(* that moment; a call that is refused has changed nothing; a call that    *)
(* failed has done one or the other.                                       *)
(***************************************************************************)
CONSTANTS Chats, Updates

VARIABLES
    archived, pinned,   \* the settings of each chat, as every device sees them
    change,             \* what each update asks for
    result              \* and what became of it

vars == <<archived, pinned, change, result>>

Choice == {"on", "off", "keep"}
Change == [chat : Chats, archived : Choice, pinned : Choice]
Chosen(choice, old) == IF choice = "keep" THEN old ELSE choice

Init ==
    /\ archived = [c \in Chats |-> "off"]
    /\ pinned = [c \in Chats |-> "off"]
    /\ change \in [Updates -> Change]
    /\ result = [u \in Updates |-> "open"]

Apply(ch) ==
    /\ archived' = [archived EXCEPT ![ch.chat] = Chosen(ch.archived, @)]
    /\ pinned' = [pinned EXCEPT ![ch.chat] = Chosen(ch.pinned, @)]

Answer(u, res) ==
    /\ result[u] = "open"
    /\ result' = [result EXCEPT ![u] = res]
    /\ UNCHANGED change

OtherDevice ==
    /\ UNCHANGED <<change, result>>
    /\ \E ch \in Change : Apply(ch)

Succeeds(u) == Answer(u, "done") /\ Apply(change[u])

Refused(u) == Answer(u, "refused") /\ UNCHANGED <<archived, pinned>>

Fails(u) ==
    /\ Answer(u, "failed")
    /\ Apply(change[u]) \/ UNCHANGED <<archived, pinned>>

Next ==
    \/ OtherDevice
    \/ \E u \in Updates : Succeeds(u) \/ Refused(u) \/ Fails(u)

Spec == Init /\ [][Next]_vars
=============================================================================

-------------------------- MODULE MCStorageService --------------------------
(* Instances of StorageService for TLC.                                    *)
EXTENDS StorageService

CONSTANT First

\* The chats are interchangeable: nothing is lost when one of them is the chat
\* that every update is about.
MCInit == Init /\ \A u \in Updates : change[u].chat = First

MCSpec == MCInit /\ [][Next]_vars /\ Fairness
=============================================================================

--------------------------- MODULE ReceivingProofs ---------------------------
(***************************************************************************)
(* Proofs about Receiving, for any set of messages, any capacity and any   *)
(* number of faults.                                                       *)
(***************************************************************************)
EXTENDS Receiving, TLAPS

\* An envelope that may be answered.
Done(m) == Owed(m) => Settled(m)

\* Kinds for which the ratchet step succeeds.
Decryptable == {"data", "receipt", "lenient", "foreign", "unparsable", "badskdm"}

\* What the row, the ratchet and the place of the request loop say of each
\* other.  It holds whatever the kinds of the envelopes are.
BufferInv ==
    /\ \A m \in Messages : row[m] # "none" => m \in ratchet
    /\ \A m \in ratchet : kind[m] \in Decryptable
    /\ stage = "handle" => /\ kind[req.msg] \in Decryptable \ {"unparsable"}
                           /\ row[req.msg] = "plain"
    /\ stage = "errorOld" => req.msg \in ratchet /\ row[req.msg] = "none"
    /\ stage = "errorBad" => \/ kind[req.msg] \in {"unparsable", "undecryptable", "quiet"}
                             \/ req.msg \in misread
    /\ stage \in {"clear", "clearNoAck"} => req.msg \in ratchet

\* Everything on the way to being answered is done.
AnswerInv ==
    /\ \A m \in Messages \ unacked : Done(m)
    /\ \A m \in ackWire : Done(m)
    /\ \A r \in outbox : Done(r.msg)
    /\ stage \in {"ack", "clear"} => Done(req.msg)
    /\ stage # "clearNoAck"
    /\ PlaintextKept

\* An event is only taken and an error only reported for the right kinds.
KindInv ==
    /\ \A m \in Messages : handled[m] > 0 => HasHandler(m)
    /\ \A m \in orphans : HasHandler(m)
    /\ \A m \in noticed : HasHandler(m) => m \in misread

\* The request loop may yet hand the event of m to the bridge once more.
Again(m) ==
    /\ m \notin ratchet \/ row[m] = "plain"
    /\ ~(stage \in {"clear", "clearNoAck"} /\ req.msg = m)

\* The times the event was taken, is being taken by an orphan, and may be taken.
Due(m) ==
    handled[m] + (IF m \in orphans THEN 1 ELSE 0) + (IF Again(m) THEN 1 ELSE 0)

RepeatInv == \A m \in Messages : Due(m) <= 1 + faults

-----------------------------------------------------------------------------
(* Types.                                                                  *)

LEMMA StaleSeq ==
    ASSUME NEW s \in Seq(Request)
    PROVE  [i \in DOMAIN s |-> Stale(s[i])] \in Seq(Request)
<1>1. PICK n \in Nat : s \in [1..n -> Request]
    OBVIOUS
<1>2. [i \in DOMAIN s |-> Stale(s[i])] \in [1..n -> Request]
    BY <1>1 DEF Stale, Request
<1> QED
    BY <1>2

LEMMA InitTypeOK == Init => TypeOK
<1> SUFFICES ASSUME Init PROVE TypeOK
    OBVIOUS
<1>1. reset \in BOOLEAN
    BY DEF Init
<1> QED
    BY <1>1 DEF Init, TypeOK, Stages

\* Where the request loop goes, its request keeps its type.
LEMMA GotoType ==
    ASSUME TypeOK, stage # "idle", NEW s \in Stages, Goto(s)
    PROVE  stage' \in Stages /\ req' \in IF stage' = "idle" THEN {NoRequest} ELSE Request
    BY DEF TypeOK, Goto

LEMMA NextTypeOK == TypeOK /\ [Next]_vars => TypeOK'
<1> SUFFICES ASSUME TypeOK, [Next]_vars PROVE TypeOK'
    OBVIOUS
<1> USE DEF vars, server, loop, buffer, gc, results, elsewhere
<1>1. CASE ServerSend
    BY <1>1 DEF ServerSend, TypeOK, Request
<1>2. ASSUME NEW m \in Messages, ServerAck(m) PROVE TypeOK'
    BY <1>2 DEF ServerAck, TypeOK
<1>3. CASE Break
    BY <1>3 DEF Break, TypeOK
<1>4. CASE Disconnect
  <2>1. chan' \in Seq(Request)
    BY <1>4, StaleSeq DEF Disconnect, TypeOK
  <2>2. req' \in IF stage = "idle" THEN {NoRequest} ELSE Request
    BY <1>4 DEF Disconnect, TypeOK, Request, Stale
  <2> QED
    BY <1>4, <2>1, <2>2 DEF Disconnect, TypeOK
<1>5. CASE Reconnect
    BY <1>5 DEF Reconnect, TypeOK
<1>6. CASE TakeRequest
    BY <1>6 DEF TakeRequest, TypeOK, Stages
<1>7. CASE RejectGarbled
    BY <1>7 DEF RejectGarbled, Goto, TypeOK, Stages
<1>8. CASE SkipUnbuffered
    BY <1>8 DEF SkipUnbuffered, Goto, TypeOK, Stages
<1>9. CASE ReplayBuffered
    BY <1>9 DEF ReplayBuffered, AfterDecrypt, Goto, TypeOK, Stages
<1>10. CASE DecryptFresh
  <2>1. req \in Request /\ req.msg \in Messages
    BY <1>10 DEF DecryptFresh, TypeOK, Request
  <2>2. AfterDecrypt(req.msg) \in Stages
    BY DEF AfterDecrypt, Stages
  <2> QED
    BY <1>10, <2>1, <2>2, GotoType DEF DecryptFresh, TypeOK
<1>11. CASE DecryptFails
    BY <1>11 DEF DecryptFails, Goto, TypeOK, Stages
<1>27. CASE BufferFails
  <2>1. req \in Request /\ req.msg \in Messages
    BY <1>27 DEF BufferFails, TypeOK, Request
  <2> QED
    BY <1>27, <2>1 DEF BufferFails, Goto, TypeOK, Stages
<1>12. CASE HandleError
  <2>1. req \in Request /\ req.msg \in Messages
    BY <1>12 DEF HandleError, TypeOK, Request
  <2> QED
    BY <1>12, <2>1 DEF HandleError, Goto, TypeOK, Stages
<1>13. CASE HandleSucceeds
  <2>1. req \in Request /\ req.msg \in Messages
    BY <1>13 DEF HandleSucceeds, TypeOK, Request
  <2> QED
    BY <1>13, <2>1 DEF HandleSucceeds, Goto, TypeOK, Stages
<1>14. CASE HandleFails
    BY <1>14 DEF HandleFails, Goto, TypeOK, Stages
<1>15. CASE HandleDrops
    BY <1>15 DEF HandleDrops, Goto, TypeOK, Stages
<1>16. CASE ClearPlaintext
    BY <1>16 DEF ClearPlaintext, AfterClear, Goto, TypeOK, Stages
<1>17. CASE ClearPlaintextFails
    BY <1>17 DEF ClearPlaintextFails, AfterClear, Goto, TypeOK, Stages
<1>18. CASE PushAck
    BY <1>18 DEF PushAck, Goto, TypeOK, Stages
<1>19. CASE WriteAck
    BY <1>19 DEF WriteAck, TypeOK, Request
<1>20. CASE ResetWriteCount
    BY <1>20 DEF ResetWriteCount, TypeOK
<1>21. CASE WriteCallback
  <2>1. row' \in [Messages -> {"none", "plain", "cleared"}]
    BY <1>21 DEF WriteCallback, TypeOK
  <2>3. ins' \in [Messages -> Nat]
    BY <1>21 DEF WriteCallback, TypeOK
  <2>2. timer' \in Nat /\ count' \in Nat /\ cbc' \in Nat \cup {NoTime}
    BY <1>21 DEF WriteCallback, TypeOK
  <2> QED
    BY <1>21, <2>1, <2>2, <2>3 DEF WriteCallback, TypeOK
<1>22. CASE Tick
    BY <1>22 DEF Tick, TypeOK
<1>23. CASE Stop
  <2>1. stage = "handle" => req.msg \in Messages
    BY DEF TypeOK, Request
  <2>2. reset' \in BOOLEAN
    BY <1>23 DEF Stop, Restart
  <2> QED
    BY <1>23, <2>1, <2>2 DEF Stop, Restart, Goto, TypeOK, Stages
<1>24. CASE Crash
  <2>1. reset' \in BOOLEAN
    BY <1>24 DEF Crash, Restart
  <2> QED
    BY <1>24, <2>1 DEF Crash, Restart, Goto, TypeOK, Stages
<1>25. ASSUME NEW m \in Messages, OrphanReturns(m) PROVE TypeOK'
  <2>1. handled' \in [Messages -> Nat]
    BY <1>25 DEF OrphanReturns, TypeOK
  <2> QED
    BY <1>25, <2>1 DEF OrphanReturns, TypeOK
<1>26. CASE UNCHANGED vars
    BY <1>26 DEF TypeOK
<1> QED
    BY <1>1, <1>2, <1>3, <1>4, <1>5, <1>6, <1>7, <1>8, <1>9, <1>10, <1>11,
       <1>12, <1>13, <1>14, <1>15, <1>16, <1>17, <1>18, <1>19, <1>20, <1>21,
       <1>22, <1>23, <1>24, <1>25, <1>26, <1>27 DEF Next, RequestLoop

\* Every variable keeps its type: the request loop holds a request exactly when
\* it is not idle, and the channel only ever holds requests.
THEOREM TypeCorrect == Spec => []TypeOK
    BY InitTypeOK, NextTypeOK, PTL DEF Spec

-----------------------------------------------------------------------------
(* The event buffer and the request loop.                                  *)

\* Steps that leave the request loop and the buffer alone.
Beside ==
    \/ ServerSend \/ (\E m \in Messages : ServerAck(m)) \/ Break \/ Reconnect
    \/ WriteAck \/ ResetWriteCount \/ Tick
    \/ (\E m \in Messages : OrphanReturns(m)) \/ UNCHANGED vars

LEMMA BesideUnchanged ==
    Beside => UNCHANGED <<kind, stage, req, row, ratchet, noticed, misread>>
    BY DEF Beside, ServerSend, ServerAck, Break, Reconnect, WriteAck,
           ResetWriteCount, Tick, OrphanReturns, vars, server, loop, buffer, results

LEMMA NextCases ==
    ASSUME [Next]_vars
    PROVE  \/ Beside \/ Disconnect \/ RequestLoop \/ WriteCallback \/ Stop \/ Crash
    BY DEF Next, Beside

\* A request in hand is a request.
LEMMA InHand ==
    ASSUME TypeOK, stage # "idle"
    PROVE  req \in Request /\ req.msg \in Messages
    BY DEF TypeOK, Request

LEMMA StaleKeepsMsg ==
    ASSUME NEW r \in Request PROVE Stale(r).msg = r.msg
    BY DEF Stale, Request

LEMMA InitBufferInv == Init => BufferInv
    BY DEF Init, BufferInv

LEMMA NextBufferInv == TypeOK /\ BufferInv /\ [Next]_vars => BufferInv'
<1> SUFFICES ASSUME TypeOK, BufferInv, [Next]_vars PROVE BufferInv'
    OBVIOUS
<1> USE DEF elsewhere, server, loop, buffer, gc, results
<1>1. CASE Beside
    BY <1>1, BesideUnchanged DEF BufferInv
<1>2. CASE Disconnect
  <2>1. stage # "idle" => req'.msg = req.msg
    BY <1>2, InHand, StaleKeepsMsg DEF Disconnect
  <2> QED
    BY <1>2, <2>1 DEF Disconnect, BufferInv
<1>3. CASE TakeRequest
    BY <1>3 DEF TakeRequest, BufferInv
<1>4. CASE RejectGarbled \/ SkipUnbuffered
    BY <1>4 DEF RejectGarbled, SkipUnbuffered, Goto, BufferInv
<1>5. CASE ReplayBuffered
  <2>1. req.msg \in Messages
    BY <1>5, InHand DEF ReplayBuffered
  <2> QED
    BY <1>5, <2>1 DEF ReplayBuffered, AfterDecrypt, Goto, BufferInv, Decryptable, TypeOK
<1>6. CASE DecryptFresh
  <2>1. req.msg \in Messages /\ kind[req.msg] \in Decryptable
    BY <1>6, InHand, ConstantsAssumption
    DEF DecryptFresh, Buffered, Undecryptable, Decryptable, AllKinds, TypeOK
  <2> QED
    BY <1>6, <2>1 DEF DecryptFresh, AfterDecrypt, Goto, BufferInv, Decryptable, TypeOK
<1>7. CASE DecryptFails
    BY <1>7, InHand DEF DecryptFails, Undecryptable, Goto, BufferInv
<1>14. CASE BufferFails
    BY <1>14 DEF BufferFails, Goto, BufferInv
<1>8. CASE HandleError
    BY <1>8 DEF HandleError, Goto, BufferInv
<1>9. CASE HandleSucceeds \/ HandleFails \/ HandleDrops
  <2>1. req.msg \in Messages
    BY <1>9, InHand DEF HandleSucceeds, HandleFails, HandleDrops
  <2> QED
    BY <1>9, <2>1 DEF HandleSucceeds, HandleFails, HandleDrops, Goto, BufferInv
<1>10. CASE ClearPlaintext
  <2>1. req.msg \in Messages
    BY <1>10, InHand DEF ClearPlaintext
  <2> QED
    BY <1>10, <2>1 DEF ClearPlaintext, AfterClear, Goto, BufferInv, TypeOK
<1>11. CASE ClearPlaintextFails \/ PushAck
    BY <1>11 DEF ClearPlaintextFails, PushAck, AfterClear, Goto, BufferInv
<1>12. CASE WriteCallback
  <2>1. \A m \in Messages : row'[m] # row[m] => row[m] = "cleared" /\ row'[m] = "none"
    BY <1>12 DEF WriteCallback, Deletable, TypeOK
  <2>2. stage # "idle" => req.msg \in Messages
    BY InHand
  <2> QED
    BY <1>12, <2>1, <2>2 DEF WriteCallback, BufferInv
<1>13. CASE Stop \/ Crash
    BY <1>13 DEF Stop, Crash, Restart, Goto, BufferInv
<1> QED
    BY NextCases, <1>1, <1>2, <1>3, <1>4, <1>5, <1>6, <1>7, <1>8, <1>9, <1>10,
       <1>11, <1>12, <1>13, <1>14 DEF RequestLoop

-----------------------------------------------------------------------------
(* Nothing is lost.                                                        *)

\* Only these steps change what the bridge has taken or the user was told.
LEMMA SettledGrows ==
    ASSUME TypeOK, [Next]_vars
    PROVE  /\ kind' = kind
           /\ \A m \in Messages : handled'[m] >= handled[m]
           /\ noticed \subseteq noticed'
<1> USE DEF elsewhere, server, loop, buffer, gc, results, vars
<1>1. CASE HandleSucceeds
  <2>1. req.msg \in Messages
    BY <1>1, InHand DEF HandleSucceeds
  <2> QED
    BY <1>1, <2>1 DEF HandleSucceeds, TypeOK
<1>2. ASSUME NEW n \in Messages, OrphanReturns(n)
      PROVE  /\ kind' = kind
             /\ \A m \in Messages : handled'[m] >= handled[m]
             /\ noticed \subseteq noticed'
  <2>1. CASE handled' = [handled EXCEPT ![n] = @ + 1]
    BY <1>2, <2>1 DEF OrphanReturns, TypeOK
  <2>2. CASE handled' = handled
    BY <1>2, <2>2 DEF OrphanReturns, TypeOK
  <2> QED
    BY <1>2, <2>1, <2>2 DEF OrphanReturns
<1>3. CASE HandleError
    BY <1>3 DEF HandleError, TypeOK
<1>4. CASE UNCHANGED <<kind, handled, noticed>>
    BY <1>4 DEF TypeOK
<1>5. CASE ServerSend \/ (\E m \in Messages : ServerAck(m)) \/ Break \/ Disconnect
           \/ Reconnect \/ WriteAck \/ ResetWriteCount \/ WriteCallback \/ Tick
           \/ Stop \/ Crash \/ UNCHANGED vars
    BY <1>4, <1>5 DEF ServerSend, ServerAck, Break, Disconnect, Reconnect, WriteAck,
        ResetWriteCount, WriteCallback, Tick, Stop, Crash, Restart
<1>6. CASE TakeRequest \/ RejectGarbled \/ SkipUnbuffered \/ ReplayBuffered
           \/ DecryptFresh \/ DecryptFails \/ BufferFails \/ HandleFails \/ HandleDrops
           \/ ClearPlaintext \/ ClearPlaintextFails \/ PushAck
    BY <1>4, <1>6 DEF TakeRequest, RejectGarbled, SkipUnbuffered, ReplayBuffered,
        DecryptFresh, DecryptFails, BufferFails, HandleFails, HandleDrops, ClearPlaintext,
        ClearPlaintextFails, PushAck
<1> QED
    BY <1>1, <1>2, <1>3, <1>5, <1>6 DEF Next, RequestLoop

LEMMA DoneStays ==
    ASSUME TypeOK, TypeOK', [Next]_vars, NEW m \in Messages
    PROVE  /\ Owed(m)' = Owed(m)
           /\ Settled(m) => Settled(m)'
           /\ Done(m) => Done(m)'
<1>1. kind' = kind /\ handled'[m] >= handled[m] /\ noticed \subseteq noticed'
    BY SettledGrows
<1>2. Owed(m)' = Owed(m)
    BY <1>1 DEF Owed
<1>3. Settled(m) => Settled(m)'
  <2>1. handled[m] \in Nat /\ handled'[m] \in Nat
    BY DEF TypeOK
  <2> QED
    BY <1>1, <2>1 DEF Settled
<1> QED
    BY <1>2, <1>3 DEF Done

LEMMA InitAnswerInv == Init => AnswerInv
    BY DEF Init, AnswerInv, PlaintextKept

LEMMA NextAnswerInv ==
    ASSUME "badskdm" \notin Kinds, TypeOK, TypeOK', BufferInv, AnswerInv, [Next]_vars
    PROVE  AnswerInv'
<1> DEFINE Answered == /\ \A m \in Messages \ unacked : Done(m)
                       /\ \A m \in ackWire : Done(m)
                       /\ \A r \in outbox : Done(r.msg)
           Standing == /\ stage \in {"ack", "clear"} => Done(req.msg)
                       /\ stage # "clearNoAck"
<1> USE DEF elsewhere, server, loop, buffer, gc, results, vars
<1>1. ackWire \subseteq Messages /\ outbox \subseteq Request
      /\ \A r \in outbox : r.msg \in Messages
    BY DEF TypeOK, Request
<1>2. \A m \in Messages : Done(m) => Done(m)'
    BY DoneStays
<1>3. ASSUME UNCHANGED <<unacked, ackWire, outbox>> PROVE Answered'
    BY <1>1, <1>2, <1>3 DEF AnswerInv
<1>4. ASSUME UNCHANGED <<stage, req>> PROVE Standing'
    BY <1>2, <1>4, InHand DEF AnswerInv
<1>5. ASSUME UNCHANGED <<row, ratchet>> PROVE PlaintextKept'
  <2> SUFFICES ASSUME NEW m \in ratchet', Owed(m)', ~Settled(m)' PROVE row'[m] = "plain"
    BY DEF PlaintextKept
  <2>1. m \in Messages /\ m \in ratchet
    BY <1>5 DEF TypeOK
  <2>2. Owed(m) /\ ~Settled(m)
    BY <2>1, DoneStays
  <2> QED
    BY <1>5, <2>1, <2>2 DEF AnswerInv, PlaintextKept
<1>6. CASE ServerSend \/ Break \/ ResetWriteCount \/ Tick \/ UNCHANGED vars
           \/ (\E m \in Messages : OrphanReturns(m))
    BY <1>3, <1>4, <1>5, <1>6 DEF AnswerInv, ServerSend, Break, ResetWriteCount,
        Tick, OrphanReturns
<1>7. ASSUME NEW n \in Messages, ServerAck(n) PROVE AnswerInv'
  <2>1. Answered'
    BY <1>1, <1>2, <1>7 DEF ServerAck, AnswerInv
  <2> QED
    BY <1>4, <1>5, <1>7, <2>1 DEF ServerAck, AnswerInv
<1>8. CASE Reconnect
  <2>1. Answered'
    BY <1>1, <1>2, <1>8 DEF Reconnect, AnswerInv
  <2> QED
    BY <1>4, <1>5, <1>8, <2>1 DEF Reconnect, AnswerInv
<1>9. CASE WriteAck
  <2>1. Answered'
    BY <1>1, <1>2, <1>9 DEF WriteAck, AnswerInv
  <2> QED
    BY <1>4, <1>5, <1>9, <2>1 DEF WriteAck, AnswerInv
<1>10. CASE Disconnect
  <2>1. Answered'
    BY <1>1, <1>2, <1>10 DEF Disconnect, AnswerInv
  <2>2. stage # "idle" => req'.msg = req.msg /\ req.msg \in Messages
    BY <1>10, InHand, StaleKeepsMsg DEF Disconnect
  <2>3. Standing'
    BY <1>2, <1>10, <2>2 DEF Disconnect, AnswerInv
  <2> QED
    BY <1>5, <1>10, <2>1, <2>3 DEF Disconnect, AnswerInv
<1>11. CASE Stop \/ Crash
  <2>1. Answered'
    BY <1>1, <1>2, <1>11 DEF Stop, Crash, Restart, AnswerInv
  <2>2. Standing'
    BY <1>11 DEF Stop, Crash, Restart, Goto
  <2> QED
    BY <1>5, <1>11, <2>1, <2>2 DEF Stop, Crash, Restart, AnswerInv
<1>12. CASE TakeRequest \/ RejectGarbled
  <2>1. Standing'
    BY <1>12 DEF TakeRequest, RejectGarbled, Goto
  <2> QED
    BY <1>3, <1>5, <1>12, <2>1 DEF TakeRequest, RejectGarbled, AnswerInv
<1>13. CASE SkipUnbuffered
  <2>1. req.msg \in Messages /\ Done(req.msg)
    BY <1>13, InHand DEF SkipUnbuffered, Done, Owed
  <2>2. Standing'
    BY <1>2, <1>13, <2>1 DEF SkipUnbuffered, Goto
  <2> QED
    BY <1>3, <1>5, <1>13, <2>2 DEF SkipUnbuffered, AnswerInv
\* A cleared row is that of a message the bridge has taken.
<1>14. CASE ReplayBuffered
  <2>1. req.msg \in Messages
    BY <1>14, InHand DEF ReplayBuffered
  <2>2. row[req.msg] = "cleared" => Done(req.msg)
    BY <2>1 DEF AnswerInv, BufferInv, PlaintextKept, Done
  <2>3. Standing'
    BY <1>2, <1>14, <2>1, <2>2 DEF ReplayBuffered, AfterDecrypt, Goto
  <2> QED
    BY <1>3, <1>5, <1>14, <2>3 DEF ReplayBuffered, AnswerInv
<1>15. CASE DecryptFresh
  <2>1. req.msg \in Messages
    BY <1>15, InHand DEF DecryptFresh
  <2>2. Standing'
    BY <1>15 DEF DecryptFresh, AfterDecrypt, Goto
  <2>3. PlaintextKept'
    <3> SUFFICES ASSUME NEW m \in ratchet', Owed(m)', ~Settled(m)' PROVE row'[m] = "plain"
      BY DEF PlaintextKept
    <3>1. m \in Messages
      BY DEF TypeOK
    <3>2. Owed(m) /\ ~Settled(m)
      BY <3>1, DoneStays
    <3> QED
      BY <1>15, <2>1, <3>1, <3>2 DEF DecryptFresh, AnswerInv, PlaintextKept, TypeOK
  <2> QED
    BY <1>3, <1>15, <2>2, <2>3 DEF DecryptFresh, AnswerInv
<1>16. CASE DecryptFails \/ BufferFails
  <2>1. Standing'
    BY <1>16 DEF DecryptFails, BufferFails, Goto
  <2> QED
    BY <1>3, <1>5, <1>16, <2>1 DEF DecryptFails, BufferFails, AnswerInv
\* Told, or of a kind that is not owed, or taken before its row was pruned.
<1>17. CASE HandleError
  <2>1. req.msg \in Messages
    BY <1>17, InHand DEF HandleError
  <2>2. stage = "errorOld" => Done(req.msg)
    BY <2>1 DEF AnswerInv, BufferInv, PlaintextKept, Done
  <2>3. stage # "errorOld" /\ (~Notifies(req.msg) \/ kind[req.msg] = "lenient")
        => Done(req.msg)
    BY DEF Notifies, Unheard, Done, Owed
  <2>4. \/ stage' = "idle"
        \/ stage' = "ack" /\ req' = req /\ (req.msg \in noticed' \/ Done(req.msg))
    BY <1>17, <2>2, <2>3 DEF HandleError, Goto
  <2>5. Standing'
    BY <1>2, <2>1, <2>4 DEF Done, Settled
  <2> QED
    BY <1>3, <1>5, <1>17, <2>5 DEF HandleError, AnswerInv
<1>18. CASE HandleSucceeds
  <2>1. req.msg \in Messages
    BY <1>18, InHand DEF HandleSucceeds
  <2>2. Settled(req.msg)'
    BY <1>18, <2>1 DEF HandleSucceeds, Settled, Goto, TypeOK
  <2>3. Standing'
    BY <1>18, <2>2 DEF HandleSucceeds, Goto, Done, Settled
  <2> QED
    BY <1>3, <1>5, <1>18, <2>3 DEF HandleSucceeds, AnswerInv
<1>19. CASE HandleFails \/ HandleDrops
  <2>1. req.msg \in Messages
    BY <1>19, InHand DEF HandleFails, HandleDrops
  <2>2. kind[req.msg] \in {"data", "receipt", "lenient", "foreign"}
    BY <1>19, <2>1 DEF HandleFails, HandleDrops, BufferInv, Decryptable, TypeOK
  <2>3. kind[req.msg] # "data" => Done(req.msg)
    BY <2>2 DEF Done, Owed
  <2>4. Standing'
    BY <1>2, <1>19, <2>1, <2>2, <2>3 DEF HandleFails, HandleDrops, HasHandler, Goto
  <2> QED
    BY <1>3, <1>5, <1>19, <2>4 DEF HandleFails, HandleDrops, AnswerInv
<1>20. CASE ClearPlaintext
  <2>1. req.msg \in Messages /\ Done(req.msg) /\ stage = "clear"
    BY <1>20, InHand DEF ClearPlaintext, AnswerInv
  <2>2. Standing'
    BY <1>2, <1>20, <2>1 DEF ClearPlaintext, AfterClear, Goto
  <2>3. PlaintextKept'
    <3> SUFFICES ASSUME NEW m \in ratchet', Owed(m)', ~Settled(m)' PROVE row'[m] = "plain"
      BY DEF PlaintextKept
    <3>1. m \in Messages /\ m \in ratchet
      BY <1>20 DEF ClearPlaintext, TypeOK
    <3>2. Owed(m) /\ ~Settled(m)
      BY <3>1, DoneStays
    <3>3. m # req.msg
      BY <2>1, <3>2 DEF Done
    <3> QED
      BY <1>20, <2>1, <3>1, <3>2, <3>3 DEF ClearPlaintext, AnswerInv, PlaintextKept, TypeOK
  <2> QED
    BY <1>3, <1>20, <2>2, <2>3 DEF ClearPlaintext, AnswerInv
<1>21. CASE ClearPlaintextFails
  <2>1. req.msg \in Messages /\ Done(req.msg) /\ stage = "clear"
    BY <1>21, InHand DEF ClearPlaintextFails, AnswerInv
  <2>2. Standing'
    BY <1>2, <1>21, <2>1 DEF ClearPlaintextFails, AfterClear, Goto
  <2> QED
    BY <1>3, <1>5, <1>21, <2>2 DEF ClearPlaintextFails, AnswerInv
<1>22. CASE PushAck
  <2>1. req.msg \in Messages /\ Done(req.msg)
    BY <1>22, InHand DEF PushAck, AnswerInv
  <2>2. Answered'
    BY <1>1, <1>2, <1>22, <2>1 DEF PushAck, AnswerInv
  <2>3. Standing'
    BY <1>22 DEF PushAck, Goto
  <2> QED
    BY <1>5, <1>22, <2>2, <2>3 DEF PushAck, AnswerInv
\* Only cleared rows are pruned.
<1>23. CASE WriteCallback
  <2>1. \A m \in Messages : row[m] = "plain" => row'[m] = "plain"
    BY <1>23 DEF WriteCallback, Deletable, TypeOK
  <2>2. PlaintextKept'
    <3> SUFFICES ASSUME NEW m \in ratchet', Owed(m)', ~Settled(m)' PROVE row'[m] = "plain"
      BY DEF PlaintextKept
    <3>1. m \in Messages /\ m \in ratchet
      BY <1>23 DEF WriteCallback, TypeOK
    <3>2. Owed(m) /\ ~Settled(m)
      BY <3>1, DoneStays
    <3> QED
      BY <2>1, <3>1, <3>2 DEF AnswerInv, PlaintextKept
  <2> QED
    BY <1>3, <1>4, <1>23, <2>2 DEF WriteCallback, AnswerInv
<1> QED
    BY <1>6, <1>7, <1>8, <1>9, <1>10, <1>11, <1>12, <1>13, <1>14, <1>15, <1>16,
       <1>17, <1>18, <1>19, <1>20, <1>21, <1>22, <1>23 DEF Next, RequestLoop

\* The server is told that an envelope was processed only after the bridge
\* took its event or the user was told, for any number of envelopes,
\* reconnections, stops, crashes and failing writes, unless a sender key
\* distribution message is refused (NothingLost is then false, see the run
\* receiving_skdm).
THEOREM NothingIsLost ==
    ASSUME "badskdm" \notin Kinds
    PROVE  Spec => []NothingLost
<1>1. TypeOK /\ TypeOK' /\ BufferInv /\ AnswerInv /\ [Next]_vars => AnswerInv'
    BY NextAnswerInv
<1>2. AnswerInv => NothingLost
    BY DEF AnswerInv, NothingLost, Done
<1> QED
    BY <1>1, <1>2, InitTypeOK, NextTypeOK, InitBufferInv, NextBufferInv,
       InitAnswerInv, PTL DEF Spec

\* The plaintext of a message whose key is used up stays in the event buffer
\* until the bridge has taken it, whatever fails, is pruned or restarts.
THEOREM PlaintextIsKept ==
    ASSUME "badskdm" \notin Kinds
    PROVE  Spec => []PlaintextKept
<1>1. TypeOK /\ TypeOK' /\ BufferInv /\ AnswerInv /\ [Next]_vars => AnswerInv'
    BY NextAnswerInv
<1>2. AnswerInv => PlaintextKept
    BY DEF AnswerInv
<1> QED
    BY <1>1, <1>2, InitTypeOK, NextTypeOK, InitBufferInv, NextBufferInv,
       InitAnswerInv, PTL DEF Spec

-----------------------------------------------------------------------------
(* Receiving implements at-least-once delivery.                            *)

LEMMA InitDelivery == Init => Delivery!Init
    BY DEF Init, Delivery!Init, Owed, Settled

\* What the server and the bridge agree on changes one message at a time.
LEMMA NextDelivery ==
    ASSUME TypeOK, TypeOK', AnswerInv, [Next]_vars
    PROVE  [Delivery!Next]_Delivery!vars
<1> DEFINE owed == {m \in Messages : Owed(m)}
           given == {m \in Messages : Settled(m)}
<1> USE DEF elsewhere, server, loop, buffer, gc, results, vars
<1>1. owed' = owed
    BY DoneStays
<1>2. ASSUME UNCHANGED <<unacked, handled, noticed>>
      PROVE  UNCHANGED Delivery!vars
    BY <1>1, <1>2 DEF Delivery!vars, Settled
<1>3. ASSUME NEW n \in Messages, unacked' = unacked, given' = given \cup {n}
      PROVE  Delivery!Next
    BY <1>1, <1>3 DEF Delivery!Next, Delivery!Give
<1>4. ASSUME NEW n \in Messages, unacked' = unacked, noticed' = noticed,
             handled' = [handled EXCEPT ![n] = @ + 1]
      PROVE  Delivery!Next
  <2>1. Settled(n)'
    BY <1>4 DEF TypeOK, Settled
  <2>2. \A m \in Messages \ {n} : Settled(m)' = Settled(m)
    BY <1>4 DEF TypeOK, Settled
  <2>3. given' = given \cup {n}
    BY <2>1, <2>2
  <2> QED
    BY <1>3, <1>4, <2>3
<1>5. ASSUME NEW n \in Messages, ServerAck(n) PROVE Delivery!Next
  <2>1. Done(n)
    BY <1>5 DEF ServerAck, AnswerInv
  <2>2. given' = given
    BY <1>5 DEF ServerAck, Settled
  <2>3. Delivery!Forget(n)
    BY <1>1, <1>5, <2>1, <2>2 DEF ServerAck, Delivery!Forget, Done
  <2> QED
    BY <2>3 DEF Delivery!Next
<1>6. CASE HandleSucceeds
  <2>1. req.msg \in Messages
    BY <1>6, InHand DEF HandleSucceeds
  <2> QED
    BY <1>4, <1>6, <2>1 DEF HandleSucceeds
<1>7. ASSUME NEW n \in Messages, OrphanReturns(n)
      PROVE  [Delivery!Next]_Delivery!vars
    BY <1>2, <1>4, <1>7 DEF OrphanReturns
<1>8. CASE HandleError
  <2>1. req.msg \in Messages
    BY <1>8, InHand DEF HandleError
  <2>2. CASE noticed' = noticed
    BY <1>2, <1>8, <2>2 DEF HandleError
  <2>3. CASE noticed' = noticed \cup {req.msg}
    <3>1. given' = given \cup {req.msg}
      BY <1>8, <2>1, <2>3 DEF HandleError, Settled
    <3> QED
      BY <1>3, <1>8, <2>1, <3>1 DEF HandleError
  <2> QED
    BY <1>8, <2>2, <2>3 DEF HandleError
<1>9. CASE ServerSend \/ Break \/ Disconnect \/ Reconnect \/ WriteAck
           \/ ResetWriteCount \/ WriteCallback \/ Tick \/ Stop \/ Crash
           \/ UNCHANGED vars
    BY <1>2, <1>9 DEF ServerSend, Break, Disconnect, Reconnect, WriteAck,
        ResetWriteCount, WriteCallback, Tick, Stop, Crash, Restart
<1>10. CASE TakeRequest \/ RejectGarbled \/ SkipUnbuffered \/ ReplayBuffered
            \/ DecryptFresh \/ DecryptFails \/ BufferFails \/ HandleFails \/ HandleDrops
            \/ ClearPlaintext \/ ClearPlaintextFails \/ PushAck
    BY <1>2, <1>10 DEF TakeRequest, RejectGarbled, SkipUnbuffered, ReplayBuffered,
        DecryptFresh, DecryptFails, BufferFails, HandleFails, HandleDrops, ClearPlaintext,
        ClearPlaintextFails, PushAck
<1> QED
    BY <1>5, <1>6, <1>7, <1>8, <1>9, <1>10 DEF Next, RequestLoop

\* Every step of the client, the server and the network is a step of
\* at-least-once delivery or changes nothing that it can see.
THEOREM ImplementsDelivery ==
    ASSUME "badskdm" \notin Kinds
    PROVE  Spec => DeliverySpec
<1>1. TypeOK /\ TypeOK' /\ BufferInv /\ AnswerInv /\ [Next]_vars => AnswerInv'
    BY NextAnswerInv
<1>2. TypeOK /\ TypeOK' /\ AnswerInv /\ [Next]_vars => [Delivery!Next]_Delivery!vars
    BY NextDelivery
<1> QED
    BY <1>1, <1>2, InitTypeOK, NextTypeOK, InitBufferInv, NextBufferInv,
       InitAnswerInv, InitDelivery, PTL DEF Spec, DeliverySpec, Delivery!Spec

-----------------------------------------------------------------------------
(* Notices and repetitions.                                                *)

LEMMA InitKindInv == Init => KindInv
    BY DEF Init, KindInv

LEMMA NextKindInv == TypeOK /\ BufferInv /\ KindInv /\ [Next]_vars => KindInv'
<1> SUFFICES ASSUME TypeOK, BufferInv, KindInv, [Next]_vars PROVE KindInv'
    OBVIOUS
<1> USE DEF elsewhere, server, loop, buffer, gc, results, vars
<1>1. kind' = kind
    BY SettledGrows
<1>2. CASE UNCHANGED <<handled, noticed, orphans>> /\ misread \subseteq misread'
    BY <1>1, <1>2 DEF KindInv, HasHandler
<1>3. CASE HandleSucceeds
  <2>1. req.msg \in Messages
    BY <1>3, InHand DEF HandleSucceeds
  <2> QED
    BY <1>1, <1>3, <2>1 DEF HandleSucceeds, KindInv, HasHandler, TypeOK
<1>4. ASSUME NEW n \in Messages, OrphanReturns(n) PROVE KindInv'
  <2>1. HasHandler(n)
    BY <1>4 DEF OrphanReturns, KindInv
  <2>2. \A m \in Messages : handled'[m] > 0 => handled[m] > 0 \/ m = n
    <3>1. CASE handled' = [handled EXCEPT ![n] = @ + 1]
      BY <3>1 DEF TypeOK
    <3>2. CASE handled' = handled
      BY <3>2
    <3> QED
      BY <1>4, <3>1, <3>2 DEF OrphanReturns
  <2> QED
    BY <1>1, <1>4, <2>1, <2>2 DEF OrphanReturns, KindInv, HasHandler
<1>5. CASE HandleError
  <2>1. req.msg \in Messages
    BY <1>5, InHand DEF HandleError
  <2>2. Notifies(req.msg) /\ HasHandler(req.msg) => req.msg \in misread
    BY <1>5 DEF HandleError, Notifies, HasHandler, BufferInv
  <2> QED
    BY <1>1, <1>5, <2>1, <2>2 DEF HandleError, KindInv, HasHandler
<1>6. CASE Stop \/ Crash
    BY <1>1, <1>6 DEF Stop, Crash, Restart, KindInv, HasHandler
<1>7. CASE ServerSend \/ (\E m \in Messages : ServerAck(m)) \/ Break \/ Disconnect
           \/ Reconnect \/ WriteAck \/ ResetWriteCount \/ WriteCallback \/ Tick
           \/ UNCHANGED vars
    BY <1>2, <1>7 DEF ServerSend, ServerAck, Break, Disconnect, Reconnect, WriteAck,
        ResetWriteCount, WriteCallback, Tick
<1>8. CASE TakeRequest \/ RejectGarbled \/ SkipUnbuffered \/ ReplayBuffered
           \/ DecryptFresh \/ DecryptFails \/ BufferFails \/ HandleFails \/ HandleDrops
           \/ ClearPlaintext \/ ClearPlaintextFails \/ PushAck
    BY <1>2, <1>8 DEF TakeRequest, RejectGarbled, SkipUnbuffered, ReplayBuffered,
        DecryptFresh, DecryptFails, BufferFails, HandleFails, HandleDrops, ClearPlaintext,
        ClearPlaintextFails, PushAck
<1> QED
    BY <1>3, <1>4, <1>5, <1>6, <1>7, <1>8 DEF Next, RequestLoop

\* A message the bridge has taken is never reported as undecryptable when the
\* server sends it again, even after its row in the buffer was pruned.
THEOREM NoticesAreGenuine == Spec => []NoSpuriousNotice
<1>1. KindInv => NoSpuriousNotice
    BY DEF KindInv, NoSpuriousNotice
<1> QED
    BY <1>1, InitTypeOK, NextTypeOK, InitBufferInv, NextBufferInv, InitKindInv,
       NextKindInv, PTL DEF Spec

LEMMA InitRepeatInv == Init => RepeatInv
<1> SUFFICES ASSUME Init, NEW m \in Messages PROVE Due(m) <= 1 + faults
    BY DEF RepeatInv
<1>1. handled[m] = 0 /\ m \notin orphans /\ faults = 0
    BY DEF Init
<1> QED
    BY <1>1 DEF Due

LEMMA NextRepeatInv == TypeOK /\ TypeOK' /\ BufferInv /\ RepeatInv /\ [Next]_vars => RepeatInv'
<1> SUFFICES ASSUME TypeOK, TypeOK', BufferInv, RepeatInv, [Next]_vars PROVE RepeatInv'
    OBVIOUS
<1> USE DEF elsewhere, server, loop, buffer, gc, results, vars
<1>1. /\ faults \in Nat /\ faults' \in Nat
      /\ \A m \in Messages : handled[m] \in Nat /\ handled'[m] \in Nat
    BY DEF TypeOK
\* A step on which the loop gains no chance to hand the event over.
<1>2. ASSUME handled' = handled, faults' = faults, orphans' = orphans,
             \A m \in Messages : Again(m)' => Again(m)
      PROVE  RepeatInv'
    BY <1>1, <1>2 DEF RepeatInv, Due
\* A fault, which pays for one more chance.
<1>3. ASSUME handled' = handled, faults' = faults + 1,
             \A m \in Messages : \/ m \in orphans' => m \in orphans
                                 \/ Again(m)' => Again(m)
      PROVE  RepeatInv'
    BY <1>1, <1>3 DEF RepeatInv, Due
<1>4. ASSUME UNCHANGED <<row, ratchet>>, UNCHANGED <<handled, faults, orphans>>,
             stage \notin {"clear", "clearNoAck"}
      PROVE  RepeatInv'
    BY <1>2, <1>4 DEF Again
<1>5. CASE ServerSend \/ (\E m \in Messages : ServerAck(m)) \/ Break \/ Reconnect
           \/ WriteAck \/ ResetWriteCount \/ Tick \/ UNCHANGED vars
    BY <1>2, <1>5 DEF ServerSend, ServerAck, Break, Reconnect, WriteAck,
        ResetWriteCount, Tick, Again
<1>6. CASE Disconnect
  <2>1. stage # "idle" => req'.msg = req.msg
    BY <1>6, InHand, StaleKeepsMsg DEF Disconnect
  <2> QED
    BY <1>2, <1>6, <2>1 DEF Disconnect, Again
<1>7. CASE TakeRequest \/ RejectGarbled \/ SkipUnbuffered \/ ReplayBuffered
           \/ DecryptFails \/ HandleFails \/ HandleDrops \/ PushAck \/ HandleError
    BY <1>4, <1>7 DEF TakeRequest, RejectGarbled, SkipUnbuffered, ReplayBuffered,
        DecryptFails, HandleFails, HandleDrops, PushAck, HandleError
<1>8. CASE DecryptFresh
  <2>1. req.msg \in Messages
    BY <1>8, InHand DEF DecryptFresh
  <2>2. \A m \in Messages : Again(m)' => Again(m)
    BY <1>8, <2>1 DEF DecryptFresh, Again, TypeOK
  <2> QED
    BY <1>2, <1>8, <2>2 DEF DecryptFresh
\* The chance is used: the event is taken, and the row is about to be cleared.
<1>9. CASE HandleSucceeds
  <2>1. req.msg \in Messages
    BY <1>9, InHand DEF HandleSucceeds
  <2>2. req' = req /\ orphans' = orphans /\ faults' = faults
    BY <1>9 DEF HandleSucceeds, Goto
  <2>3. \A m \in Messages : m = req.msg => Again(m) /\ ~Again(m)'
    BY <1>9, <2>2 DEF HandleSucceeds, Goto, Again, BufferInv
  <2>4. \A m \in Messages : Again(m)' => Again(m)
    BY <1>9 DEF HandleSucceeds, Again
  <2>5. \A m \in Messages :
           handled'[m] = IF m = req.msg THEN handled[m] + 1 ELSE handled[m]
    BY <1>9, <2>1 DEF HandleSucceeds, TypeOK
  <2>6. \A m \in Messages : Due(m)' <= Due(m)
    <3> SUFFICES ASSUME NEW m \in Messages PROVE Due(m)' <= Due(m)
      OBVIOUS
    <3>1. CASE m = req.msg
      BY <1>1, <2>2, <2>3, <2>5, <3>1 DEF Due
    <3>2. CASE m # req.msg
      BY <1>1, <2>2, <2>4, <2>5, <3>2 DEF Due
    <3> QED
      BY <3>1, <3>2
  <2>7. \A m \in Messages : Due(m) \in Nat /\ Due(m)' \in Nat
    BY <1>1 DEF Due
  <2> QED
    BY <1>1, <2>2, <2>6, <2>7 DEF RepeatInv
<1>10. CASE ClearPlaintext
  <2>1. req.msg \in Messages /\ req.msg \in ratchet
    BY <1>10, InHand DEF ClearPlaintext, BufferInv
  <2>2. \A m \in Messages : Again(m)' => Again(m)
    BY <1>10, <2>1 DEF ClearPlaintext, Again, TypeOK
  <2> QED
    BY <1>2, <1>10, <2>2 DEF ClearPlaintext
<1>11. CASE ClearPlaintextFails \/ BufferFails
    BY <1>3, <1>11 DEF ClearPlaintextFails, BufferFails
<1>12. CASE WriteCallback
  <2>1. \A m \in Messages : row'[m] = "plain" => row[m] = "plain"
    BY <1>12 DEF WriteCallback, Deletable, TypeOK
  <2> QED
    BY <1>2, <1>12, <2>1 DEF WriteCallback, Again
<1>13. CASE Crash
    BY <1>3, <1>13 DEF Crash, Restart
<1>14. CASE Stop
  <2>1. \A m \in Messages : \/ m \in orphans' => m \in orphans
                            \/ Again(m)' => Again(m)
    BY <1>14 DEF Stop, Restart, Goto, Again
  <2> QED
    BY <1>3, <1>14, <2>1 DEF Stop, Restart
<1>15. ASSUME NEW n \in Messages, OrphanReturns(n) PROVE RepeatInv'
  <2>1. \A m \in Messages : Again(m)' => Again(m)
    BY <1>15 DEF OrphanReturns, Again
  <2>2. \A m \in Messages : handled'[m] <= handled[m] + (IF m = n THEN 1 ELSE 0)
    <3>1. CASE handled' = [handled EXCEPT ![n] = @ + 1]
      <4>1. /\ handled'[n] = handled[n] + 1
            /\ \A m \in Messages \ {n} : handled'[m] = handled[m]
        BY <3>1 DEF TypeOK
      <4> QED
        BY <1>1, <4>1
    <3>2. CASE handled' = handled
      BY <1>1, <3>2
    <3> QED
      BY <1>15, <3>1, <3>2 DEF OrphanReturns
  <2> QED
    BY <1>1, <1>15, <2>1, <2>2 DEF OrphanReturns, RepeatInv, Due
<1> QED
    BY <1>5, <1>6, <1>7, <1>8, <1>9, <1>10, <1>11, <1>12, <1>13, <1>14, <1>15
    DEF Next, RequestLoop

\* Reconnections alone never make the bridge take an event twice: every
\* repetition is paid for by a stop, a crash or a database write that failed.
THEOREM RepetitionsArePaidFor == Spec => []RepetitionsNeedFaults
<1>1. TypeOK /\ RepeatInv => RepetitionsNeedFaults
  <2> SUFFICES ASSUME TypeOK, RepeatInv, NEW m \in Messages
               PROVE  handled[m] <= 1 + faults
    BY DEF RepetitionsNeedFaults
  <2>1. handled[m] \in Nat /\ faults \in Nat
    BY DEF TypeOK
  <2>2. Due(m) <= 1 + faults
    BY DEF RepeatInv
  <2> QED
    BY <2>1, <2>2 DEF Due
<1> QED
    BY <1>1, InitTypeOK, NextTypeOK, InitBufferInv, NextBufferInv, InitRepeatInv,
       NextRepeatInv, PTL DEF Spec
=============================================================================

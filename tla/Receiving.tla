------------------------------ MODULE Receiving ------------------------------
(***************************************************************************)
(* The path of an envelope from the Signal server to the bridge and of its *)
(* acknowledgement back: pkg/signalmeow/receiving.go, receiving_decrypt.go *)
(* and store/event_buffer.go.                                              *)
(*                                                                         *)
(* The server keeps an envelope until the client answers 200 to it and     *)
(* sends everything it still keeps again on every new connection.  The     *)
(* ratchet decrypts a ciphertext only once, so the client stores the       *)
(* plaintext in the event buffer in the transaction that advances the      *)
(* ratchet, clears it once the bridge has taken the event, and deletes the *)
(* cleared rows some time after their answers were written.                *)
(*                                                                         *)
(* One goroutine (the request loop) handles envelopes one at a time; the   *)
(* write loop, the buffer's garbage collector, the network and the server  *)
(* run beside it.  The process may be stopped or killed at any step.       *)
(***************************************************************************)
EXTENDS Integers, Sequences

CONSTANTS
    Messages,      \* envelopes, numbered in the order the server stores them
    Kinds,         \* what an envelope may turn out to be, see AllKinds
    ChanCap,       \* capacity of incomingRequestChan (256 in the code)
    MinCallbacks,  \* callbackCount >= 4 in StartReceiveLoops
    MaxTime,       \* bound on the clock
    MaxFaults      \* bound on stops, crashes and failing database writes

VARIABLES
    kind,       \* what each envelope is; never changes
    unacked,    \* server: envelopes whose answer it has not seen
    sent,       \* server: envelopes sent on the current connection
    conn,       \* "up", "broken" (dead, not noticed yet) or "down"
    chan,       \* incomingRequestChan, survives reconnections
    stage,      \* where the request loop is
    req,        \* the request it is handling
    outbox,     \* the response the write loop has taken and not yet written
    ackWire,    \* answers written on the current connection, not yet seen
    row,        \* signalmeow_event_buffer: no row, plaintext, or cleared
    ins,        \* insert_timestamp of the row
    ratchet,    \* ciphertexts whose message key was used up
    handled,    \* how often the bridge accepted the event
    noticed,    \* envelopes reported to the user as undecryptable
    misread,    \* envelopes for which reading or writing the buffer failed
    orphans,    \* handlers still running for a client that was stopped
    now, timer, count, cbc, reset,  \* the garbage collector of the buffer
    faults

server == <<unacked, sent, conn>>
loop == <<chan, stage, req>>
buffer == <<row, ins, ratchet>>
gc == <<timer, count, cbc, reset>>
results == <<handled, noticed, misread>>
vars == <<kind, server, loop, outbox, ackWire, buffer, results, orphans, now,
          gc, faults>>

\* "data": the handler's verdict decides and the envelope is urgent (data, edit
\* and story messages); "receipt": the same, but it is not urgent (receipts and
\* most sync messages); "lenient": the verdict is ignored or there is none
\* (typing, call, sync sent, anything from a blocked sender); "foreign": the
\* sender is no ACI, or a sync message is not from the user; "anonymous": no
\* sender could be read; "garbled": the envelope does not parse; "retry": a
\* decryption error message; "badskdm": its sender key distribution message is
\* refused; "undecryptable": decryption fails and the user is to be told;
\* "quiet": the same for a message that is not urgent; "unparsable": it
\* decrypts, but has bad padding or is no Content.
AllKinds == {"data", "receipt", "lenient", "foreign", "anonymous", "garbled",
             "retry", "badskdm", "undecryptable", "quiet", "unparsable"}

ASSUME ConstantsAssumption ==
    /\ Messages \subseteq Nat
    /\ Kinds \subseteq AllKinds
    /\ ChanCap \in Nat \ {0}
    /\ MinCallbacks \in Nat
    /\ MaxTime \in Nat
    /\ MaxFaults \in Nat

Stages == {"idle", "taken", "errorBad", "errorOld", "handle", "clear",
           "clearNoAck", "ack"}
Request == [msg : Messages, live : BOOLEAN]
NoTime == -1
NoRequest == [msg |-> NoTime, live |-> FALSE]

TypeOK ==
    /\ kind \in [Messages -> Kinds]
    /\ unacked \subseteq Messages
    /\ sent \subseteq Messages
    /\ conn \in {"up", "broken", "down"}
    /\ chan \in Seq(Request)
    /\ stage \in Stages
    /\ req \in IF stage = "idle" THEN {NoRequest} ELSE Request
    /\ outbox \subseteq Request
    /\ ackWire \subseteq Messages
    /\ row \in [Messages -> {"none", "plain", "cleared"}]
    /\ ins \in [Messages -> Nat]
    /\ ratchet \subseteq Messages
    /\ handled \in [Messages -> Nat]
    /\ noticed \subseteq Messages
    /\ misread \subseteq Messages
    /\ orphans \subseteq Messages
    /\ now \in Nat /\ timer \in Nat /\ count \in Nat
    /\ cbc \in Nat \cup {NoTime}
    /\ reset \in BOOLEAN
    /\ faults \in Nat

Init ==
    /\ kind \in [Messages -> Kinds]
    /\ unacked = Messages
    /\ sent = {}
    /\ conn = "down"
    /\ chan = <<>>
    /\ stage = "idle"
    /\ req = NoRequest
    /\ outbox = {}
    /\ ackWire = {}
    /\ row = [m \in Messages |-> "none"]
    /\ ins = [m \in Messages |-> 0]
    /\ ratchet = {}
    /\ handled = [m \in Messages |-> 0]
    /\ noticed = {}
    /\ misread = {}
    /\ orphans = {}
    /\ now = 0 /\ timer = 0 /\ count = 0 /\ cbc = NoTime /\ reset = FALSE
    /\ faults = 0

-----------------------------------------------------------------------------
(* The server and the network, as the code in receiving.go relies on them. *)

\* The read loop puts requests into incomingRequestChan in the order they
\* arrive, and the server sends what it keeps in the order it stored it.
ServerSend ==
    /\ conn = "up"
    /\ Len(chan) < ChanCap
    /\ \E m \in unacked \ sent :
          /\ \A n \in unacked \ sent : m <= n
          /\ chan' = Append(chan, [msg |-> m, live |-> TRUE])
          /\ sent' = sent \cup {m}
    /\ UNCHANGED <<kind, unacked, conn, stage, req, outbox, ackWire, buffer,
                   results, orphans, now, gc, faults>>

ServerAck(m) ==
    /\ m \in ackWire
    /\ ackWire' = ackWire \ {m}
    /\ unacked' = unacked \ {m}
    /\ UNCHANGED <<kind, sent, conn, loop, outbox, buffer, results, orphans,
                   now, gc, faults>>

\* The path to the server dies; the client goes on writing into it.
Break ==
    /\ conn = "up"
    /\ conn' = "broken"
    /\ UNCHANGED <<kind, unacked, sent, loop, outbox, ackWire, buffer, results,
                   orphans, now, gc, faults>>

Stale(r) == [r EXCEPT !.live = FALSE]

\* The read, write or ping loop fails.  What the write loop had taken is
\* dropped, and the status loop asks for callbackCount to be reset.  Requests
\* of the old connection stay in incomingRequestChan, but the server will no
\* longer know their ids.
Disconnect ==
    /\ conn # "down"
    /\ conn' = "down"
    /\ sent' = {}
    /\ outbox' = {}
    /\ reset' = TRUE
    /\ chan' = [i \in DOMAIN chan |-> Stale(chan[i])]
    /\ req' = IF stage = "idle" THEN req ELSE Stale(req)
    /\ UNCHANGED <<kind, unacked, stage, ackWire, buffer, results, orphans,
                   now, timer, count, cbc, faults>>

\* Answers of the old connection that the server has not seen may be lost.
Reconnect ==
    /\ conn = "down"
    /\ conn' = "up"
    /\ ackWire' \in SUBSET ackWire
    /\ UNCHANGED <<kind, unacked, sent, loop, outbox, buffer, results, orphans,
                   now, gc, faults>>

-----------------------------------------------------------------------------
(* The request loop.                                                       *)

elsewhere == <<kind, server, outbox, ackWire, orphans, now, gc>>

Goto(s) ==
    /\ stage' = s
    /\ req' = IF s = "idle" THEN NoRequest ELSE req

TakeRequest ==
    /\ stage = "idle"
    /\ chan # <<>>
    /\ req' = Head(chan)
    /\ chan' = Tail(chan)
    /\ stage' = "taken"
    /\ UNCHANGED <<elsewhere, buffer, results, faults>>

\* proto.Unmarshal(req.Body) fails: no response at all.
RejectGarbled ==
    /\ stage = "taken"
    /\ kind[req.msg] = "garbled"
    /\ Goto("idle")
    /\ UNCHANGED <<elsewhere, chan, buffer, results, faults>>

\* Envelopes that never reach the event buffer and are answered at once.
SkipUnbuffered ==
    /\ stage = "taken"
    /\ kind[req.msg] \in {"anonymous", "retry"}
    /\ Goto("ack")
    /\ UNCHANGED <<elsewhere, chan, buffer, results, faults>>

Buffered(m) == kind[m] \notin {"garbled", "anonymous", "retry"}
Undecryptable(m) == kind[m] \in {"undecryptable", "quiet"}
AfterDecrypt(m) == IF kind[m] = "unparsable" THEN "errorBad" ELSE "handle"

\* Broken variant: any row means EventAlreadyProcessed.
ReplayIgnoringPlaintext ==
    /\ stage = "taken"
    /\ Buffered(req.msg)
    /\ row[req.msg] # "none"
    /\ Goto("ack")
    /\ UNCHANGED <<elsewhere, chan, buffer, results, faults>>

\* The row is still there: cleared means EventAlreadyProcessed, which is
\* answered; a plaintext is handled again without touching the ratchet.
ReplayBuffered ==
    /\ stage = "taken"
    /\ Buffered(req.msg)
    /\ row[req.msg] # "none"
    /\ Goto(IF row[req.msg] = "cleared" THEN "ack" ELSE AfterDecrypt(req.msg))
    /\ UNCHANGED <<elsewhere, chan, buffer, results, faults>>

\* DoDecryptionTxn: the ratchet step and the row are committed together.
DecryptFresh ==
    LET m == req.msg IN
    /\ stage = "taken"
    /\ Buffered(m)
    /\ row[m] = "none"
    /\ m \notin ratchet
    /\ ~Undecryptable(m)
    /\ row' = [row EXCEPT ![m] = "plain"]
    /\ ins' = [ins EXCEPT ![m] = now]
    /\ ratchet' = ratchet \cup {m}
    /\ Goto(AfterDecrypt(m))
    /\ UNCHANGED <<elsewhere, chan, results, faults>>

\* The transaction fails: the ciphertext is bad, or its message key was used
\* already ("message with old counter").
DecryptFails ==
    LET m == req.msg IN
    /\ stage = "taken"
    /\ Buffered(m)
    /\ row[m] = "none"
    /\ m \in ratchet \/ Undecryptable(m)
    /\ Goto(IF m \in ratchet THEN "errorOld" ELSE "errorBad")
    /\ UNCHANGED <<elsewhere, chan, buffer, results, faults>>

\* GetBufferedEvent or the decryption transaction fails in the database:
\* nothing is committed, and the error is treated like a failed decryption.
BufferFails ==
    /\ stage = "taken"
    /\ Buffered(req.msg)
    /\ faults < MaxFaults
    /\ faults' = faults + 1
    /\ misread' = misread \cup {req.msg}
    /\ Goto("errorBad")
    /\ UNCHANGED <<elsewhere, chan, buffer, handled, noticed>>

Unheard == {"quiet", "receipt", "foreign"}

\* Broken variant: old counters are reported as well.
NotifiesOldCounter(m) == kind[m] \notin Unheard

\* Whether the user is told of an error: the sender is an ACI, the envelope is
\* urgent and not implicit, and it does not say "message with old counter".
Notifies(m) == kind[m] \notin Unheard /\ stage # "errorOld"

\* result.Err # nil: an event for the user, whose handler may fail, or none.
HandleError ==
    /\ stage \in {"errorBad", "errorOld"}
    /\ \/ /\ Notifies(req.msg)
          /\ noticed' = noticed \cup {req.msg}
          /\ Goto("ack")
       \/ /\ Notifies(req.msg)
          /\ noticed' = noticed
          /\ Goto("idle")
       \/ /\ ~Notifies(req.msg) \/ kind[req.msg] = "lenient"  \* typing is not urgent
          /\ noticed' = noticed
          /\ Goto("ack")
    /\ UNCHANGED <<elsewhere, chan, buffer, handled, misread, faults>>

HasHandler(m) == kind[m] \in {"data", "receipt", "lenient"}

\* The bridge takes the event.
HandleSucceeds ==
    /\ stage = "handle"
    /\ HasHandler(req.msg)
    /\ handled' = [handled EXCEPT ![req.msg] = @ + 1]
    /\ Goto("clear")
    /\ UNCHANGED <<elsewhere, chan, buffer, noticed, misread, faults>>

\* handlerSuccess = false: the plaintext stays and nothing is answered.  For
\* typing, call and sync-sent messages the verdict is ignored.
HandleFails ==
    /\ stage = "handle"
    /\ HasHandler(req.msg)
    /\ Goto(IF kind[req.msg] = "lenient" THEN "clear" ELSE "idle")
    /\ UNCHANGED <<elsewhere, chan, buffer, results, faults>>

\* A sender that is no ACI is dropped.  An error from the sender key
\* distribution message returns early with handlerSuccess still true, so the
\* deferred function clears the plaintext although nothing is answered.
HandleDrops ==
    /\ stage = "handle"
    /\ ~HasHandler(req.msg)
    /\ Goto(IF kind[req.msg] = "badskdm" THEN "clearNoAck" ELSE "clear")
    /\ UNCHANGED <<elsewhere, chan, buffer, results, faults>>

AfterClear == IF stage = "clear" THEN "ack" ELSE "idle"

\* Broken variant: the plaintext is not cleared after success.
ClearNothing ==
    /\ stage \in {"clear", "clearNoAck"}
    /\ Goto(AfterClear)
    /\ UNCHANGED <<elsewhere, chan, buffer, results, faults>>

\* ClearBufferedEventPlaintext in the deferred function.
ClearPlaintext ==
    /\ stage \in {"clear", "clearNoAck"}
    /\ row' = [row EXCEPT ![req.msg] = IF @ = "none" THEN @ ELSE "cleared"]
    /\ Goto(AfterClear)
    /\ UNCHANGED <<elsewhere, chan, ins, ratchet, results, faults>>

\* It fails: the error is only logged.
ClearPlaintextFails ==
    /\ stage \in {"clear", "clearNoAck"}
    /\ faults < MaxFaults
    /\ faults' = faults + 1
    /\ Goto(AfterClear)
    /\ UNCHANGED <<elsewhere, chan, buffer, results>>

\* pushOutgoing hands the response to the write loop of the connection of the
\* moment, and waits while there is none.
PushAck ==
    /\ stage = "ack"
    /\ conn # "down"
    /\ outbox = {}
    /\ outbox' = {req}
    /\ Goto("idle")
    /\ UNCHANGED <<kind, server, chan, ackWire, buffer, results, orphans, now,
                   gc, faults>>

-----------------------------------------------------------------------------
(* The write loop, and the goroutine that prunes the event buffer.         *)

\* writeLoop writes the response, then calls writeCallback with the time
\* before the write, which drops it if the last one was not consumed.
WriteAck ==
    /\ conn # "down"
    /\ \E r \in outbox :
          /\ ackWire' = IF r.live /\ conn = "up" THEN ackWire \cup {r.msg}
                                                 ELSE ackWire
          /\ outbox' = outbox \ {r}
    /\ cbc' = IF cbc = NoTime THEN now ELSE cbc
    /\ UNCHANGED <<kind, server, loop, buffer, results, orphans, now, timer,
                   count, reset, faults>>

ResetWriteCount ==
    /\ reset
    /\ reset' = FALSE
    /\ count' = 0
    /\ UNCHANGED <<kind, server, loop, outbox, ackWire, buffer, results,
                   orphans, now, timer, cbc, faults>>

\* Broken variant: rows that still hold a plaintext are deleted too.
DeletableWithPlaintext(m) == row[m] # "none" /\ ins[m] < timer

\* DeleteBufferedEventsOlderThan
Deletable(m) == row[m] = "cleared" /\ ins[m] < timer

\* One clock tick stands for more than a minute.  The error of a delete that
\* fails is only logged.
WriteCallback ==
    /\ cbc # NoTime
    /\ cbc' = NoTime
    /\ IF count >= MinCallbacks /\ now > timer
       THEN /\ \E deleted \in {{m \in Messages : Deletable(m)}, {}} :
               /\ row' = [m \in Messages |-> IF m \in deleted THEN "none" ELSE row[m]]
               /\ ins' = [m \in Messages |-> IF m \in deleted THEN 0 ELSE ins[m]]
            /\ timer' = cbc
            /\ UNCHANGED count
       ELSE /\ count' = IF count < MinCallbacks THEN count + 1 ELSE count
            /\ UNCHANGED <<row, ins, timer>>
    /\ UNCHANGED <<kind, server, loop, outbox, ackWire, ratchet, results,
                   orphans, now, reset, faults>>

Tick ==
    /\ now < MaxTime
    /\ now' = now + 1
    /\ UNCHANGED <<kind, server, loop, outbox, ackWire, buffer, results,
                   orphans, gc, faults>>

-----------------------------------------------------------------------------
(* Stopping.                                                               *)

\* StopReceiveLoops cancels the context and does not wait for the request
\* loop: a handler that already runs goes on, but its database writes and its
\* response fail.  Starting again gives a fresh channel and collector.
Restart(survivors) ==
    /\ faults < MaxFaults
    /\ faults' = faults + 1
    /\ orphans' = survivors
    /\ Goto("idle")
    /\ chan' = <<>>
    /\ conn' = "down"
    /\ sent' = {}
    /\ outbox' = {}
    /\ timer' = now /\ count' = 0 /\ cbc' = NoTime /\ reset' = FALSE
    /\ UNCHANGED <<kind, unacked, ackWire, buffer, results, now>>

Stop == Restart(IF stage = "handle" /\ HasHandler(req.msg)
                THEN orphans \cup {req.msg} ELSE orphans)

Crash == Restart({})

\* A handler that outlived StopReceiveLoops returns: ctx is cancelled, so the
\* plaintext is not cleared and nothing is answered.
OrphanReturns(m) ==
    /\ m \in orphans
    /\ orphans' = orphans \ {m}
    /\ \/ handled' = [handled EXCEPT ![m] = @ + 1]
       \/ handled' = handled
    /\ UNCHANGED <<kind, server, loop, outbox, ackWire, buffer, noticed, misread,
                   now, gc, faults>>

-----------------------------------------------------------------------------
RequestLoop ==
    \/ TakeRequest \/ RejectGarbled \/ SkipUnbuffered \/ ReplayBuffered
    \/ DecryptFresh \/ DecryptFails \/ BufferFails \/ HandleError
    \/ HandleSucceeds \/ HandleFails \/ HandleDrops
    \/ ClearPlaintext \/ ClearPlaintextFails \/ PushAck

Next ==
    \/ ServerSend \/ (\E m \in Messages : ServerAck(m))
    \/ Break \/ Disconnect \/ Reconnect
    \/ RequestLoop
    \/ WriteAck \/ ResetWriteCount \/ WriteCallback \/ Tick
    \/ Stop \/ Crash \/ (\E m \in Messages : OrphanReturns(m))

Spec == Init /\ [][Next]_vars

-----------------------------------------------------------------------------
(* Properties.                                                             *)

\* What the bridge owes the user: an event, or the notice that one could not
\* be decrypted.
Owed(m) == kind[m] \in {"data", "badskdm", "undecryptable", "unparsable"}
Settled(m) == handled[m] > 0 \/ m \in noticed

\* handleDecryptedResult, bufferedDecryptTxn: the server is told that an
\* envelope was processed only after the bridge took its event or the user
\* was told, whatever fails, disconnects, stops or crashes in between.
NothingLost == \A m \in Messages : m \notin unacked /\ Owed(m) => Settled(m)

\* bufferedDecryptTxn, DeleteBufferedEventsOlderThan: once the ratchet has
\* used up the key of a message that the bridge has not taken, its plaintext
\* is in the database; neither a failing handler nor the pruning removes it.
PlaintextKept ==
    \A m \in ratchet : Owed(m) /\ ~Settled(m) => row[m] = "plain"

\* Receiving implements at-least-once delivery: the server is the keeper, an
\* event taken or a notice shown is the giving.
Delivery == INSTANCE AtLeastOnce WITH
    owed <- {m \in Messages : Owed(m)},
    kept <- unacked,
    given <- {m \in Messages : Settled(m)}

\* incomingAPIMessageHandler as a whole: every step of the client, the server
\* and the network is a step of at-least-once delivery or changes nothing
\* that it can see.
DeliverySpec == Delivery!Spec

\* ClearBufferedEventPlaintext, EventAlreadyProcessed: reconnections alone
\* never make the bridge take an event twice; every repetition is paid for by
\* a stop, a crash or a database write that failed.
RepetitionsNeedFaults == \A m \in Messages : handled[m] <= 1 + faults

\* handleDecryptedResult: a message the bridge has taken is never reported as
\* undecryptable when the server sends it again, even after its row in the
\* event buffer was pruned, unless the database failed while it was looked up.
NoSpuriousNotice ==
    \A m \in Messages : handled[m] > 0 /\ m \in noticed => m \in misread
=============================================================================

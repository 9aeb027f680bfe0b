--------------------------- MODULE SignalWebsocket ---------------------------
(***************************************************************************)
(* The goroutines of one websocket: pkg/signalmeow/web/signalwebsocket.go. *)
(*                                                                         *)
(* connectLoop dials, starts a read, a write and a ping loop for each      *)
(* connection, waits until the context of the connection is done, cleans   *)
(* up and dials again.  The request loop outlives connections: it takes    *)
(* the server's requests from incomingRequestChan, calls the handler and   *)
(* pushes the response.  SendRequest callers push a request and wait for   *)
(* the channel that the read loop or the clean-up closes.  The handler may *)
(* call SendRequest itself.  Close may be called at any time.              *)
(***************************************************************************)
EXTENDS Integers, FiniteSets

CONSTANTS
    Callers,       \* goroutines that call SendRequest
    Handler,       \* the request handler, when it calls SendRequest
    QueueCap,      \* capacity of incomingRequestChan (256 in the code)
    MaxRetries,    \* retryCount >= 3 in sendRequestInternal
    ServerBudget,  \* bound on the requests the server makes
    ConnBudget     \* bound on the connections that succeed

Senders == Callers \cup {Handler}
Response == "response"   \* what the write loop holds when it is no request
None == "none"

ASSUME ConstantsAssumption ==
    /\ IsFiniteSet(Callers)
    /\ Handler \notin Callers
    /\ Response \notin Senders /\ None \notin Senders
    /\ QueueCap \in Nat \ {0}
    /\ MaxRetries \in Nat
    /\ ServerBudget \in Nat
    /\ ConnBudget \in Nat

VARIABLES
    cl,          \* connectLoop
    ctxDone,     \* the context of connectLoop is cancelled
    connDone,    \* loopCancel was called for the current connection
    sock,        \* the current socket: "none", "open", "dead" or "closed"
    stored,      \* s.ws # nil
    rd, popped,  \* the read loop, and the channel it took from the map
    wr, item,    \* the write loop, and what it received
    nextId,      \* i of the write loop
    pg,          \* the ping loop
    pending,     \* responseChannels of the current connection
    atServer,    \* requests the server has got on this connection
    queue,       \* number of requests in incomingRequestChan
    rq,          \* the request loop
    sender,      \* where each SendRequest call is
    attempt,     \* its retryCount
    chan,        \* its response channel: "open", "value" or "closed"
    answer,      \* whose request the value in the channel answers
    closeEvt,    \* closeEvt is set
    chClosed,    \* the three channels are closed
    closer,      \* the goroutine that calls Close
    panicked,    \* a channel was closed twice or sent to after closing
    late,        \* callers whose request was registered after the clean-up
    budget       \* connections and server requests still allowed

conn == <<cl, ctxDone, connDone, sock, stored>>
loops == <<rd, popped, wr, item, nextId, pg, pending, atServer>>
calls == <<sender, attempt, chan, answer>>
closing == <<closeEvt, chClosed, closer>>
vars == <<conn, loops, queue, rq, calls, closing, panicked, late, budget>>

LoopDone == ctxDone \/ connDone   \* loopCtx is a child of ctx

TypeOK ==
    /\ cl \in {"start", "dial", "run", "cleanup", "join", "exit", "lock", "gone"}
    /\ ctxDone \in BOOLEAN /\ connDone \in BOOLEAN /\ stored \in BOOLEAN
    /\ sock \in {"none", "open", "dead", "closed"}
    /\ rd \in {"off", "read", "push", "deliver"}
    /\ popped \in Senders \cup {None}
    /\ wr \in {"off", "select", "taken", "write"}
    /\ item \in Senders \cup {Response, None}
    /\ nextId \in Nat
    /\ pg \in {"off", "on"}
    /\ pending \subseteq [id : Nat, to : Senders]
    /\ atServer \subseteq [id : Nat, from : Senders]
    /\ queue \in 0..QueueCap
    /\ rq \in {"off", "wait", "handle", "call", "push"}
    /\ sender \in [Senders -> {"idle", "push", "await", "ok", "failed"}]
    /\ attempt \in [Senders -> 0..MaxRetries]
    /\ chan \in [Senders -> {"open", "value", "closed"}]
    /\ answer \in [Senders -> Senders \cup {None}]
    /\ closeEvt \in BOOLEAN /\ chClosed \in BOOLEAN /\ panicked \in BOOLEAN
    /\ closer \in {"idle", "called", "swapped", "waiting", "done"}
    /\ late \subseteq Senders
    /\ budget \in [conns : 0..ConnBudget, reqs : 0..ServerBudget]

Init ==
    /\ cl = "start" /\ ctxDone = FALSE /\ connDone = FALSE
    /\ sock = "none" /\ stored = FALSE
    /\ rd = "off" /\ popped = None
    /\ wr = "off" /\ item = None /\ nextId = 1
    /\ pg = "off" /\ pending = {} /\ atServer = {}
    /\ queue = 0 /\ rq = "off"
    /\ sender = [s \in Senders |-> "idle"]
    /\ attempt = [s \in Senders |-> 0]
    /\ chan = [s \in Senders |-> "open"]
    /\ answer = [s \in Senders |-> None]
    /\ closeEvt = FALSE /\ chClosed = FALSE /\ closer = "idle"
    /\ panicked = FALSE /\ late = {}
    /\ budget = [conns |-> ConnBudget, reqs |-> ServerBudget]

-----------------------------------------------------------------------------
(* connectLoop                                                             *)

\* s.cancel.Store, and the request loop starts.
StartLoop ==
    /\ cl = "start"
    /\ cl' = "dial"
    /\ rq' = "wait"
    /\ UNCHANGED <<late, ctxDone, connDone, sock, stored, loops, queue, calls,
                   closing, panicked, budget>>

\* Cancelled while waiting to dial, or the server refused for good (403, an
\* unexpected status, or too many errors).  Retried failures change nothing.
GiveUp ==
    /\ cl = "dial"
    /\ cl' = "exit"
    /\ UNCHANGED <<late, ctxDone, connDone, sock, stored, loops, queue, rq, calls,
                   closing, panicked, budget>>

\* Connected: s.ws.Store, a fresh map of response channels, three loops.
DialSucceeds ==
    /\ cl = "dial"
    /\ ~ctxDone
    /\ budget.conns > 0
    /\ budget' = [budget EXCEPT !.conns = @ - 1]
    /\ cl' = "run"
    /\ connDone' = FALSE
    /\ sock' = "open" /\ stored' = TRUE
    /\ rd' = "read" /\ wr' = "select" /\ pg' = "on"
    /\ UNCHANGED <<late, ctxDone, popped, item, nextId, pending, atServer, queue,
                   rq, calls, closing, panicked>>

\* <-loopCtx.Done()
ConnectionEnds ==
    /\ cl = "run"
    /\ LoopDone
    /\ cl' = "cleanup"
    /\ UNCHANGED <<late, ctxDone, connDone, sock, stored, loops, queue, rq, calls,
                   closing, panicked, budget>>

\* Broken variant: the response channels are dropped without closing them.
CleanupForgetting ==
    /\ cl = "cleanup"
    /\ cl' = "join"
    /\ sock' = "closed"
    /\ connDone' = TRUE
    /\ pending' = {}
    /\ UNCHANGED <<late, ctxDone, stored, rd, popped, wr, item, nextId, pg,
                   atServer, queue, rq, calls, panicked, closing, budget>>

\* ws.Close, close every channel of responseChannels.SwapData(nil), and
\* loopCancel(nil).
Cleanup ==
    /\ cl = "cleanup"
    /\ cl' = "join"
    /\ sock' = "closed"
    /\ connDone' = TRUE
    /\ pending' = {}
    /\ LET waiting == {p.to : p \in pending} IN
          /\ chan' = [s \in Senders |-> IF s \in waiting THEN "closed" ELSE chan[s]]
          /\ panicked' = (panicked \/ \E s \in waiting : chan[s] # "open")
    /\ UNCHANGED <<late, ctxDone, stored, rd, popped, wr, item, nextId, pg, atServer,
                   queue, rq, sender, attempt, answer, closing, budget>>

\* wg.Wait(); what belongs to the connection is gone with its loops.
Join ==
    /\ cl = "join"
    /\ rd = "off" /\ wr = "off" /\ pg = "off"
    /\ cl' = "dial"
    /\ nextId' = 1 /\ pending' = {} /\ atServer' = {}
    /\ UNCHANGED <<late, ctxDone, connDone, sock, stored, rd, popped, wr, item,
                   pg, queue, rq, calls, closing, panicked, budget>>

\* The deferred function: closeEvt.Set() and cancel().
SetCloseEvt ==
    /\ cl = "exit"
    /\ cl' = "lock"
    /\ closeEvt' = TRUE
    /\ ctxDone' = TRUE
    /\ UNCHANGED <<late, connDone, sock, stored, loops, queue, rq, calls, chClosed,
                   closer, panicked, budget>>

\* Who holds closeLock for reading: everybody inside pushOutgoing.
Pushers == {s \in Senders : sender[s] = "push"} \cup (IF rq = "push" THEN {rq} ELSE {})

\* Broken variant: the channels are closed without taking closeLock.
CloseChannelsUnlocked ==
    /\ cl = "lock"
    /\ cl' = "gone"
    /\ chClosed' = TRUE
    /\ panicked' = (panicked \/ Pushers # {} \/ rd = "push")
    /\ UNCHANGED <<late, ctxDone, connDone, sock, stored, loops, queue, rq, calls,
                   closeEvt, closer, budget>>

\* closeLock.Lock() waits for them; then the channels are closed.  A send to
\* incomingRequestChan after that would panic.
CloseChannels ==
    /\ cl = "lock"
    /\ Pushers = {}
    /\ cl' = "gone"
    /\ chClosed' = TRUE
    /\ panicked' = (panicked \/ rd = "push")
    /\ UNCHANGED <<late, ctxDone, connDone, sock, stored, loops, queue, rq, calls,
                   closeEvt, closer, budget>>

\* loopCancel(ErrForcedReconnect)
ForceReconnect ==
    /\ cl = "run"
    /\ ~LoopDone
    /\ connDone' = TRUE
    /\ UNCHANGED <<late, cl, ctxDone, sock, stored, loops, queue, rq, calls, closing,
                   panicked, budget>>

\* The network: the peer vanishes silently, or closes the socket.
SocketFails ==
    /\ sock = "open"
    /\ sock' \in {"dead", "closed"}
    /\ atServer' = {}
    /\ UNCHANGED <<late, cl, ctxDone, connDone, stored, rd, popped, wr, item,
                   nextId, pg, pending, queue, rq, calls, closing, panicked,
                   budget>>

-----------------------------------------------------------------------------
(* readLoop                                                                *)

\* The read fails: loopCancel(err), and cancel() as well after Close.
ReadFails ==
    /\ rd = "read"
    /\ LoopDone \/ sock = "closed"
    /\ rd' = "off"
    /\ connDone' = TRUE
    /\ ctxDone' = (ctxDone \/ closer # "idle")
    /\ UNCHANGED <<late, cl, sock, stored, popped, wr, item, nextId, pg, pending,
                   atServer, queue, rq, calls, closing, panicked, budget>>

ReadRequest ==
    /\ rd = "read"
    /\ sock = "open"
    /\ budget.reqs > 0
    /\ budget' = [budget EXCEPT !.reqs = @ - 1]
    /\ rd' = "push"
    /\ UNCHANGED <<late, conn, popped, wr, item, nextId, pg, pending, atServer,
                   queue, rq, calls, closing, panicked>>

\* incomingRequestChan <- msg.Request: blocks while the channel is full,
\* whatever happens to the context.
PushRequest ==
    /\ rd = "push"
    /\ queue < QueueCap
    /\ queue' = queue + 1
    /\ rd' = "read"
    /\ UNCHANGED <<late, conn, popped, wr, item, nextId, pg, pending, atServer, rq,
                   calls, closing, panicked, budget>>

\* Broken variant: the response goes to some waiting channel, not the one
\* registered under its id.
ReadResponseToAnyone ==
    /\ rd = "read"
    /\ sock = "open"
    /\ \E r \in atServer, p \in pending :
          /\ atServer' = atServer \ {r}
          /\ pending' = pending \ {p}
          /\ popped' = p.to
          /\ answer' = [answer EXCEPT ![p.to] = r.from]
          /\ rd' = "deliver"
    /\ UNCHANGED <<late, conn, wr, item, nextId, pg, queue, rq, sender, attempt,
                   chan, closing, panicked, budget>>

\* The server answers in any order.  Pop(id) takes the channel out of the map;
\* an unknown id is ignored.
ReadResponse ==
    /\ rd = "read"
    /\ sock = "open"
    /\ \E r \in atServer :
          /\ atServer' = atServer \ {r}
          /\ \/ \E p \in pending :
                   /\ p.id = r.id
                   /\ pending' = pending \ {p}
                   /\ popped' = p.to
                   /\ answer' = [answer EXCEPT ![p.to] = r.from]
                   /\ rd' = "deliver"
             \/ /\ r.id \notin {p.id : p \in pending}
                /\ UNCHANGED <<pending, popped, answer, rd>>
    /\ UNCHANGED <<late, conn, wr, item, nextId, pg, queue, rq, sender, attempt,
                   chan, closing, panicked, budget>>

\* responseChannel <- msg.Response; close(responseChannel)
DeliverResponse ==
    /\ rd = "deliver"
    /\ rd' = "read"
    /\ chan' = [chan EXCEPT ![popped] = "value"]
    /\ panicked' = (panicked \/ chan[popped] # "open")
    /\ popped' = None
    /\ UNCHANGED <<late, conn, wr, item, nextId, pg, pending, atServer, queue, rq,
                   sender, attempt, answer, closing, budget>>

-----------------------------------------------------------------------------
(* writeLoop                                                               *)

\* Broken variant: the write loop waits for something to send and does not
\* look at the context.
WriteLoopIgnoresContext ==
    /\ wr = "select"
    /\ chClosed
    /\ wr' = "off"
    /\ UNCHANGED <<late, conn, rd, popped, item, nextId, pg, pending, atServer,
                   queue, rq, calls, closing, panicked, budget>>

WriteLoopStops ==
    /\ wr = "select"
    /\ LoopDone
    /\ wr' = "off"
    /\ UNCHANGED <<late, conn, rd, popped, item, nextId, pg, pending, atServer,
                   queue, rq, calls, closing, panicked, budget>>

\* The unbuffered sendChannel: a pusher and the write loop meet.  The select
\* may choose this even when the context is done.
TakeRequest(s) ==
    /\ wr = "select"
    /\ sender[s] = "push"
    /\ sender' = [sender EXCEPT ![s] = "await"]
    /\ item' = s
    /\ wr' = "taken"
    /\ UNCHANGED <<late, conn, rd, popped, nextId, pg, pending, atServer, queue, rq,
                   attempt, chan, answer, closing, panicked, budget>>

TakeResponse ==
    /\ wr = "select"
    /\ rq = "push"
    /\ rq' = "wait"
    /\ item' = Response
    /\ wr' = "write"
    /\ UNCHANGED <<late, conn, rd, popped, nextId, pg, pending, atServer, queue,
                   calls, closing, panicked, budget>>

\* responseChannels.Set(i, request.ResponseChannel), before the age check.  The
\* clean-up may have swapped the map already.
Register ==
    /\ wr = "taken"
    /\ pending' = pending \cup {[id |-> nextId, to |-> item]}
    /\ late' = IF cl = "join" THEN late \cup {item} ELSE late
    /\ wr' = "write"
    /\ UNCHANGED <<conn, rd, popped, item, nextId, pg, atServer, queue, rq,
                   calls, closing, panicked, budget>>

WriteSucceeds ==
    /\ wr = "write"
    /\ sock \in {"open", "dead"}
    /\ ~LoopDone
    /\ atServer' = IF item \in Senders /\ sock = "open"
                   THEN atServer \cup {[id |-> nextId, from |-> item]}
                   ELSE atServer
    /\ nextId' = nextId + 1
    /\ item' = None
    /\ wr' = "select"
    /\ UNCHANGED <<late, conn, rd, popped, pg, pending, queue, rq, calls, closing,
                   panicked, budget>>

\* A request older than a minute, or a write error: loopCancel(err).
WriteFails ==
    /\ wr = "write"
    /\ item \in Senders \/ LoopDone \/ sock = "closed"
    /\ wr' = "off"
    /\ item' = None
    /\ connDone' = TRUE
    /\ UNCHANGED <<late, cl, ctxDone, sock, stored, rd, popped, nextId, pg, pending,
                   atServer, queue, rq, calls, closing, panicked, budget>>

-----------------------------------------------------------------------------
(* The ping loop                                                           *)

PingStops ==
    /\ pg = "on"
    /\ LoopDone
    /\ pg' = "off"
    /\ UNCHANGED <<late, conn, rd, popped, wr, item, nextId, pending, atServer,
                   queue, rq, calls, closing, panicked, budget>>

\* Broken variant: the loop returns without closing the socket.
PingTimesOutQuietly ==
    /\ pg = "on"
    /\ sock # "open" \/ rd = "push"
    /\ pg' = "off"
    /\ UNCHANGED <<late, conn, rd, popped, wr, item, nextId, pending, atServer,
                   queue, rq, calls, closing, panicked, budget>>

\* A pong is seen only while the read loop reads.  After five failures the
\* loop closes the socket and returns, without calling loopCancel.
PingTimesOut ==
    /\ pg = "on"
    /\ sock # "open" \/ rd = "push"
    /\ pg' = "off"
    /\ sock' = "closed"
    /\ UNCHANGED <<late, cl, ctxDone, connDone, stored, rd, popped, wr, item, nextId,
                   pending, atServer, queue, rq, calls, closing, panicked,
                   budget>>

-----------------------------------------------------------------------------
(* A call of SendRequest: where it is, its retryCount and its new channel.  *)

Set(s, place, n) ==
    /\ sender' = [sender EXCEPT ![s] = place]
    /\ attempt' = [attempt EXCEPT ![s] = n]
    /\ chan' = [chan EXCEPT ![s] = "open"]
    /\ answer' = [answer EXCEPT ![s] = None]

-----------------------------------------------------------------------------
(* The request loop                                                        *)

RequestLoopStops ==
    /\ rq = "wait"
    /\ ctxDone
    /\ rq' = "off"
    /\ UNCHANGED <<late, conn, loops, queue, calls, closing, panicked, budget>>

HandleRequest ==
    /\ rq = "wait"
    /\ queue > 0
    /\ ~chClosed
    /\ queue' = queue - 1
    /\ rq' = "handle"
    /\ UNCHANGED <<late, conn, loops, calls, closing, panicked, budget>>

\* pushOutgoing fails at once when the context is done or the channel is nil.
HandlerReturns ==
    /\ \/ rq = "handle"
       \/ rq = "call" /\ sender[Handler] \in {"ok", "failed"}
    /\ \/ rq' = "wait"
       \/ rq' = "push" /\ ~ctxDone /\ ~chClosed
    /\ Set(Handler, "idle", 0)
    /\ UNCHANGED <<late, conn, loops, queue, closing, panicked, budget>>

PushResponseFails ==
    /\ rq = "push"
    /\ ctxDone \/ closeEvt
    /\ rq' = "wait"
    /\ UNCHANGED <<late, conn, loops, queue, calls, closing, panicked, budget>>

-----------------------------------------------------------------------------
(* SendRequest                                                             *)

\* A call makes a new channel and enters pushOutgoing, which fails at once if
\* sendChannel is nil.  The handler's calls use the context of connectLoop.
EnterPush(s, n) ==
    IF chClosed \/ (s = Handler /\ ctxDone) THEN Set(s, "failed", 0)
                                            ELSE Set(s, "push", n)

SendRequest(s) ==
    /\ sender[s] = "idle"
    /\ IF s = Handler THEN rq = "handle" /\ rq' = "call" ELSE UNCHANGED rq
    /\ EnterPush(s, 0)
    /\ UNCHANGED <<late, conn, loops, queue, closing, panicked, budget>>

PushFails(s) ==
    /\ sender[s] = "push"
    /\ closeEvt \/ (s = Handler /\ ctxDone)
    /\ Set(s, "failed", 0)
    /\ UNCHANGED <<late, conn, loops, queue, rq, closing, panicked, budget>>

\* response := <-responseChannel
GetResponse(s) ==
    /\ sender[s] = "await"
    /\ chan[s] = "value"
    /\ sender' = [sender EXCEPT ![s] = "ok"]
    /\ UNCHANGED <<late, conn, loops, queue, rq, attempt, chan, answer, closing,
                   panicked, budget>>

\* Broken variant: one retry too many.
RetryOnceMore(s) ==
    /\ sender[s] = "await"
    /\ chan[s] = "closed"
    /\ EnterPush(s, attempt[s] + 1)
    /\ UNCHANGED <<late, conn, loops, queue, rq, closing, panicked, budget>>

\* A closed channel gives nil: try again, up to retryCount 3.
RetryOrFail(s) ==
    /\ sender[s] = "await"
    /\ chan[s] = "closed"
    /\ \/ /\ attempt[s] < MaxRetries
          /\ EnterPush(s, attempt[s] + 1)
       \/ attempt[s] >= MaxRetries /\ Set(s, "failed", 0)
    /\ UNCHANGED <<late, conn, loops, queue, rq, closing, panicked, budget>>

-----------------------------------------------------------------------------
(* Close                                                                   *)

CallClose ==
    /\ closer = "idle"
    /\ closer' = "called"
    /\ UNCHANGED <<late, conn, loops, queue, rq, calls, closeEvt, chClosed, panicked,
                   budget>>

\* s.ws.Swap(nil) and ws.Close
CloseSocket ==
    /\ closer = "called"
    /\ closer' = "swapped"
    /\ stored' = FALSE
    /\ sock' = IF stored /\ sock # "none" THEN "closed" ELSE sock
    /\ UNCHANGED <<late, cl, ctxDone, connDone, loops, queue, rq, calls, closeEvt,
                   chClosed, panicked, budget>>

\* s.cancel.Swap(nil): there is nothing to call before connectLoop has run.
CancelLoop ==
    /\ closer = "swapped"
    /\ closer' = "waiting"
    /\ ctxDone' = (ctxDone \/ cl # "start")
    /\ UNCHANGED <<late, cl, connDone, sock, stored, loops, queue, rq, calls,
                   closeEvt, chClosed, panicked, budget>>

CloseReturns ==
    /\ closer = "waiting"
    /\ closeEvt
    /\ closer' = "done"
    /\ UNCHANGED <<late, conn, loops, queue, rq, calls, closeEvt, chClosed, panicked,
                   budget>>

-----------------------------------------------------------------------------
ConnectLoop == \/ StartLoop \/ ConnectionEnds \/ Cleanup \/ Join
               \/ SetCloseEvt \/ CloseChannels
ReadLoop == ReadFails \/ PushRequest \/ DeliverResponse
WriteLoop == \/ WriteLoopStops \/ TakeResponse \/ Register
             \/ WriteSucceeds \/ WriteFails \/ \E s \in Senders : TakeRequest(s)
PingLoop == PingStops \/ PingTimesOut
RequestLoop == \/ RequestLoopStops \/ HandleRequest \/ HandlerReturns
               \/ PushResponseFails
Sender(s) == PushFails(s) \/ GetResponse(s) \/ RetryOrFail(s)
Closer == CloseSocket \/ CancelLoop \/ CloseReturns

Next ==
    \/ ConnectLoop \/ GiveUp \/ DialSucceeds \/ ForceReconnect \/ SocketFails
    \/ ReadLoop \/ ReadRequest \/ ReadResponse
    \/ WriteLoop \/ PingLoop \/ RequestLoop
    \/ \E s \in Senders : SendRequest(s) \/ Sender(s)
    \/ CallClose \/ Closer

Spec == Init /\ [][Next]_vars

\* Goroutines are scheduled: an enabled step of each loop is taken in the end.
\* The server and the network owe nothing, except that a dialler whose context
\* was cancelled notices it.
Fairness ==
    /\ WF_vars(ConnectLoop) /\ WF_vars(ReadLoop) /\ WF_vars(WriteLoop)
    /\ WF_vars(PingLoop) /\ WF_vars(RequestLoop) /\ WF_vars(Closer)
    /\ WF_vars(GiveUp /\ ctxDone)
    /\ \A s \in Senders : WF_vars(Sender(s))

FairSpec == Spec /\ Fairness

-----------------------------------------------------------------------------
(* Properties.                                                             *)

\* readLoop, Cleanup, the deferred function of connectLoop: no response
\* channel is closed twice, and nobody is sending to sendChannel or
\* incomingRequestChan when they are closed; in Go each would be a panic.
NoPanic == ~panicked

\* sendRequestInternal, readLoop: although the ids start again at 1 on every
\* connection, a call that returns a response returns the one to its own
\* request.
OwnResponse == \A s \in Senders : sender[s] = "ok" => answer[s] = s

\* Close: once it has cancelled the context of connectLoop, Close returns,
\* wherever the loops, the handler and the callers are; the requests of the
\* server must fit into incomingRequestChan for that.
CloseTerminates == (closer = "waiting" /\ ctxDone) ~> (closer = "done")

\* connectLoop, ping loop: when the ping loop has given up, the wait for the
\* connection ends.  Except while the read loop is blocked: it then notices
\* nothing, and nobody else ends the connection.
PingExitEndsConnection ==
    (cl = "run" /\ pg = "off") ~> (cl # "run" \/ (rd = "push" /\ queue = QueueCap))

\* sendRequestInternal, Cleanup: a caller that waits on its open response
\* channel is known to the connection, which will answer it or close it.
\* Except for a request that the write loop registered after the clean-up had
\* swapped the map: nobody closes its channel.
NoRequestForgotten ==
    \A s \in Senders : sender[s] = "await" /\ chan[s] = "open" =>
        s \in {p.to : p \in pending} \cup {item, popped} \cup late
=============================================================================

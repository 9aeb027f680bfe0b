------------------------ MODULE SignalWebsocketProofs ------------------------
(***************************************************************************)
(* Type correctness of the websocket, that none of its channels is closed  *)
(* twice or written to after it was closed, that a response reaches the    *)
(* call it answers and that no waiting call is forgotten, for every set of *)
(* callers, every capacity of incomingRequestChan, every number of retries *)
(* and every bound on connections and requests.                            *)
(***************************************************************************)
EXTENDS SignalWebsocket, TLAPS

\* The call has handed its request over and its response channel is open.
Waits(s) == sender[s] = "await" /\ chan[s] = "open"

\* The loops of a connection run between DialSucceeds and Join only, what a
\* connection owns is empty outside, and what a loop holds follows from its place.
Phases ==
    /\ cl \in {"start", "dial", "exit", "lock", "gone"} =>
          /\ rd = "off" /\ wr = "off"
          /\ nextId = 1 /\ pending = {} /\ atServer = {}
    /\ cl = "join" => sock = "closed"
    /\ wr \in {"off", "select"} => item = None
    /\ wr = "taken" => item \in Senders
    /\ rd # "deliver" => popped = None
    /\ rd = "deliver" => popped \in Senders
    /\ cl = "start" => rq = "off"
    /\ rq # "call" => sender[Handler] = "idle"

\* A response channel has one holder - the write loop before it registers it, an
\* entry of the map, or the read loop after it took it out - and whoever holds
\* it holds the open channel of a call that waits.
Held ==
    /\ \A s \in Senders : sender[s] = "push" => chan[s] = "open"
    /\ \A p \in pending : Waits(p.to)
    /\ popped \in Senders => Waits(popped)
    /\ wr = "taken" => Waits(item)
    /\ \A p, q \in pending : p.to = q.to => p = q
    /\ \A p \in pending : p.to # popped
    /\ wr = "taken" => item # popped /\ \A p \in pending : p.to # item

\* An id of the map is used once per connection, and the server knows under it
\* the request that is registered under it.
Ids ==
    /\ \A p \in pending : p.id <= nextId
    /\ wr \in {"select", "taken"} => \A p \in pending : p.id < nextId
    /\ wr = "write" => \A p \in pending : p.id = nextId => p.to = item
    /\ \A r \in atServer : r.id < nextId
    /\ \A r \in atServer, p \in pending : r.id = p.id => r.from = p.to

\* The value on its way to a caller, in its channel, or returned to it is its own.
Answers ==
    /\ popped \in Senders => answer[popped] = popped
    /\ \A s \in Senders : chan[s] = "value" => answer[s] = s
    /\ OwnResponse

\* A call that waits has a holder, or was registered after the clean-up; the
\* entries made after the clean-up are the ones that nobody will close.
Known ==
    /\ \A s \in Senders : Waits(s) =>
          \/ s \in {p.to : p \in pending} \cup {popped} \cup late
          \/ wr = "taken" /\ item = s
    /\ cl = "join" => {p.to : p \in pending} \subseteq late

IInv == TypeOK /\ NoPanic /\ Phases /\ Held /\ Ids /\ Answers /\ Known

-----------------------------------------------------------------------------
\* TypeOK in two parts, for provers that do not like to reason of both at once.
Flags ==
    /\ ctxDone \in BOOLEAN /\ connDone \in BOOLEAN /\ stored \in BOOLEAN
    /\ closeEvt \in BOOLEAN /\ chClosed \in BOOLEAN /\ panicked \in BOOLEAN

Places ==
    /\ cl \in {"start", "dial", "run", "cleanup", "join", "exit", "lock", "gone"}
    /\ sock \in {"none", "open", "dead", "closed"}
    /\ rd \in {"off", "read", "push", "deliver"}
    /\ popped \in Senders \cup {None}
    /\ wr \in {"off", "select", "taken", "write"}
    /\ item \in Senders \cup {Response, None}
    /\ nextId \in Nat
    /\ pg \in {"off", "on"}
    /\ pending \subseteq [id : Nat, to : Senders]
    /\ atServer \subseteq [id : Nat, from : Senders]
    /\ queue \in 0..QueueCap
    /\ rq \in {"off", "wait", "handle", "call", "push"}
    /\ sender \in [Senders -> {"idle", "push", "await", "ok", "failed"}]
    /\ attempt \in [Senders -> 0..MaxRetries]
    /\ chan \in [Senders -> {"open", "value", "closed"}]
    /\ answer \in [Senders -> Senders \cup {None}]
    /\ closer \in {"idle", "called", "swapped", "waiting", "done"}
    /\ late \subseteq Senders
    /\ budget \in [conns : 0..ConnBudget, reqs : 0..ServerBudget]

USE DEF vars, conn, loops, calls, closing

\* The two parts are TypeOK.
LEMMA Parts == TypeOK <=> Flags /\ Places
  BY Zenon DEF TypeOK, Flags, Places

\* The Booleans: contexts, the stored connection, the closing event and channel.
LEMMA FlagsKept == TypeOK /\ [Next]_vars => Flags'
  <1> SUFFICES ASSUME TypeOK, [Next]_vars PROVE Flags'
    OBVIOUS
  <1>0. Flags
    BY Zenon DEF TypeOK, Flags
  <1>1. CASE StartLoop
    BY <1>0, <1>1, Zenon DEF Flags, StartLoop
  <1>2. CASE GiveUp
    BY <1>0, <1>2, Zenon DEF Flags, GiveUp
  <1>3. CASE DialSucceeds
    BY <1>0, <1>3, Zenon DEF Flags, DialSucceeds
  <1>4. CASE ConnectionEnds
    BY <1>0, <1>4, Zenon DEF Flags, ConnectionEnds
  <1>5. CASE Cleanup
    BY <1>0, <1>5, Zenon DEF Flags, Cleanup
  <1>6. CASE Join
    BY <1>0, <1>6, Zenon DEF Flags, Join
  <1>7. CASE SetCloseEvt
    BY <1>0, <1>7, Zenon DEF Flags, SetCloseEvt
  <1>8. CASE CloseChannels
    BY <1>0, <1>8, Zenon DEF Flags, CloseChannels
  <1>9. CASE ForceReconnect
    BY <1>0, <1>9, Zenon DEF Flags, ForceReconnect
  <1>10. CASE SocketFails
    BY <1>0, <1>10, Zenon DEF Flags, SocketFails
  <1>11. CASE ReadFails
    BY <1>0, <1>11, Zenon DEF Flags, ReadFails
  <1>12. CASE ReadRequest
    BY <1>0, <1>12, Zenon DEF Flags, ReadRequest
  <1>13. CASE PushRequest
    BY <1>0, <1>13, Zenon DEF Flags, PushRequest
  <1>14. CASE ReadResponse
    BY <1>0, <1>14, Zenon DEF Flags, ReadResponse
  <1>15. CASE DeliverResponse
    BY <1>0, <1>15, Zenon DEF Flags, DeliverResponse
  <1>16. CASE WriteLoopStops
    BY <1>0, <1>16, Zenon DEF Flags, WriteLoopStops
  <1>17. CASE TakeResponse
    BY <1>0, <1>17, Zenon DEF Flags, TakeResponse
  <1>18. CASE Register
    BY <1>0, <1>18, Zenon DEF Flags, Register
  <1>19. CASE WriteSucceeds
    BY <1>0, <1>19, Zenon DEF Flags, WriteSucceeds
  <1>20. CASE WriteFails
    BY <1>0, <1>20, Zenon DEF Flags, WriteFails
  <1>21. CASE PingStops
    BY <1>0, <1>21, Zenon DEF Flags, PingStops
  <1>22. CASE PingTimesOut
    BY <1>0, <1>22, Zenon DEF Flags, PingTimesOut
  <1>23. CASE RequestLoopStops
    BY <1>0, <1>23, Zenon DEF Flags, RequestLoopStops
  <1>24. CASE HandleRequest
    BY <1>0, <1>24, Zenon DEF Flags, HandleRequest
  <1>25. CASE HandlerReturns
    BY <1>0, <1>25, Zenon DEF Flags, HandlerReturns
  <1>26. CASE PushResponseFails
    BY <1>0, <1>26, Zenon DEF Flags, PushResponseFails
  <1>27. CASE CallClose
    BY <1>0, <1>27, Zenon DEF Flags, CallClose
  <1>28. CASE CloseSocket
    BY <1>0, <1>28, Zenon DEF Flags, CloseSocket
  <1>29. CASE CancelLoop
    BY <1>0, <1>29, Zenon DEF Flags, CancelLoop
  <1>30. CASE CloseReturns
    BY <1>0, <1>30, Zenon DEF Flags, CloseReturns
  <1>31. ASSUME NEW s \in Senders, TakeRequest(s) PROVE Flags'
    BY <1>0, <1>31, Zenon DEF Flags, TakeRequest
  <1>32. ASSUME NEW s \in Senders, SendRequest(s) PROVE Flags'
    BY <1>0, <1>32, Zenon DEF Flags, SendRequest
  <1>33. ASSUME NEW s \in Senders, PushFails(s) PROVE Flags'
    BY <1>0, <1>33, Zenon DEF Flags, PushFails
  <1>34. ASSUME NEW s \in Senders, GetResponse(s) PROVE Flags'
    BY <1>0, <1>34, Zenon DEF Flags, GetResponse
  <1>35. ASSUME NEW s \in Senders, RetryOrFail(s) PROVE Flags'
    BY <1>0, <1>35, Zenon DEF Flags, RetryOrFail
  <1>36. CASE UNCHANGED vars
    BY <1>0, <1>36, Zenon DEF Flags
  <1> QED
    BY <1>1, <1>2, <1>3, <1>4, <1>5, <1>6, <1>7, <1>8, <1>9, <1>10, <1>11, <1>12, <1>13, <1>14, Zenon,
       <1>15, <1>16, <1>17, <1>18, <1>19, <1>20, <1>21, <1>22, <1>23, <1>24, <1>25, <1>26, <1>27,
       <1>28, <1>29, <1>30, <1>31, <1>32, <1>33, <1>34, <1>35, <1>36, Zenon
    DEF Next, ConnectLoop, ReadLoop, WriteLoop, PingLoop, RequestLoop, Sender, Closer

\* Everything else is typed; an attempt is counted only below MaxRetries, and the budgets
\* only fall.
LEMMA PlacesKept == TypeOK /\ Phases /\ [Next]_vars => Places'
  <1> SUFFICES ASSUME TypeOK, Phases, [Next]_vars PROVE Places'
    OBVIOUS
  <1> USE ConstantsAssumption
  <1>0. Places
    BY Zenon DEF TypeOK, Places
  <1>1. CASE StartLoop
    BY <1>0, <1>1 DEF Places, StartLoop
  <1>2. CASE GiveUp
    BY <1>0, <1>2 DEF Places, GiveUp
  <1>3. CASE DialSucceeds
    BY <1>0, <1>3 DEF Places, DialSucceeds
  <1>4. CASE ConnectionEnds
    BY <1>0, <1>4 DEF Places, ConnectionEnds
  <1>5. CASE Cleanup
    BY <1>0, <1>5 DEF Places, Cleanup
  <1>6. CASE Join
    BY <1>0, <1>6, Zenon DEF Places, Join
  <1>7. CASE SetCloseEvt
    BY <1>0, <1>7 DEF Places, SetCloseEvt
  <1>8. CASE CloseChannels
    BY <1>0, <1>8 DEF Places, CloseChannels
  <1>9. CASE ForceReconnect
    BY <1>0, <1>9 DEF Places, ForceReconnect
  <1>10. CASE SocketFails
    BY <1>0, <1>10 DEF Places, SocketFails
  <1>11. CASE ReadFails
    BY <1>0, <1>11 DEF Places, ReadFails
  <1>12. CASE ReadRequest
    BY <1>0, <1>12 DEF Places, ReadRequest
  <1>13. CASE PushRequest
    BY <1>0, <1>13 DEF Places, PushRequest
  <1>14. CASE ReadResponse
    BY <1>0, <1>14 DEF Places, ReadResponse
  <1>15. CASE DeliverResponse
    <2>1. /\ rd' = "read" /\ popped' = None
          /\ chan' = [chan EXCEPT ![popped] = "value"]
          /\ UNCHANGED <<late, conn, wr, item, nextId, pg, pending, atServer, queue, rq,
                         sender, attempt, answer, closing, budget>>
      BY <1>15, Zenon DEF DeliverResponse
    <2>2. chan' \in [Senders -> {"open", "value", "closed"}]
      BY <1>0, <2>1, Zenon DEF Places
    <2> QED BY <1>0, <2>1, <2>2 DEF Places, conn, closing
  <1>16. CASE WriteLoopStops
    BY <1>0, <1>16 DEF Places, WriteLoopStops
  <1>17. CASE TakeResponse
    BY <1>0, <1>17 DEF Places, TakeResponse
  <1>18. CASE Register
    BY <1>0, <1>18 DEF Places, Register, Phases
  <1>19. CASE WriteSucceeds
    BY <1>0, <1>19 DEF Places, WriteSucceeds
  <1>20. CASE WriteFails
    BY <1>0, <1>20 DEF Places, WriteFails
  <1>21. CASE PingStops
    BY <1>0, <1>21 DEF Places, PingStops
  <1>22. CASE PingTimesOut
    BY <1>0, <1>22 DEF Places, PingTimesOut
  <1>23. CASE RequestLoopStops
    BY <1>0, <1>23 DEF Places, RequestLoopStops
  <1>24. CASE HandleRequest
    BY <1>0, <1>24 DEF Places, HandleRequest
  <1>25. CASE HandlerReturns
    BY <1>0, <1>25 DEF Places, HandlerReturns, Set, Senders
  <1>26. CASE PushResponseFails
    BY <1>0, <1>26 DEF Places, PushResponseFails
  <1>27. CASE CallClose
    BY <1>0, <1>27 DEF Places, CallClose
  <1>28. CASE CloseSocket
    BY <1>0, <1>28 DEF Places, CloseSocket
  <1>29. CASE CancelLoop
    BY <1>0, <1>29 DEF Places, CancelLoop
  <1>30. CASE CloseReturns
    BY <1>0, <1>30 DEF Places, CloseReturns
  <1>31. ASSUME NEW s \in Senders, TakeRequest(s) PROVE Places'
    BY <1>0, <1>31 DEF Places, TakeRequest
  <1>32. ASSUME NEW s \in Senders, SendRequest(s) PROVE Places'
    BY <1>0, <1>32 DEF Places, SendRequest, EnterPush, Set
  <1>33. ASSUME NEW s \in Senders, PushFails(s) PROVE Places'
    BY <1>0, <1>33 DEF Places, PushFails, Set
  <1>34. ASSUME NEW s \in Senders, GetResponse(s) PROVE Places'
    BY <1>0, <1>34 DEF Places, GetResponse
  <1>35. ASSUME NEW s \in Senders, RetryOrFail(s) PROVE Places'
    BY <1>0, <1>35 DEF Places, RetryOrFail, EnterPush, Set
  <1>36. CASE UNCHANGED vars
    BY <1>0, <1>36 DEF Places
  <1> QED
    BY <1>1, <1>2, <1>3, <1>4, <1>5, <1>6, <1>7, <1>8, <1>9, <1>10, <1>11, <1>12, <1>13, <1>14, Zenon,
       <1>15, <1>16, <1>17, <1>18, <1>19, <1>20, <1>21, <1>22, <1>23, <1>24, <1>25, <1>26, <1>27,
       <1>28, <1>29, <1>30, <1>31, <1>32, <1>33, <1>34, <1>35, <1>36, Zenon
    DEF Next, ConnectLoop, ReadLoop, WriteLoop, PingLoop, RequestLoop, Sender, Closer

\* connectLoop starts the loops with DialSucceeds and joins them before it goes on: outside no
\* loop runs, and what belongs to a connection is empty.
LEMMA PhasesKept == IInv /\ [Next]_vars => Phases'
  <1> SUFFICES ASSUME IInv, [Next]_vars PROVE Phases'
    OBVIOUS
  <1> USE ConstantsAssumption DEF Waits
  <1>0. Places /\ Phases /\ Held /\ Ids /\ Answers /\ Known
    BY Zenon DEF IInv, TypeOK, Places
  <1>1. CASE StartLoop
    BY <1>0, <1>1, Zenon DEF Places, Phases, StartLoop
  <1>2. CASE GiveUp
    BY <1>0, <1>2, Zenon DEF Places, Phases, GiveUp
  <1>3. CASE DialSucceeds
    BY <1>0, <1>3, Zenon DEF Places, Phases, DialSucceeds
  <1>4. CASE ConnectionEnds
    BY <1>0, <1>4, Zenon DEF Places, Phases, ConnectionEnds
  <1>5. CASE Cleanup
    BY <1>0, <1>5, Zenon DEF Places, Phases, Cleanup
  <1>6. CASE Join
    BY <1>0, <1>6, Zenon DEF Places, Phases, Join
  <1>7. CASE SetCloseEvt
    BY <1>0, <1>7, Zenon DEF Places, Phases, SetCloseEvt
  <1>8. CASE CloseChannels
    BY <1>0, <1>8, Zenon DEF Places, Phases, CloseChannels
  <1>9. CASE ForceReconnect
    BY <1>0, <1>9, Zenon DEF Places, Phases, ForceReconnect
  <1>10. CASE SocketFails
    BY <1>0, <1>10, Zenon DEF Places, Phases, SocketFails
  <1>11. CASE ReadFails
    BY <1>0, <1>11, Zenon DEF Places, Phases, ReadFails
  <1>12. CASE ReadRequest
    BY <1>0, <1>12, Zenon DEF Places, Phases, ReadRequest
  <1>13. CASE PushRequest
    BY <1>0, <1>13, Zenon DEF Places, Phases, PushRequest
  <1>14. CASE ReadResponse
    BY <1>0, <1>14, Zenon DEF Places, Phases, ReadResponse
  <1>15. CASE DeliverResponse
    BY <1>0, <1>15, Zenon DEF Places, Phases, DeliverResponse
  <1>16. CASE WriteLoopStops
    BY <1>0, <1>16, Zenon DEF Places, Phases, WriteLoopStops
  <1>17. CASE TakeResponse
    BY <1>0, <1>17, Zenon DEF Places, Phases, TakeResponse
  <1>18. CASE Register
    BY <1>0, <1>18, Zenon DEF Places, Phases, Register
  <1>19. CASE WriteSucceeds
    BY <1>0, <1>19, Zenon DEF Places, Phases, WriteSucceeds
  <1>20. CASE WriteFails
    BY <1>0, <1>20, Zenon DEF Places, Phases, WriteFails
  <1>21. CASE PingStops
    BY <1>0, <1>21, Zenon DEF Places, Phases, PingStops
  <1>22. CASE PingTimesOut
    BY <1>0, <1>22, Zenon DEF Places, Phases, PingTimesOut
  <1>23. CASE RequestLoopStops
    BY <1>0, <1>23, Zenon DEF Places, Phases, RequestLoopStops
  <1>24. CASE HandleRequest
    BY <1>0, <1>24, Zenon DEF Places, Phases, HandleRequest
  <1>25. CASE HandlerReturns
    BY <1>0, <1>25, Zenon DEF Places, Phases, HandlerReturns, Set, Senders
  <1>26. CASE PushResponseFails
    BY <1>0, <1>26, Zenon DEF Places, Phases, PushResponseFails
  <1>27. CASE CallClose
    BY <1>0, <1>27, Zenon DEF Places, Phases, CallClose
  <1>28. CASE CloseSocket
    BY <1>0, <1>28, Zenon DEF Places, Phases, CloseSocket
  <1>29. CASE CancelLoop
    BY <1>0, <1>29, Zenon DEF Places, Phases, CancelLoop
  <1>30. CASE CloseReturns
    BY <1>0, <1>30, Zenon DEF Places, Phases, CloseReturns
  <1>31. ASSUME NEW s \in Senders, TakeRequest(s) PROVE Phases'
    BY <1>0, <1>31 DEF Places, Phases, TakeRequest
  <1>32. ASSUME NEW s \in Senders, SendRequest(s) PROVE Phases'
    <2>1. /\ UNCHANGED <<cl, sock, rd, popped, wr, item, nextId, pending, atServer>>
          /\ s = Handler => rq = "handle" /\ rq' = "call"
          /\ s # Handler => rq' = rq
          /\ sender' \in {[sender EXCEPT ![s] = "failed"], [sender EXCEPT ![s] = "push"]}
      BY <1>32, Zenon DEF SendRequest, conn, loops, EnterPush, Set
    <2>2. rq' # "call" => sender'[Handler] = sender[Handler]
      BY <1>0, <2>1, Zenon DEF Places, Senders
    <2> QED BY <1>0, <2>1, <2>2, Zenon DEF Phases
  <1>33. ASSUME NEW s \in Senders, PushFails(s) PROVE Phases'
    BY <1>0, <1>33 DEF Places, Phases, PushFails, Set
  <1>34. ASSUME NEW s \in Senders, GetResponse(s) PROVE Phases'
    BY <1>0, <1>34 DEF Places, Phases, GetResponse
  <1>35. ASSUME NEW s \in Senders, RetryOrFail(s) PROVE Phases'
    <2>1. /\ UNCHANGED <<cl, sock, rd, popped, wr, item, nextId, pending, atServer, rq>>
          /\ sender[s] = "await"
          /\ sender' \in {[sender EXCEPT ![s] = "failed"], [sender EXCEPT ![s] = "push"]}
      BY <1>35, Zenon DEF RetryOrFail, conn, loops, EnterPush, Set
    <2>2. rq' # "call" => sender'[Handler] = sender[Handler]
      BY <1>0, <2>1, Zenon DEF Places, Phases, Senders
    <2> QED BY <1>0, <2>1, <2>2, Zenon DEF Phases
  <1>36. CASE UNCHANGED vars
    BY <1>0, <1>36, Zenon DEF Places, Phases
  <1> QED
    BY <1>1, <1>2, <1>3, <1>4, <1>5, <1>6, <1>7, <1>8, <1>9, <1>10, <1>11, <1>12, <1>13, <1>14, Zenon,
       <1>15, <1>16, <1>17, <1>18, <1>19, <1>20, <1>21, <1>22, <1>23, <1>24, <1>25, <1>26, <1>27,
       <1>28, <1>29, <1>30, <1>31, <1>32, <1>33, <1>34, <1>35, <1>36, Zenon
    DEF Next, ConnectLoop, ReadLoop, WriteLoop, PingLoop, RequestLoop, Sender, Closer

\* A channel passes from the write loop to the map and from the map to the read loop, and has
\* one holder at every moment: Cleanup takes the whole map, ReadResponse one entry.
LEMMA HeldKept == IInv /\ [Next]_vars => Held'
  <1> SUFFICES ASSUME IInv, [Next]_vars PROVE Held'
    OBVIOUS
  <1> USE ConstantsAssumption DEF Waits
  <1>0. Places /\ Phases /\ Held /\ Ids /\ Answers /\ Known
    BY Zenon DEF IInv, TypeOK, Places
  <1>1. CASE StartLoop
    BY <1>0, <1>1, Zenon DEF Places, Phases, Held, StartLoop
  <1>2. CASE GiveUp
    BY <1>0, <1>2, Zenon DEF Places, Phases, Held, GiveUp
  <1>3. CASE DialSucceeds
    BY <1>0, <1>3, Zenon DEF Places, Phases, Held, DialSucceeds
  <1>4. CASE ConnectionEnds
    BY <1>0, <1>4, Zenon DEF Places, Phases, Held, ConnectionEnds
  <1>5. CASE Cleanup
    BY <1>0, <1>5 DEF Places, Phases, Held, Cleanup
  <1>6. CASE Join
    BY <1>0, <1>6, Zenon DEF Places, Phases, Held, Join
  <1>7. CASE SetCloseEvt
    BY <1>0, <1>7, Zenon DEF Places, Phases, Held, SetCloseEvt
  <1>8. CASE CloseChannels
    BY <1>0, <1>8, Zenon DEF Places, Phases, Held, CloseChannels
  <1>9. CASE ForceReconnect
    BY <1>0, <1>9, Zenon DEF Places, Phases, Held, ForceReconnect
  <1>10. CASE SocketFails
    BY <1>0, <1>10, Zenon DEF Places, Phases, Held, SocketFails
  <1>11. CASE ReadFails
    BY <1>0, <1>11, Zenon DEF Places, Phases, Held, ReadFails
  <1>12. CASE ReadRequest
    BY <1>0, <1>12, Zenon DEF Places, Phases, Held, ReadRequest
  <1>13. CASE PushRequest
    BY <1>0, <1>13, Zenon DEF Places, Phases, Held, PushRequest
  <1>14. CASE ReadResponse
    BY <1>0, <1>14 DEF Places, Phases, Held, ReadResponse
  <1>15. CASE DeliverResponse
    BY <1>0, <1>15, Zenon DEF Places, Phases, Held, DeliverResponse
  <1>16. CASE WriteLoopStops
    BY <1>0, <1>16, Zenon DEF Places, Phases, Held, WriteLoopStops
  <1>17. CASE TakeResponse
    BY <1>0, <1>17, Zenon DEF Places, Phases, Held, TakeResponse
  <1>18. CASE Register
    BY <1>0, <1>18 DEF Places, Phases, Held, Register
  <1>19. CASE WriteSucceeds
    BY <1>0, <1>19, Zenon DEF Places, Phases, Held, WriteSucceeds
  <1>20. CASE WriteFails
    BY <1>0, <1>20, Zenon DEF Places, Phases, Held, WriteFails
  <1>21. CASE PingStops
    BY <1>0, <1>21, Zenon DEF Places, Phases, Held, PingStops
  <1>22. CASE PingTimesOut
    BY <1>0, <1>22, Zenon DEF Places, Phases, Held, PingTimesOut
  <1>23. CASE RequestLoopStops
    BY <1>0, <1>23, Zenon DEF Places, Phases, Held, RequestLoopStops
  <1>24. CASE HandleRequest
    BY <1>0, <1>24, Zenon DEF Places, Phases, Held, HandleRequest
  <1>25. CASE HandlerReturns
    BY <1>0, <1>25, Zenon DEF Places, Phases, Held, HandlerReturns, Set, Senders
  <1>26. CASE PushResponseFails
    BY <1>0, <1>26, Zenon DEF Places, Phases, Held, PushResponseFails
  <1>27. CASE CallClose
    BY <1>0, <1>27, Zenon DEF Places, Phases, Held, CallClose
  <1>28. CASE CloseSocket
    BY <1>0, <1>28, Zenon DEF Places, Phases, Held, CloseSocket
  <1>29. CASE CancelLoop
    BY <1>0, <1>29, Zenon DEF Places, Phases, Held, CancelLoop
  <1>30. CASE CloseReturns
    BY <1>0, <1>30, Zenon DEF Places, Phases, Held, CloseReturns
  <1>31. ASSUME NEW s \in Senders, TakeRequest(s) PROVE Held'
    <2>1. /\ UNCHANGED <<popped, pending, chan>>
          /\ sender[s] = "push" /\ item' = s /\ wr' = "taken"
          /\ sender' = [sender EXCEPT ![s] = "await"]
      BY <1>31, Zenon DEF TakeRequest
    <2>2. chan[s] = "open"
      BY <1>0, <2>1, Zenon DEF Held
    <2>3. popped # s /\ \A p \in pending : p.to # s
      BY <1>0, <2>1, Zenon DEF Places, Held
    <2>4. \A t \in Senders : Waits(t) => Waits(t)'
      BY <1>0, <2>1, Zenon DEF Places
    <2>5. Waits(s)'
      BY <1>0, <2>1, <2>2, Zenon DEF Places
    <2> QED BY <1>0, <2>1, <2>3, <2>4, <2>5, Zenon DEF Places, Held
  <1>32. ASSUME NEW s \in Senders, SendRequest(s) PROVE Held'
    BY <1>0, <1>32 DEF Places, Phases, Held, SendRequest, EnterPush, Set
  <1>33. ASSUME NEW s \in Senders, PushFails(s) PROVE Held'
    BY <1>0, <1>33, Zenon DEF Places, Phases, Held, PushFails, Set
  <1>34. ASSUME NEW s \in Senders, GetResponse(s) PROVE Held'
    BY <1>0, <1>34, Zenon DEF Places, Phases, Held, GetResponse
  <1>35. ASSUME NEW s \in Senders, RetryOrFail(s) PROVE Held'
    BY <1>0, <1>35 DEF Places, Phases, Held, RetryOrFail, EnterPush, Set
  <1>36. CASE UNCHANGED vars
    BY <1>0, <1>36, Zenon DEF Places, Phases, Held
  <1> QED
    BY <1>1, <1>2, <1>3, <1>4, <1>5, <1>6, <1>7, <1>8, <1>9, <1>10, <1>11, <1>12, <1>13, <1>14, Zenon,
       <1>15, <1>16, <1>17, <1>18, <1>19, <1>20, <1>21, <1>22, <1>23, <1>24, <1>25, <1>26, <1>27,
       <1>28, <1>29, <1>30, <1>31, <1>32, <1>33, <1>34, <1>35, <1>36, Zenon
    DEF Next, ConnectLoop, ReadLoop, WriteLoop, PingLoop, RequestLoop, Sender, Closer

\* The write loop counts the id up after every request, so the ids of the map differ although
\* they start again at 1 on every connection.
LEMMA IdsKept == IInv /\ [Next]_vars => Ids'
  <1> SUFFICES ASSUME IInv, [Next]_vars PROVE Ids'
    OBVIOUS
  <1> USE ConstantsAssumption DEF Waits
  <1>0. Places /\ Phases /\ Held /\ Ids /\ Answers /\ Known
    BY Zenon DEF IInv, TypeOK, Places
  <1>1. CASE StartLoop
    BY <1>0, <1>1, Zenon DEF Places, Phases, Held, Ids, StartLoop
  <1>2. CASE GiveUp
    BY <1>0, <1>2, Zenon DEF Places, Phases, Held, Ids, GiveUp
  <1>3. CASE DialSucceeds
    BY <1>0, <1>3, Zenon DEF Places, Phases, Held, Ids, DialSucceeds
  <1>4. CASE ConnectionEnds
    BY <1>0, <1>4, Zenon DEF Places, Phases, Held, Ids, ConnectionEnds
  <1>5. CASE Cleanup
    BY <1>0, <1>5, Zenon DEF Places, Phases, Held, Ids, Cleanup
  <1>6. CASE Join
    BY <1>6, Zenon DEF Places, Phases, Held, Ids, Join
  <1>7. CASE SetCloseEvt
    BY <1>0, <1>7, Zenon DEF Places, Phases, Held, Ids, SetCloseEvt
  <1>8. CASE CloseChannels
    BY <1>0, <1>8, Zenon DEF Places, Phases, Held, Ids, CloseChannels
  <1>9. CASE ForceReconnect
    BY <1>0, <1>9, Zenon DEF Places, Phases, Held, Ids, ForceReconnect
  <1>10. CASE SocketFails
    BY <1>0, <1>10, Zenon DEF Places, Phases, Held, Ids, SocketFails
  <1>11. CASE ReadFails
    BY <1>0, <1>11, Zenon DEF Places, Phases, Held, Ids, ReadFails
  <1>12. CASE ReadRequest
    BY <1>0, <1>12, Zenon DEF Places, Phases, Held, Ids, ReadRequest
  <1>13. CASE PushRequest
    BY <1>0, <1>13, Zenon DEF Places, Phases, Held, Ids, PushRequest
  <1>14. CASE ReadResponse
    BY <1>0, <1>14 DEF Places, Phases, Held, Ids, ReadResponse
  <1>15. CASE DeliverResponse
    BY <1>0, <1>15, Zenon DEF Places, Phases, Held, Ids, DeliverResponse
  <1>16. CASE WriteLoopStops
    BY <1>0, <1>16, Zenon DEF Places, Phases, Held, Ids, WriteLoopStops
  <1>17. CASE TakeResponse
    BY <1>0, <1>17 DEF Places, Phases, Held, Ids, TakeResponse
  <1>18. CASE Register
    BY <1>0, <1>18 DEF Places, Phases, Held, Ids, Register
  <1>19. CASE WriteSucceeds
    BY <1>0, <1>19 DEF Places, Phases, Held, Ids, WriteSucceeds
  <1>20. CASE WriteFails
    BY <1>0, <1>20, Zenon DEF Places, Phases, Held, Ids, WriteFails
  <1>21. CASE PingStops
    BY <1>0, <1>21, Zenon DEF Places, Phases, Held, Ids, PingStops
  <1>22. CASE PingTimesOut
    BY <1>0, <1>22, Zenon DEF Places, Phases, Held, Ids, PingTimesOut
  <1>23. CASE RequestLoopStops
    BY <1>0, <1>23, Zenon DEF Places, Phases, Held, Ids, RequestLoopStops
  <1>24. CASE HandleRequest
    BY <1>0, <1>24, Zenon DEF Places, Phases, Held, Ids, HandleRequest
  <1>25. CASE HandlerReturns
    BY <1>0, <1>25, Zenon DEF Places, Phases, Held, Ids, HandlerReturns, Set, Senders
  <1>26. CASE PushResponseFails
    BY <1>0, <1>26, Zenon DEF Places, Phases, Held, Ids, PushResponseFails
  <1>27. CASE CallClose
    BY <1>0, <1>27, Zenon DEF Places, Phases, Held, Ids, CallClose
  <1>28. CASE CloseSocket
    BY <1>0, <1>28, Zenon DEF Places, Phases, Held, Ids, CloseSocket
  <1>29. CASE CancelLoop
    BY <1>0, <1>29, Zenon DEF Places, Phases, Held, Ids, CancelLoop
  <1>30. CASE CloseReturns
    BY <1>0, <1>30, Zenon DEF Places, Phases, Held, Ids, CloseReturns
  <1>31. ASSUME NEW s \in Senders, TakeRequest(s) PROVE Ids'
    BY <1>0, <1>31, Zenon DEF Places, Phases, Held, Ids, TakeRequest
  <1>32. ASSUME NEW s \in Senders, SendRequest(s) PROVE Ids'
    BY <1>0, <1>32, Zenon DEF Places, Phases, Held, Ids, SendRequest, EnterPush, Set
  <1>33. ASSUME NEW s \in Senders, PushFails(s) PROVE Ids'
    BY <1>0, <1>33, Zenon DEF Places, Phases, Held, Ids, PushFails, Set
  <1>34. ASSUME NEW s \in Senders, GetResponse(s) PROVE Ids'
    BY <1>0, <1>34, Zenon DEF Places, Phases, Held, Ids, GetResponse
  <1>35. ASSUME NEW s \in Senders, RetryOrFail(s) PROVE Ids'
    BY <1>0, <1>35, Zenon DEF Places, Phases, Held, Ids, RetryOrFail, EnterPush, Set
  <1>36. CASE UNCHANGED vars
    BY <1>0, <1>36, Zenon DEF Places, Phases, Held, Ids
  <1> QED
    BY <1>1, <1>2, <1>3, <1>4, <1>5, <1>6, <1>7, <1>8, <1>9, <1>10, <1>11, <1>12, <1>13, <1>14, Zenon,
       <1>15, <1>16, <1>17, <1>18, <1>19, <1>20, <1>21, <1>22, <1>23, <1>24, <1>25, <1>26, <1>27,
       <1>28, <1>29, <1>30, <1>31, <1>32, <1>33, <1>34, <1>35, <1>36, Zenon
    DEF Next, ConnectLoop, ReadLoop, WriteLoop, PingLoop, RequestLoop, Sender, Closer

\* A response is looked up by its id, and by Ids the request behind that id is the one of the
\* call that waits on the channel.
LEMMA AnswersKept == IInv /\ [Next]_vars => Answers'
  <1> SUFFICES ASSUME IInv, [Next]_vars PROVE Answers'
    OBVIOUS
  <1> USE ConstantsAssumption DEF Waits
  <1>0. Places /\ Phases /\ Held /\ Ids /\ Answers /\ Known
    BY Zenon DEF IInv, TypeOK, Places
  <1>1. CASE StartLoop
    BY <1>0, <1>1, Zenon DEF Places, Phases, Held, Ids, Answers, OwnResponse, StartLoop
  <1>2. CASE GiveUp
    BY <1>0, <1>2, Zenon DEF Places, Phases, Held, Ids, Answers, OwnResponse, GiveUp
  <1>3. CASE DialSucceeds
    BY <1>0, <1>3, Zenon DEF Places, Phases, Held, Ids, Answers, OwnResponse, DialSucceeds
  <1>4. CASE ConnectionEnds
    BY <1>0, <1>4, Zenon DEF Places, Phases, Held, Ids, Answers, OwnResponse, ConnectionEnds
  <1>5. CASE Cleanup
    BY <1>0, <1>5, Zenon DEF Places, Phases, Held, Ids, Answers, OwnResponse, Cleanup
  <1>6. CASE Join
    BY <1>0, <1>6, Zenon DEF Places, Phases, Held, Ids, Answers, OwnResponse, Join
  <1>7. CASE SetCloseEvt
    BY <1>0, <1>7, Zenon DEF Places, Phases, Held, Ids, Answers, OwnResponse, SetCloseEvt
  <1>8. CASE CloseChannels
    BY <1>0, <1>8, Zenon DEF Places, Phases, Held, Ids, Answers, OwnResponse, CloseChannels
  <1>9. CASE ForceReconnect
    BY <1>0, <1>9, Zenon DEF Places, Phases, Held, Ids, Answers, OwnResponse, ForceReconnect
  <1>10. CASE SocketFails
    BY <1>0, <1>10, Zenon DEF Places, Phases, Held, Ids, Answers, OwnResponse, SocketFails
  <1>11. CASE ReadFails
    BY <1>0, <1>11, Zenon DEF Places, Phases, Held, Ids, Answers, OwnResponse, ReadFails
  <1>12. CASE ReadRequest
    BY <1>0, <1>12, Zenon DEF Places, Phases, Held, Ids, Answers, OwnResponse, ReadRequest
  <1>13. CASE PushRequest
    BY <1>0, <1>13, Zenon DEF Places, Phases, Held, Ids, Answers, OwnResponse, PushRequest
  <1>14. CASE ReadResponse
    BY <1>0, <1>14 DEF Places, Phases, Held, Ids, Answers, OwnResponse, ReadResponse
  <1>15. CASE DeliverResponse
    BY <1>0, <1>15, Zenon DEF Places, Phases, Held, Ids, Answers, OwnResponse, DeliverResponse
  <1>16. CASE WriteLoopStops
    BY <1>0, <1>16, Zenon DEF Places, Phases, Held, Ids, Answers, OwnResponse, WriteLoopStops
  <1>17. CASE TakeResponse
    BY <1>0, <1>17, Zenon DEF Places, Phases, Held, Ids, Answers, OwnResponse, TakeResponse
  <1>18. CASE Register
    BY <1>0, <1>18, Zenon DEF Places, Phases, Held, Ids, Answers, OwnResponse, Register
  <1>19. CASE WriteSucceeds
    BY <1>0, <1>19, Zenon DEF Places, Phases, Held, Ids, Answers, OwnResponse, WriteSucceeds
  <1>20. CASE WriteFails
    BY <1>0, <1>20, Zenon DEF Places, Phases, Held, Ids, Answers, OwnResponse, WriteFails
  <1>21. CASE PingStops
    BY <1>0, <1>21, Zenon DEF Places, Phases, Held, Ids, Answers, OwnResponse, PingStops
  <1>22. CASE PingTimesOut
    BY <1>0, <1>22, Zenon DEF Places, Phases, Held, Ids, Answers, OwnResponse, PingTimesOut
  <1>23. CASE RequestLoopStops
    BY <1>0, <1>23, Zenon DEF Places, Phases, Held, Ids, Answers, OwnResponse, RequestLoopStops
  <1>24. CASE HandleRequest
    BY <1>0, <1>24, Zenon DEF Places, Phases, Held, Ids, Answers, OwnResponse, HandleRequest
  <1>25. CASE HandlerReturns
    BY <1>0, <1>25, Zenon
    DEF Places, Phases, Held, Ids, Answers, OwnResponse, HandlerReturns, Set, Senders
  <1>26. CASE PushResponseFails
    BY <1>0, <1>26, Zenon DEF Places, Phases, Held, Ids, Answers, OwnResponse, PushResponseFails
  <1>27. CASE CallClose
    BY <1>0, <1>27, Zenon DEF Places, Phases, Held, Ids, Answers, OwnResponse, CallClose
  <1>28. CASE CloseSocket
    BY <1>0, <1>28, Zenon DEF Places, Phases, Held, Ids, Answers, OwnResponse, CloseSocket
  <1>29. CASE CancelLoop
    BY <1>0, <1>29, Zenon DEF Places, Phases, Held, Ids, Answers, OwnResponse, CancelLoop
  <1>30. CASE CloseReturns
    BY <1>0, <1>30, Zenon DEF Places, Phases, Held, Ids, Answers, OwnResponse, CloseReturns
  <1>31. ASSUME NEW s \in Senders, TakeRequest(s) PROVE Answers'
    BY <1>0, <1>31, Zenon DEF Places, Phases, Held, Ids, Answers, OwnResponse, TakeRequest
  <1>32. ASSUME NEW s \in Senders, SendRequest(s) PROVE Answers'
    BY <1>0, <1>32
    DEF Places, Phases, Held, Ids, Answers, OwnResponse, SendRequest, EnterPush, Set
  <1>33. ASSUME NEW s \in Senders, PushFails(s) PROVE Answers'
    BY <1>0, <1>33, Zenon DEF Places, Phases, Held, Ids, Answers, OwnResponse, PushFails, Set
  <1>34. ASSUME NEW s \in Senders, GetResponse(s) PROVE Answers'
    BY <1>0, <1>34, Zenon DEF Places, Phases, Held, Ids, Answers, OwnResponse, GetResponse
  <1>35. ASSUME NEW s \in Senders, RetryOrFail(s) PROVE Answers'
    BY <1>0, <1>35
    DEF Places, Phases, Held, Ids, Answers, OwnResponse, RetryOrFail, EnterPush, Set
  <1>36. CASE UNCHANGED vars
    BY <1>0, <1>36, Zenon DEF Places, Phases, Held, Ids, Answers, OwnResponse
  <1> QED
    BY <1>1, <1>2, <1>3, <1>4, <1>5, <1>6, <1>7, <1>8, <1>9, <1>10, <1>11, <1>12, <1>13, <1>14, Zenon,
       <1>15, <1>16, <1>17, <1>18, <1>19, <1>20, <1>21, <1>22, <1>23, <1>24, <1>25, <1>26, <1>27,
       <1>28, <1>29, <1>30, <1>31, <1>32, <1>33, <1>34, <1>35, <1>36, Zenon
    DEF Next, ConnectLoop, ReadLoop, WriteLoop, PingLoop, RequestLoop, Sender, Closer

\* Cleanup closes all that is in the map; what is registered after it is in late.
LEMMA KnownKept == IInv /\ [Next]_vars => Known'
  <1> SUFFICES ASSUME IInv, [Next]_vars PROVE Known'
    OBVIOUS
  <1> USE ConstantsAssumption DEF Waits
  <1>0. Places /\ Phases /\ Held /\ Ids /\ Answers /\ Known
    BY Zenon DEF IInv, TypeOK, Places
  <1>1. CASE StartLoop
    BY <1>0, <1>1, Zenon DEF Places, Phases, Held, Known, StartLoop
  <1>2. CASE GiveUp
    BY <1>0, <1>2, Zenon DEF Places, Phases, Held, Known, GiveUp
  <1>3. CASE DialSucceeds
    BY <1>0, <1>3, Zenon DEF Places, Phases, Held, Known, DialSucceeds
  <1>4. CASE ConnectionEnds
    BY <1>0, <1>4, Zenon DEF Places, Phases, Held, Known, ConnectionEnds
  <1>5. CASE Cleanup
    BY <1>0, <1>5, Zenon DEF Places, Phases, Held, Known, Cleanup
  <1>6. CASE Join
    BY <1>0, <1>6, Zenon DEF Places, Phases, Held, Known, Join
  <1>7. CASE SetCloseEvt
    BY <1>0, <1>7, Zenon DEF Places, Phases, Held, Known, SetCloseEvt
  <1>8. CASE CloseChannels
    BY <1>0, <1>8, Zenon DEF Places, Phases, Held, Known, CloseChannels
  <1>9. CASE ForceReconnect
    BY <1>0, <1>9, Zenon DEF Places, Phases, Held, Known, ForceReconnect
  <1>10. CASE SocketFails
    BY <1>0, <1>10, Zenon DEF Places, Phases, Held, Known, SocketFails
  <1>11. CASE ReadFails
    BY <1>0, <1>11, Zenon DEF Places, Phases, Held, Known, ReadFails
  <1>12. CASE ReadRequest
    BY <1>0, <1>12, Zenon DEF Places, Phases, Held, Known, ReadRequest
  <1>13. CASE PushRequest
    BY <1>0, <1>13, Zenon DEF Places, Phases, Held, Known, PushRequest
  <1>14. CASE ReadResponse
    BY <1>0, <1>14 DEF Places, Phases, Held, Known, ReadResponse
  <1>15. CASE DeliverResponse
    BY <1>0, <1>15, Zenon DEF Places, Phases, Held, Known, DeliverResponse
  <1>16. CASE WriteLoopStops
    BY <1>0, <1>16, Zenon DEF Places, Phases, Held, Known, WriteLoopStops
  <1>17. CASE TakeResponse
    BY <1>0, <1>17, Zenon DEF Places, Phases, Held, Known, TakeResponse
  <1>18. CASE Register
    <2>1. /\ UNCHANGED <<cl, popped, item, sender, chan>>
          /\ wr = "taken" /\ wr' = "write"
          /\ pending' = pending \cup {[id |-> nextId, to |-> item]}
          /\ late' = IF cl = "join" THEN late \cup {item} ELSE late
      BY <1>18, Zenon DEF Register, conn, calls
    <2>2. {p.to : p \in pending'} = {p.to : p \in pending} \cup {item}
      <3> DEFINE new == [id |-> nextId, to |-> item]
      <3>1. new.to = item
        OBVIOUS
      <3>2. pending' = pending \cup {new}
        BY <2>1, Zenon
      <3> HIDE DEF new
      <3> QED BY <3>1, <3>2, Zenon
    <2>3. late \subseteq late'
      BY <2>1, Zenon
    <2>4. ASSUME NEW s \in Senders, Waits(s)'
          PROVE  s \in {p.to : p \in pending'} \cup {popped'} \cup late'
      BY <1>0, <2>1, <2>2, <2>3, <2>4, Zenon DEF Known
    <2>5. cl' = "join" => {p.to : p \in pending'} \subseteq late'
      BY <1>0, <2>1, <2>2, Zenon DEF Known
    <2> QED BY <2>4, <2>5, Zenon DEF Known
  <1>19. CASE WriteSucceeds
    BY <1>0, <1>19, Zenon DEF Places, Phases, Held, Known, WriteSucceeds
  <1>20. CASE WriteFails
    BY <1>0, <1>20, Zenon DEF Places, Phases, Held, Known, WriteFails
  <1>21. CASE PingStops
    BY <1>0, <1>21, Zenon DEF Places, Phases, Held, Known, PingStops
  <1>22. CASE PingTimesOut
    BY <1>0, <1>22, Zenon DEF Places, Phases, Held, Known, PingTimesOut
  <1>23. CASE RequestLoopStops
    BY <1>0, <1>23, Zenon DEF Places, Phases, Held, Known, RequestLoopStops
  <1>24. CASE HandleRequest
    BY <1>0, <1>24, Zenon DEF Places, Phases, Held, Known, HandleRequest
  <1>25. CASE HandlerReturns
    BY <1>0, <1>25, Zenon DEF Places, Phases, Held, Known, HandlerReturns, Set, Senders
  <1>26. CASE PushResponseFails
    BY <1>0, <1>26, Zenon DEF Places, Phases, Held, Known, PushResponseFails
  <1>27. CASE CallClose
    BY <1>0, <1>27, Zenon DEF Places, Phases, Held, Known, CallClose
  <1>28. CASE CloseSocket
    BY <1>0, <1>28, Zenon DEF Places, Phases, Held, Known, CloseSocket
  <1>29. CASE CancelLoop
    BY <1>0, <1>29, Zenon DEF Places, Phases, Held, Known, CancelLoop
  <1>30. CASE CloseReturns
    BY <1>0, <1>30, Zenon DEF Places, Phases, Held, Known, CloseReturns
  <1>31. ASSUME NEW s \in Senders, TakeRequest(s) PROVE Known'
    BY <1>0, <1>31, Zenon DEF Places, Phases, Held, Known, TakeRequest
  <1>32. ASSUME NEW s \in Senders, SendRequest(s) PROVE Known'
    BY <1>0, <1>32 DEF Places, Phases, Held, Known, SendRequest, EnterPush, Set
  <1>33. ASSUME NEW s \in Senders, PushFails(s) PROVE Known'
    BY <1>0, <1>33, Zenon DEF Places, Phases, Held, Known, PushFails, Set
  <1>34. ASSUME NEW s \in Senders, GetResponse(s) PROVE Known'
    BY <1>0, <1>34, Zenon DEF Places, Phases, Held, Known, GetResponse
  <1>35. ASSUME NEW s \in Senders, RetryOrFail(s) PROVE Known'
    BY <1>0, <1>35 DEF Places, Phases, Held, Known, RetryOrFail, EnterPush, Set
  <1>36. CASE UNCHANGED vars
    BY <1>0, <1>36, Zenon DEF Places, Phases, Held, Known
  <1> QED
    BY <1>1, <1>2, <1>3, <1>4, <1>5, <1>6, <1>7, <1>8, <1>9, <1>10, <1>11, <1>12, <1>13, <1>14, Zenon,
       <1>15, <1>16, <1>17, <1>18, <1>19, <1>20, <1>21, <1>22, <1>23, <1>24, <1>25, <1>26, <1>27,
       <1>28, <1>29, <1>30, <1>31, <1>32, <1>33, <1>34, <1>35, <1>36, Zenon
    DEF Next, ConnectLoop, ReadLoop, WriteLoop, PingLoop, RequestLoop, Sender, Closer

\* Nothing closes a channel twice or sends to one that is closed: the clean-up and the
\* read loop hold open channels, and the read loop is gone when the channels are closed.
LEMMA NoPanicKept == IInv /\ [Next]_vars => NoPanic'
  <1> SUFFICES ASSUME IInv, [Next]_vars PROVE NoPanic'
    OBVIOUS
  <1>0. ~panicked /\ Phases /\ Held
    BY Zenon DEF IInv, NoPanic
  <1>1. CASE Cleanup
    <2>1. \A s \in {p.to : p \in pending} : chan[s] = "open"
      BY <1>0, Zenon DEF Held, Waits
    <2> QED BY <1>0, <1>1, <2>1, Zenon DEF Cleanup, NoPanic
  <1>2. CASE CloseChannels
    <2>1. rd # "push"
      BY <1>0, <1>2, Zenon DEF Phases, CloseChannels
    <2> QED BY <1>0, <1>2, <2>1, Zenon DEF CloseChannels, NoPanic
  <1>3. CASE DeliverResponse
    <2>1. chan[popped] = "open"
      BY <1>0, <1>3, Zenon DEF Phases, Held, Waits, DeliverResponse
    <2> QED BY <1>0, <1>3, <2>1, Zenon DEF DeliverResponse, NoPanic
  <1>4. CASE UNCHANGED panicked
    BY <1>0, <1>4, Zenon DEF NoPanic
  <1> QED
    BY <1>1, <1>2, <1>3, <1>4, Zenon
    DEF Next, ConnectLoop, ReadLoop, WriteLoop, PingLoop, RequestLoop, Sender, Closer,
        StartLoop, GiveUp, DialSucceeds, ConnectionEnds, Join, SetCloseEvt, ForceReconnect,
        SocketFails, ReadFails, ReadRequest, PushRequest, ReadResponse, WriteLoopStops,
        TakeResponse, Register, WriteSucceeds, WriteFails, PingStops, PingTimesOut,
        RequestLoopStops, HandleRequest, HandlerReturns, PushResponseFails, CallClose,
        CloseSocket, CancelLoop, CloseReturns, TakeRequest, SendRequest, PushFails, GetResponse,
        RetryOrFail, vars

\* A websocket that was just made.
LEMMA InitIInv == Init => IInv
  <1> SUFFICES ASSUME Init PROVE IInv
    OBVIOUS
  <1> USE ConstantsAssumption
  <1>1. Flags
    BY Zenon DEF Init, Flags
  <1>2. Places
    BY DEF Init, Places
  <1>3. NoPanic
    BY Zenon DEF Init, NoPanic
  <1>4. Phases
    BY Zenon DEF Init, Phases, Senders
  <1>5. Held /\ Ids /\ Known
    BY Zenon DEF Init, Held, Ids, Known, Waits
  <1>6. Answers
    BY Zenon DEF Init, Answers, OwnResponse
  <1> QED BY <1>1, <1>2, <1>3, <1>4, <1>5, <1>6, Parts, Zenon DEF IInv

\* Every step of every goroutine keeps the invariant.
LEMMA NextIInv == IInv /\ [Next]_vars => IInv'
  <1> SUFFICES ASSUME IInv, [Next]_vars PROVE IInv'
    OBVIOUS
  <1>1. TypeOK /\ Phases
    BY Zenon DEF IInv
  <1>2. Flags'
    BY <1>1, FlagsKept, Zenon
  <1>3. Places'
    BY <1>1, PlacesKept, Zenon
  <1>4. TypeOK'
    BY <1>2, <1>3, Zenon DEF TypeOK, Flags, Places
  <1> QED
    BY <1>4, NoPanicKept, PhasesKept, HeldKept, IdsKept, AnswersKept, KnownKept, Zenon DEF IInv

\* The invariant holds always.
LEMMA Inductive == Spec => []IInv
  BY InitIInv, NextIInv, PTL DEF Spec

\* TypeOK: queue stays within the capacity of incomingRequestChan, the attempts of a call within
\* the retries of SendRequest, and every goroutine stays at a place its code has.
THEOREM WebsocketTypes == Spec => []TypeOK
  <1>1. IInv => TypeOK
    BY Zenon DEF IInv
  <1> QED BY <1>1, Inductive, PTL

\* NoPanic: in no interleaving of readLoop, writeLoop, Cleanup, connectLoop and Close is a response
\* channel closed twice or is anybody sending on a channel when it is closed.
THEOREM ChannelsClosedOnce == Spec => []NoPanic
  <1>1. IInv => NoPanic
    BY Zenon DEF IInv
  <1> QED BY <1>1, Inductive, PTL

\* OwnResponse: a call of sendRequestInternal that returns a response returns the one to its own
\* request, however often the connection was replaced and the ids started again at 1.
THEOREM ResponsesReachTheirCall == Spec => []OwnResponse
  <1>1. IInv => OwnResponse
    BY Zenon DEF IInv, Answers
  <1> QED BY <1>1, Inductive, PTL

\* NoRequestForgotten: a call that waits on its open channel is in the map, held by the write loop
\* or the read loop, or was registered after Cleanup had swapped the map.
THEOREM WaitingCallsAreKnown == Spec => []NoRequestForgotten
  <1>1. IInv => NoRequestForgotten
    BY Zenon DEF IInv, Known, NoRequestForgotten, Waits
  <1> QED BY <1>1, Inductive, PTL
=============================================================================

-------------------------- MODULE ConnectionProofs --------------------------
(***************************************************************************)
(* Type correctness of the connection, and that nothing runs once it was   *)
(* stopped, for every capacity of statusChan and every bound on the calls  *)
(* and the faults.                                                         *)
(***************************************************************************)
EXTENDS Connection, SequenceTheorems, TLAPS

Ended(w) == ws[w].at \in {"off", "ended"}

\* The inductive invariant: the handles are taken away from goroutines that are gone only, and a
\* call of StopReceiveLoops has waited for what its place says.
Joined ==
  /\ ~handle => (\A w \in Sides : Ended(w)) /\ merger.at = "off" /\ init = "off"
  /\ \A a \in Stoppers : stop[a] \in {"unauth", "wait"} => Ended("auth")
  /\ \A a \in Stoppers : stop[a] = "wait" => Ended("unauth")
  /\ user \in {"off", "retry"} => ~handle
  /\ stop["user"] # "none" => user = "stop"

IInv == TypeOK /\ Joined

USE DEF Events

\* TypeOK in two parts, for provers that do not like to reason of both at once.
Flags ==
  /\ handle \in BOOLEAN /\ live \in BOOLEAN
  /\ password \in BOOLEAN /\ accepted \in BOOLEAN
  /\ current \in BOOLEAN /\ missed \in BOOLEAN

Rest ==
  /\ user \in {"off", "retry", "on", "background", "stop"}
  /\ stop \in [Stoppers -> {"none", "auth", "unauth", "wait"}]
  /\ ws \in [Sides -> [at : {"off", "dial", "push", "up", "ended"}, ev : Events \cup {"none"}]]
  /\ closing \subseteq Sides
  /\ merger \in [at : {"off", "select"}, ev : {"none"}] \cup [at : {"send"}, ev : Events]
  /\ last \in [Sides -> Events \cup {"none"}]
  /\ lastStatus \in Events \cup {"none"}
  /\ chan \in Seq(Events) /\ Len(chan) <= Cap
  /\ loop \in {"off", "read", "peek", "stop"}
  /\ init \in {"off", "wait", "register"}
  /\ keys \in {"off", "wait", "stop"}
  /\ state \in {"none", "connecting", "connected", "transient", "unknownError", "badCredentials"}
  /\ starts \in 0..MaxStarts /\ faults \in 0..MaxFaults

LEMMA Parts == TypeOK <=> Flags /\ Rest
  BY DEF TypeOK, Flags, Rest

\* Initially nothing runs.
LEMMA InitIInv == Init => IInv
  <1> SUFFICES ASSUME Init PROVE IInv
    OBVIOUS
  <1>1. Flags
    BY DEF Init, Flags
  <1>2. Rest
    BY CapPositive, BoundsAreNumbers DEF Init, Rest, At
  <1>3. Joined
    BY DEF Init, Joined, Ended, At, Stoppers, Sides
  <1> QED BY <1>1, <1>2, <1>3, Parts DEF IInv

\* A status that is pushed leaves the websocket in one of its places.
LEMMA PushedTypes ==
  ASSUME TypeOK, NEW w \in Sides, ws[w].at = "push"
  PROVE  /\ Pushed(w) \in [Sides -> [at : {"off", "dial", "push", "up", "ended"}, ev : Events \cup {"none"}]]
         /\ \A v \in Sides \ {w} : Pushed(w)[v] = ws[v]
  BY DEF TypeOK, Pushed, At, After

\* Every step keeps the types.
LEMMA NextTypes == TypeOK /\ [Next]_vars => TypeOK'
  <1> SUFFICES ASSUME TypeOK, [Next]_vars PROVE TypeOK'
    OBVIOUS
  <1> USE CapPositive, BoundsAreNumbers
  <1>1. ASSUME NEW w \in Sides, Dial(w) PROVE TypeOK'
    BY <1>1 DEF TypeOK, Dial, Push, At, Fault, status, bridge, creds, ghosts
  <1>2. ASSUME NEW w \in Sides, ConnectionClosed(w) PROVE TypeOK'
    BY <1>2 DEF TypeOK, ConnectionClosed, Push, status, bridge, creds, ghosts
  <1>3. ASSUME NEW w \in Sides, GiveUpStatus(w) PROVE TypeOK'
    <2>1. Flags'
      BY <1>3, Zenon DEF TypeOK, Flags, GiveUpStatus, status, bridge, creds
    <2>2. Rest'
      BY <1>3, PushedTypes DEF TypeOK, Rest, GiveUpStatus, status, bridge, creds
    <2> QED BY <2>1, <2>2 DEF TypeOK, Flags, Rest
  <1>4. ASSUME NEW w \in Sides, BackgroundReceive(w) PROVE TypeOK'
    BY <1>4, PushedTypes DEF TypeOK, BackgroundReceive, BackgroundEnds, CallStop, status, creds, ghosts
  <1>5. ASSUME NEW w \in Sides, Receive(w) PROVE TypeOK'
    <2>1. ws[w].ev \in Events \cup {"none"}
      BY DEF TypeOK
    <2>2. Combined([last EXCEPT ![w] = ws[w].ev], ws[w].ev) \in Events \cup {"none"}
      BY <2>1 DEF Combined
    <2> QED BY <1>5, <2>1, <2>2, PushedTypes DEF TypeOK, Receive, bridge, creds, ghosts
  <1>6. ASSUME NEW w \in Sides, ReceiveClosed(w) PROVE TypeOK'
    BY <1>6 DEF TypeOK, ReceiveClosed, conn, bridge, creds, ghosts
  <1>7. CASE Send
    <2>1. merger.ev \in Events
      BY <1>7 DEF Send, TypeOK
    <2> QED BY <1>7, <2>1 DEF TypeOK, Send, At, conn, bridge, creds
  <1>8. CASE MergerStops
    BY <1>8 DEF TypeOK, MergerStops, At, conn, bridge, creds, ghosts
  <1>9. CASE InitialConnect
    BY <1>9 DEF TypeOK, InitialConnect, conn, status, bridge, creds, ghosts
  <1>10. ASSUME NEW a \in Stoppers, AuthClosed(a) PROVE TypeOK'
    BY <1>10, SMTT(60) DEF Sides, Stoppers, TypeOK, AuthClosed, status, bridge, creds, ghosts
  <1>11. ASSUME NEW a \in Stoppers, UnauthClosed(a) PROVE TypeOK'
    <2>1. Flags'
      BY <1>11, Zenon DEF TypeOK, Flags, UnauthClosed, status, bridge, creds, ghosts
    <2>2. Rest'
      BY <1>11 DEF TypeOK, Rest, UnauthClosed, status, bridge, creds, ghosts
    <2> QED BY <2>1, <2>2 DEF TypeOK, Flags, Rest
  <1>12. ASSUME NEW a \in Stoppers, StopReturns(a) PROVE TypeOK'
    BY <1>12 DEF TypeOK, StopReturns, status, creds, ghosts
  <1>13. CASE KeyCheck
    <2>1. Flags'
      BY <1>13, Zenon DEF TypeOK, Flags, Sides, Stoppers, KeyCheck, ClearKeysAndDisconnect, CallStop, Fault, status, bridge, creds, ghosts
    <2>2. Rest'
      <3>1. /\ UNCHANGED <<user, ws, merger, last, lastStatus, chan, loop, state, init, starts>>
            /\ keys' \in {"off", "stop"}
        BY <1>13 DEF KeyCheck, status, bridge
      <3>2. faults' \in 0..MaxFaults
        BY <1>13 DEF KeyCheck, Fault, TypeOK
      <3>3. closing' \subseteq Sides
        BY <1>13 DEF KeyCheck, ClearKeysAndDisconnect, CallStop, TypeOK, Sides
      <3>4. stop' \in [Stoppers -> {"none", "auth", "unauth", "wait"}]
        BY <1>13 DEF KeyCheck, ClearKeysAndDisconnect, CallStop, TypeOK, Stoppers
      <3> QED BY <3>1, <3>2, <3>3, <3>4 DEF TypeOK, Rest
    <2> QED BY <2>1, <2>2 DEF TypeOK, Flags, Rest
  <1>14. CASE ReadStatus
    <2>1. chan # <<>> /\ Head(chan) \in Events /\ Tail(chan) \in Seq(Events) /\ Len(Tail(chan)) <= Cap
      BY <1>14, HeadTailProperties DEF ReadStatus, TypeOK
    <2>2. Reported(Head(chan)) \in {"none", "connecting", "connected", "transient", "unknownError", "badCredentials"}
      BY <2>1 DEF Reported, TypeOK
    <2>3. Flags'
      BY <1>14, Zenon DEF TypeOK, Flags, ReadStatus, ClearKeysAndDisconnect, CallStop, creds, ghosts
    <2>4. Rest'
      <3>1. /\ UNCHANGED <<user, ws, merger, last, lastStatus, init, keys, starts, faults>>
            /\ chan' = Tail(chan) /\ state' = Reported(Head(chan))
            /\ loop' \in {"stop", "peek", "read"}
        BY <1>14 DEF ReadStatus
      <3>2. closing' \subseteq Sides
        BY <1>14 DEF ReadStatus, ClearKeysAndDisconnect, CallStop, TypeOK, Sides
      <3>3. stop' \in [Stoppers -> {"none", "auth", "unauth", "wait"}]
        BY <1>14 DEF ReadStatus, ClearKeysAndDisconnect, CallStop, TypeOK, Stoppers
      <3> QED BY <2>1, <2>2, <3>1, <3>2, <3>3 DEF TypeOK, Rest
    <2> QED BY <2>3, <2>4 DEF TypeOK, Flags, Rest
  <1>15. CASE DebounceEnds
    BY <1>15 DEF TypeOK, DebounceEnds, conn, status, creds, ghosts
  <1>16. CASE LoopEnds
    BY <1>16 DEF TypeOK, LoopEnds, conn, status, creds, ghosts
  <1>17. ASSUME NEW w \in Sides, ConnectionLost(w) PROVE TypeOK'
    BY <1>17 DEF TypeOK, ConnectionLost, Push, Fault, status, bridge, creds, ghosts
  <1>18. CASE Connect
    <2>1. Flags'
      BY <1>18, Zenon DEF TypeOK, Flags, Connect, Open, At, Fault, conn, creds, ghosts
    <2>2. Rest'
      <3>1. starts' \in 0..MaxStarts /\ faults' \in 0..MaxFaults
        BY <1>18 DEF Connect, Fault, TypeOK
      <3>2. CASE UNCHANGED <<ws, closing, merger, last, chan, loop, init>>
        BY <1>18, <3>1, <3>2 DEF Connect, TypeOK, Rest
      <3>3. CASE ~UNCHANGED <<ws, closing, merger, last, chan, loop, init>>
        <4>1. /\ user' = "on" /\ closing' = {} /\ merger' = At("select") /\ chan' = <<>>
              /\ ws' = [w \in Sides |-> At("dial")] /\ last' = [w \in Sides |-> "none"]
              /\ loop' = "read" /\ init' = "wait"
          BY <1>18, <3>3 DEF Connect, Open, conn
        <4>2. UNCHANGED <<stop, lastStatus, keys>> /\ state' \in {"connecting", state}
          BY <1>18, <3>3 DEF Connect, Open, conn
        <4>3. chan' \in Seq(Events) /\ Len(chan') <= Cap
          BY <4>1
        <4> QED BY <3>1, <4>1, <4>2, <4>3 DEF At, TypeOK, Rest
      <3> QED BY <3>2, <3>3
    <2> QED BY <2>1, <2>2 DEF TypeOK, Flags, Rest
  <1>19. CASE RetryCancelled
    BY <1>19 DEF TypeOK, RetryCancelled, conn, status, bridge, creds, ghosts
  <1>20. CASE Disconnect
    <2>1. Flags'
      BY <1>20, Zenon DEF TypeOK, Flags, Sides, Stoppers, Disconnect, CallStop, status, ghosts
    <2>2. Rest'
      BY <1>20 DEF TypeOK, Rest, Sides, Stoppers, Disconnect, CallStop, status, ghosts
    <2> QED BY <2>1, <2>2 DEF TypeOK, Flags, Rest
  <1>21. CASE ConnectBackground
    BY <1>21 DEF TypeOK, ConnectBackground, Open, At, status, bridge, ghosts
  <1>22. CASE BackgroundDone
    BY <1>22, SMTT(60) DEF Sides, Stoppers, TypeOK, BackgroundDone, BackgroundEnds, CallStop, status, creds, ghosts
  <1>23. CASE Unlinked
    <2>1. Flags'
      BY <1>23, Zenon DEF TypeOK, Flags, Unlinked, Fault, conn, status, bridge, ghosts
    <2>2. Rest'
      BY <1>23 DEF TypeOK, Rest, Unlinked, Fault, conn, status, bridge, ghosts
    <2> QED BY <2>1, <2>2 DEF TypeOK, Flags, Rest
  <1>24. CASE UNCHANGED vars
    BY <1>24 DEF TypeOK, vars, conn, status, bridge, creds, ghosts
  <1> QED
    BY <1>1, <1>2, <1>3, <1>4, <1>5, <1>6, <1>7, <1>8, <1>9, <1>10, <1>11, <1>12, <1>13, <1>14, <1>15,
       <1>16, <1>17, <1>18, <1>19, <1>20, <1>21, <1>22, <1>23, <1>24
    DEF Next, Internal, Websocket, Goroutines, Stopping, BridgeStateLoop

\* Every step keeps what the stopped goroutines are.
LEMMA NextJoined == IInv /\ [Next]_vars => Joined'
  <1> SUFFICES ASSUME TypeOK, Joined, [Next]_vars PROVE Joined'
    BY DEF IInv
  <1>0. /\ \A w \in Sides : Ended(w) => ws[w].at \notin {"dial", "push", "up"}
        /\ ~handle => \A w \in Sides : ws[w].at \notin {"dial", "push", "up"}
    BY DEF Joined, Ended
  <1>1. ASSUME NEW w \in Sides, Websocket(w) \/ ConnectionLost(w) \/ Receive(w) \/ BackgroundReceive(w)
        PROVE Joined'
    <2>1. ws[w].at \in {"dial", "push", "up"} /\ handle /\ ~Ended(w)
      BY <1>0, <1>1 DEF Websocket, Dial, ConnectionClosed, GiveUpStatus, ConnectionLost, Receive, BackgroundReceive,
                        Ended, TypeOK
    <2>2. handle' = handle /\ \A v \in Sides \ {w} : ws'[v] = ws[v]
      <3>1. CASE Dial(w) \/ ConnectionClosed(w) \/ ConnectionLost(w)
        BY <3>1 DEF Dial, ConnectionClosed, ConnectionLost, Push, At, TypeOK
      <3>2. CASE GiveUpStatus(w) \/ Receive(w) \/ BackgroundReceive(w)
        BY <3>2, PushedTypes DEF GiveUpStatus, Receive, BackgroundReceive
      <3> QED BY <1>1, <3>1, <3>2 DEF Websocket
    <2>3. \/ UNCHANGED <<stop, user>>
          \/ /\ stop' = [stop EXCEPT !["user"] = "auth"]
             /\ user = "background" /\ user' = "stop"
      <3>1. CASE Websocket(w)
        BY <3>1 DEF Websocket, Dial, ConnectionClosed, GiveUpStatus
      <3>2. CASE ConnectionLost(w) \/ Receive(w)
        BY <3>2 DEF ConnectionLost, Receive
      <3>3. CASE BackgroundReceive(w)
        BY <3>3 DEF BackgroundReceive, BackgroundEnds, CallStop
      <3> QED BY <1>1, <3>1, <3>2, <3>3
    <2> QED BY <2>1, <2>2, <2>3 DEF Joined, Ended, TypeOK, Sides, Stoppers
  <1>2. ASSUME NEW w \in Sides, ReceiveClosed(w) PROVE Joined'
    BY <1>2 DEF Joined, Ended, ReceiveClosed, conn
  <1>3. CASE Send \/ MergerStops
    BY <1>3 DEF Joined, Ended, Send, MergerStops, At, conn
  <1>4. CASE InitialConnect
    BY <1>4 DEF Joined, Ended, InitialConnect, conn, status
  <1>5. ASSUME NEW a \in Stoppers, AuthClosed(a) \/ UnauthClosed(a) PROVE Joined'
    BY <1>5 DEF Joined, Ended, AuthClosed, UnauthClosed, status, Sides, Stoppers, TypeOK
  <1>6. ASSUME NEW a \in Stoppers, StopReturns(a) PROVE Joined'
    BY <1>6 DEF Joined, Ended, StopReturns, status, Sides, Stoppers, TypeOK
  <1>7. CASE KeyCheck
    BY <1>7 DEF Joined, Ended, KeyCheck, ClearKeysAndDisconnect, CallStop, status, Stoppers, TypeOK
  <1>8. CASE BridgeStateLoop
    BY <1>8 DEF Joined, Ended, BridgeStateLoop, ReadStatus, DebounceEnds, LoopEnds, ClearKeysAndDisconnect, CallStop,
                conn, status, Stoppers, TypeOK
  <1>9. CASE Connect
    BY <1>9 DEF Joined, Ended, Connect, Quiet, Open, conn, Stoppers, TypeOK
  <1>10. CASE ConnectBackground
    BY <1>10 DEF Joined, Ended, ConnectBackground, Quiet, Open, Stoppers, TypeOK
  <1>11. CASE RetryCancelled \/ Unlinked
    BY <1>11 DEF Joined, Ended, RetryCancelled, Unlinked, conn, status
  <1>12. CASE Disconnect \/ BackgroundDone
    BY <1>12 DEF Joined, Ended, Disconnect, BackgroundDone, BackgroundEnds, CallStop, status, Stoppers, TypeOK
  <1>13. CASE UNCHANGED vars
    BY <1>13 DEF Joined, Ended, vars, conn, status
  <1> QED
    BY <1>1, <1>2, <1>3, <1>4, <1>5, <1>6, <1>7, <1>8, <1>9, <1>10, <1>11, <1>12, <1>13
    DEF Next, Internal, Goroutines, Stopping

\* The inductive invariant holds.
THEOREM ConnectionInvariant == Spec => []IInv
  <1>1. IInv /\ [Next]_vars => IInv'
    BY NextTypes, NextJoined DEF IInv
  <1> QED BY InitIInv, <1>1, PTL DEF Spec

\* The types of the connection, for every capacity and all bounds.
THEOREM ConnectionTypes == Spec => []TypeOK
  <1>1. IInv => TypeOK
    BY DEF IInv
  <1> QED BY ConnectionInvariant, <1>1, PTL

\* Disconnect and ConnectBackground leave nothing behind, for every capacity and all bounds:
\* StopReceiveLoops has joined every goroutine before it takes the handles away.
THEOREM DisconnectJoins == Spec => []NothingRunsAfterDisconnect
  <1>1. IInv => NothingRunsAfterDisconnect
    BY DEF IInv, Joined, NothingRunsAfterDisconnect, Ended
  <1> QED BY ConnectionInvariant, <1>1, PTL
=============================================================================

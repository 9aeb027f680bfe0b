----------------------------- MODULE Connection -----------------------------
(***************************************************************************)
(* The connection of one login: both websockets as far as their statuses   *)
(* go (pkg/signalmeow/web/signalwebsocket.go), the goroutines of           *)
(* StartReceiveLoops and StopReceiveLoops (pkg/signalmeow/receiving.go),   *)
(* the end of keyCheckLoop (keys.go), and the bridge client that turns the *)
(* statuses into the bridge state the user sees                            *)
(* (pkg/connector/client.go).                                              *)
(*                                                                         *)
(* A goroutine that is not there is "off". The bridge calls Connect and    *)
(* Disconnect in turn, and Connect only when the goroutines of the         *)
(* connection before are gone.                                             *)
(***************************************************************************)
EXTENDS Naturals, Sequences

CONSTANTS Cap,        \* capacity of statusChan: 128
          MaxStarts,  \* calls of Connect and ConnectBackground
          MaxFaults   \* connections lost, attempts to connect that fail, refused prekeys

ASSUME CapPositive == Cap \in Nat \ {0}
ASSUME BoundsAreNumbers == MaxStarts \in Nat /\ MaxFaults \in Nat

VARIABLES
  user,       \* what the bridge has asked for
  stop,       \* calls of StopReceiveLoops
  ws,         \* the websockets: what connectLoop does, and its latest status
  handle,     \* AuthedWS and UnauthedWS are set
  closing,    \* websockets that were told to close
  live,       \* loopCtx is not cancelled
  merger,     \* the goroutine that combines the statuses
  last,       \* lastAuthStatus and lastUnauthStatus
  lastStatus, \* Client.lastConnectionStatus
  chan,       \* statusChan
  loop,       \* bridgeStateLoop
  init,       \* the goroutine that waits for the initial connect
  keys,       \* keyCheckLoop
  password,   \* the device has a password
  accepted,   \* the server accepts the password of the websockets
  state,      \* the bridge state sent last
  current,    \* a status was sent since the last Connect
  missed,     \* a websocket gave up on a status since the last Connect
  starts, faults

conn == <<ws, handle, closing, live>>
status == <<merger, last, lastStatus, chan>>
creds == <<password, accepted>>
bridge == <<loop, state>>
ghosts == <<current, missed>>
vars == <<user, stop, conn, status, bridge, init, keys, creds, ghosts, starts, faults>>

Sides == {"auth", "unauth"}

\* The events of websockets. "denied" is a fatal error with status 401.
Events == {"connected", "disconnected", "loggedOut", "error", "fatal", "denied", "clean"}

\* Who may be in StopReceiveLoops.
Stoppers == {"user", "loop", "keys"}

Kind(e) == IF e = "denied" THEN "fatal" ELSE e

At(place) == [at |-> place, ev |-> "none"]

Init ==
  /\ user = "off"
  /\ stop = [a \in Stoppers |-> "none"]
  /\ ws = [w \in Sides |-> At("off")]
  /\ handle = FALSE /\ closing = {} /\ live = FALSE
  /\ merger = At("off")
  /\ last = [w \in Sides |-> "none"]
  /\ lastStatus = "none"
  /\ chan = <<>>
  /\ loop = "off" /\ init = "off" /\ keys = "off"
  /\ password = TRUE /\ accepted = TRUE
  /\ state = "none"
  /\ current = FALSE /\ missed = FALSE
  /\ starts = 0 /\ faults = 0

Fault == faults < MaxFaults /\ faults' = faults + 1

----------------------------------------------------------------------------
(* The websockets.                                                         *)

Cancelled(w) == w \in closing \/ ~live

Push(w, e) == ws' = [ws EXCEPT ![w] = [at |-> "push", ev |-> e]]

\* Where connectLoop goes on once a status is delivered or given up.
After(e) == CASE e = "connected" -> "up"
              [] e \in {"loggedOut", "fatal", "denied"} -> "ended"
              [] OTHER -> "dial"

Pushed(w) == [ws EXCEPT ![w] = At(After(ws[w].ev))]

\* The device was unlinked, or there was no password to connect with.
Refused(w) == w = "auth" /\ ~accepted

Dial(w) ==
  /\ ws[w].at = "dial"
  /\ \/ /\ Cancelled(w)
        /\ ws' = [ws EXCEPT ![w] = At("ended")]
        /\ UNCHANGED faults
     \/ /\ ~Cancelled(w) /\ Refused(w)
        /\ \E e \in {"loggedOut", "denied"} : Push(w, e)
        /\ UNCHANGED faults
     \/ /\ ~Cancelled(w) /\ ~Refused(w)
        /\ Push(w, "connected")
        /\ UNCHANGED faults
     \/ /\ ~Cancelled(w) /\ Fault
        /\ \E e \in {"disconnected", "error", "fatal"} : Push(w, e)
  /\ UNCHANGED <<user, stop, handle, closing, live, status, bridge, init, keys, creds, ghosts, starts>>

\* The connection is lost or ForceReconnect is called.
ConnectionLost(w) ==
  /\ ws[w].at = "up"
  /\ Fault
  /\ Push(w, "disconnected")
  /\ UNCHANGED <<user, stop, handle, closing, live, status, bridge, init, keys, creds, ghosts, starts>>

\* Close or the context ends the connection; the cause is what ends first.
ConnectionClosed(w) ==
  /\ ws[w].at = "up"
  /\ Cancelled(w)
  /\ \E e \in {"clean", "disconnected"} : Push(w, e)
  /\ UNCHANGED <<user, stop, handle, closing, live, status, bridge, init, keys, creds, ghosts, starts, faults>>

\* pushStatus: nobody takes the status, and the context is cancelled or five seconds have
\* passed, which happens while the goroutine that combines the statuses waits for statusChan.
GiveUpStatus(w) ==
  /\ ws[w].at = "push"
  /\ \/ Cancelled(w) /\ UNCHANGED missed
     \/ merger.at = "send" /\ Len(chan) = Cap /\ missed' = TRUE
  /\ ws' = Pushed(w)
  /\ UNCHANGED <<user, stop, handle, closing, live, status, bridge, init, keys, creds, current, starts, faults>>

Websocket(w) == Dial(w) \/ ConnectionClosed(w) \/ GiveUpStatus(w)

----------------------------------------------------------------------------
(* StartReceiveLoops: the goroutines.                                      *)

\* What is sent to statusChan after a status e of one websocket.
CombinedEither(now, e) ==
  IF \E w \in Sides : now[w] = "connected" THEN "connected"
  ELSE IF e = "connected" THEN "none" ELSE e

Combined(now, e) ==
  IF \A w \in Sides : now[w] = "connected" THEN "connected"
  ELSE IF e = "connected" THEN "none" ELSE e

Receive(w) ==
  LET e == ws[w].ev
      now == [last EXCEPT ![w] = e]
      s == Combined(now, e)
  IN
  /\ merger.at = "select"
  /\ ws[w].at = "push"
  /\ ws' = Pushed(w)
  /\ last' = now
  /\ merger' = IF s # "none" /\ Kind(s) # Kind(lastStatus)
               THEN [at |-> "send", ev |-> s] ELSE merger
  /\ init' = IF s = "connected" /\ init = "wait" THEN "register" ELSE init
  /\ UNCHANGED <<user, stop, handle, closing, live, lastStatus, chan, bridge, keys, creds, ghosts, starts, faults>>

\* connectLoop has closed its channel: from now on an empty status is received.
ReceiveClosed(w) ==
  /\ merger.at = "select"
  /\ ws[w].at = "ended" /\ last[w] # "none"
  /\ last' = [last EXCEPT ![w] = "none"]
  /\ UNCHANGED <<user, stop, conn, merger, lastStatus, chan, bridge, init, keys, creds, ghosts, starts, faults>>

Send ==
  /\ merger.at = "send"
  /\ Len(chan) < Cap
  /\ chan' = Append(chan, merger.ev)
  /\ lastStatus' = merger.ev
  /\ merger' = At("select")
  /\ current' = TRUE
  /\ UNCHANGED <<user, stop, conn, last, bridge, init, keys, creds, missed, starts, faults>>

\* The context is cancelled; statusChan is closed.
MergerStopsSelecting ==
  /\ merger.at = "select"
  /\ ~live
  /\ merger' = At("off")
  /\ last' = [w \in Sides |-> "none"]
  /\ UNCHANGED <<user, stop, conn, lastStatus, chan, bridge, init, keys, creds, ghosts, starts, faults>>

MergerStops ==
  /\ merger.at \in {"select", "send"}
  /\ ~live
  /\ merger' = At("off")
  /\ last' = [w \in Sides |-> "none"]
  /\ UNCHANGED <<user, stop, conn, lastStatus, chan, bridge, init, keys, creds, ghosts, starts, faults>>

\* The goroutine of the initial connect registers the capabilities and starts keyCheckLoop.
InitialConnect ==
  /\ \/ init = "wait" /\ ~live /\ UNCHANGED keys
     \/ init = "register" /\ keys' \in {"wait"} \cup (IF live THEN {} ELSE {keys})
  /\ init' = "off"
  /\ UNCHANGED <<user, stop, conn, status, bridge, creds, ghosts, starts, faults>>

Goroutines == (\E w \in Sides : Receive(w) \/ ReceiveClosed(w)) \/ Send \/ MergerStops \/ InitialConnect

----------------------------------------------------------------------------
(* StopReceiveLoops.                                                       *)

CallStop(a) ==
  /\ stop' = [stop EXCEPT ![a] = "auth"]
  /\ closing' = IF handle THEN closing \cup {"auth"} ELSE closing

AuthClosed(a) ==
  /\ stop[a] = "auth"
  /\ ~handle \/ ws["auth"].at = "ended"
  /\ stop' = [stop EXCEPT ![a] = "unauth"]
  /\ closing' = IF handle THEN closing \cup {"unauth"} ELSE closing
  /\ UNCHANGED <<user, ws, handle, live, status, bridge, init, keys, creds, ghosts, starts, faults>>

UnauthClosed(a) ==
  /\ stop[a] = "unauth"
  /\ ~handle \/ ws["unauth"].at = "ended"
  /\ stop' = [stop EXCEPT ![a] = "wait"]
  /\ live' = FALSE
  /\ UNCHANGED <<user, ws, handle, closing, status, bridge, init, keys, creds, ghosts, starts, faults>>

\* loopWg.Wait has returned. keyCheckLoop then tells the bridge that it is logged out.
StopReturnsEarly(a) ==
  /\ stop[a] = "wait"
  /\ stop' = [stop EXCEPT ![a] = "none"]
  /\ handle' = FALSE
  /\ user' = IF a = "user" THEN "off" ELSE user
  /\ loop' = IF a = "loop" THEN "read" ELSE loop
  /\ keys' = IF a = "keys" THEN "off" ELSE keys
  /\ state' = IF a = "keys" THEN "badCredentials" ELSE state
  /\ UNCHANGED <<ws, closing, live, status, init, creds, ghosts, starts, faults>>

StopReturns(a) ==
  /\ stop[a] = "wait"
  /\ merger.at = "off" /\ init = "off"
  /\ stop' = [stop EXCEPT ![a] = "none"]
  /\ handle' = FALSE
  /\ user' = IF a = "user" THEN "off" ELSE user
  /\ loop' = IF a = "loop" THEN "read" ELSE loop
  /\ keys' = IF a = "keys" THEN "off" ELSE keys
  /\ state' = IF a = "keys" THEN "badCredentials" ELSE state
  /\ UNCHANGED <<ws, closing, live, status, init, creds, ghosts, starts, faults>>

Stopping == \E a \in Stoppers : AuthClosed(a) \/ UnauthClosed(a) \/ StopReturns(a)

\* ClearKeysAndDisconnect.
ClearKeysAndDisconnect(a) ==
  /\ password' = FALSE
  /\ CallStop(a)
  /\ UNCHANGED accepted

\* keyCheckLoop ends with the context, or when the server refuses the prekeys of the PNI (422).
KeyCheck ==
  /\ keys = "wait"
  /\ \/ /\ ~live
        /\ keys' = "off"
        /\ UNCHANGED <<stop, closing, creds, faults>>
     \/ /\ Fault
        /\ ws["auth"].at = "up"
        /\ keys' = "stop"
        /\ ClearKeysAndDisconnect("keys")
  /\ UNCHANGED <<user, ws, handle, live, status, bridge, init, ghosts, starts>>

----------------------------------------------------------------------------
(* The bridge client.                                                      *)

Quiet == loop = "off" /\ keys = "off" /\ \A a \in Stoppers : stop[a] = "none"

\* Both websockets are made and start to connect.
Open ==
  /\ handle' = TRUE /\ closing' = {} /\ live' = TRUE
  /\ ws' = [w \in Sides |-> At("dial")]
  /\ accepted' = (accepted /\ password)
  /\ UNCHANGED password

\* tryConnect; it tries again when the gRPC client cannot be made.
Connect ==
  /\ Quiet
  /\ \/ user = "off" /\ starts < MaxStarts /\ starts' = starts + 1
     \/ user = "retry" /\ UNCHANGED starts
  /\ \/ /\ Open
        /\ user' = "on"
        /\ merger' = At("select")
        /\ last' = [w \in Sides |-> "none"]
        /\ chan' = <<>>
        /\ loop' = "read" /\ init' = "wait"
        /\ state' = IF user = "off" THEN "connecting" ELSE state
        /\ current' = FALSE /\ missed' = FALSE
        /\ UNCHANGED faults
     \/ /\ Fault
        /\ user' = "retry"
        /\ state' = "transient"
        /\ UNCHANGED <<conn, merger, last, chan, loop, init, creds, ghosts>>
  /\ UNCHANGED <<stop, lastStatus, keys>>

\* The context of tryConnect is cancelled while it waits.
RetryCancelled ==
  /\ user = "retry"
  /\ user' = "off"
  /\ UNCHANGED <<stop, conn, status, bridge, init, keys, creds, ghosts, starts, faults>>

\* Disconnect, or LogoutRemote if the device is unlinked first.
Disconnect ==
  /\ user = "on"
  /\ user' = "stop"
  /\ accepted' \in {accepted, FALSE}
  /\ CallStop("user")
  /\ UNCHANGED <<password, ws, handle, live, status, loop, state, init, keys, ghosts, starts, faults>>

\* What bridgeStateLoop does with a status; a disconnect is not reported yet.
Reported(e) == CASE e = "connected" -> "connected"
                 [] e = "error" -> "transient"
                 [] e = "fatal" -> "unknownError"
                 [] e \in {"loggedOut", "denied"} -> "badCredentials"
                 [] e = "clean" /\ ~password -> "badCredentials"
                 [] OTHER -> state

\* It reads the next status, whether or not it waits for the end of a short disconnect.
ReadStatusForgetful ==
  LET e == Head(chan) IN
  /\ loop \in {"read", "peek"}
  /\ chan # <<>>
  /\ chan' = Tail(chan)
  /\ state' = IF loop = "peek" THEN state ELSE Reported(e)
  /\ IF e = "loggedOut"
     THEN loop' = "stop" /\ ClearKeysAndDisconnect("loop")
     ELSE loop' = (IF e = "disconnected" THEN "peek" ELSE "read") /\ UNCHANGED <<stop, closing, creds>>
  /\ UNCHANGED <<user, ws, handle, live, merger, last, lastStatus, init, keys, ghosts, starts, faults>>

ReadStatus ==
  LET e == Head(chan) IN
  /\ loop \in {"read", "peek"}
  /\ chan # <<>>
  /\ chan' = Tail(chan)
  /\ state' = Reported(e)
  /\ IF e = "loggedOut"
     THEN loop' = "stop" /\ ClearKeysAndDisconnect("loop")
     ELSE loop' = (IF e = "disconnected" THEN "peek" ELSE "read") /\ UNCHANGED <<stop, closing, creds>>
  /\ UNCHANGED <<user, ws, handle, live, merger, last, lastStatus, init, keys, ghosts, starts, faults>>

\* Seven seconds have passed since the disconnect.
DebounceEnds ==
  /\ loop = "peek"
  /\ loop' = "read"
  /\ state' = "transient"
  /\ UNCHANGED <<user, stop, conn, status, init, keys, creds, ghosts, starts, faults>>

\* statusChan is closed.
LoopEnds ==
  /\ loop \in {"read", "peek"}
  /\ chan = <<>> /\ merger.at = "off"
  /\ loop' = "off"
  /\ UNCHANGED <<user, stop, conn, status, state, init, keys, creds, ghosts, starts, faults>>

BridgeStateLoop == ReadStatus \/ DebounceEnds \/ LoopEnds

\* ConnectBackground: the websockets without the goroutines, until the queue is empty, the
\* time is up or the authed websocket reports an error.
ConnectBackground ==
  /\ Quiet
  /\ user = "off" /\ starts < MaxStarts
  /\ Open
  /\ user' = "background"
  /\ starts' = starts + 1
  /\ UNCHANGED <<stop, status, bridge, init, keys, ghosts, faults>>

BackgroundEnds ==
  /\ user' = "stop"
  /\ CallStop("user")

BackgroundReceive(w) ==
  LET e == ws[w].ev IN
  /\ user = "background"
  /\ ws[w].at = "push"
  /\ ws' = Pushed(w)
  /\ state' = IF w = "auth" /\ e \in {"loggedOut", "denied"} THEN "badCredentials" ELSE state
  /\ IF w = "auth" /\ e \in {"loggedOut", "denied", "error", "fatal"}
     THEN BackgroundEnds
     ELSE UNCHANGED <<user, stop, closing>>
  /\ UNCHANGED <<handle, live, status, loop, init, keys, creds, ghosts, starts, faults>>

BackgroundDone ==
  /\ user = "background"
  /\ BackgroundEnds
  /\ UNCHANGED <<ws, handle, live, status, loop, state, init, keys, creds, ghosts, starts, faults>>

\* The device is unlinked on another device.
Unlinked ==
  /\ accepted
  /\ Fault
  /\ accepted' = FALSE
  /\ UNCHANGED <<password, user, stop, conn, status, bridge, init, keys, ghosts, starts>>

----------------------------------------------------------------------------
Internal ==
  \/ \E w \in Sides : Websocket(w) \/ BackgroundReceive(w)
  \/ Goroutines \/ Stopping \/ KeyCheck \/ BridgeStateLoop

Next ==
  \/ Internal
  \/ \E w \in Sides : ConnectionLost(w)
  \/ Connect \/ RetryCancelled \/ Disconnect
  \/ ConnectBackground \/ BackgroundDone \/ Unlinked

(***************************************************************************)
(* Goroutines that can go on do, requests to connect are answered, and     *)
(* timers end. Nothing is assumed of the bridge, and of the network only   *)
(* that it fails a bounded number of times.                                *)
(***************************************************************************)
Fairness == WF_vars(Internal)

Spec == Init /\ [][Next]_vars /\ Fairness

----------------------------------------------------------------------------
(* Properties.                                                             *)

TypeOK ==
  /\ user \in {"off", "retry", "on", "background", "stop"}
  /\ stop \in [Stoppers -> {"none", "auth", "unauth", "wait"}]
  /\ ws \in [Sides -> [at : {"off", "dial", "push", "up", "ended"}, ev : Events \cup {"none"}]]
  /\ handle \in BOOLEAN /\ closing \subseteq Sides /\ live \in BOOLEAN
  /\ merger \in [at : {"off", "select"}, ev : {"none"}] \cup [at : {"send"}, ev : Events]
  /\ last \in [Sides -> Events \cup {"none"}]
  /\ lastStatus \in Events \cup {"none"}
  /\ chan \in Seq(Events) /\ Len(chan) <= Cap
  /\ loop \in {"off", "read", "peek", "stop"}
  /\ init \in {"off", "wait", "register"}
  /\ keys \in {"off", "wait", "stop"}
  /\ password \in BOOLEAN /\ accepted \in BOOLEAN
  /\ state \in {"none", "connecting", "connected", "transient", "unknownError", "badCredentials"}
  /\ current \in BOOLEAN /\ missed \in BOOLEAN
  /\ starts \in 0..MaxStarts /\ faults \in 0..MaxFaults

\* When Disconnect or ConnectBackground has returned, connectLoop and the goroutines of
\* StartReceiveLoops are gone, whoever else was stopping them at the time.
NothingRunsAfterDisconnect ==
  user = "off" => /\ \A w \in Sides : ws[w].at \in {"off", "ended"}
                  /\ merger.at = "off" /\ init = "off" /\ ~handle

\* Every call of StopReceiveLoops returns: also the one bridgeStateLoop makes, which nobody
\* reads statusChan for meanwhile.
StopsReturn == \A a \in Stoppers : (stop[a] # "none") ~> (stop[a] = "none")

Up == user = "on" /\ \A w \in Sides : ws[w].at = "up"

\* The exceptions of the properties below: lastConnectionStatus outlives the connection, so a
\* first status equal to the last one of the connection before is not sent; and a websocket
\* drops a status that is not taken for five seconds.
Unreported == ~current \/ missed

\* When both websockets stay connected, the user is told so, however the statuses, the
\* debouncing and the calls of other goroutines interleave.
ConnectedIsReported == <>[]Up => <>[](state = "connected" \/ Unreported)

\* When the server refuses the device, the user is asked to log in again; or has been told of a
\* fatal error of the other websocket, since statuses are compared without their cause. (After
\* a 401 the unauthed websocket goes on, and what it reports later replaces this state.)
LogoutIsReported ==
  (user = "on" /\ ws["auth"].at = "push" /\ ws["auth"].ev \in {"loggedOut", "denied"})
    ~> (state \in {"badCredentials", "unknownError"} \/ user # "on" \/ Unreported)
=============================================================================

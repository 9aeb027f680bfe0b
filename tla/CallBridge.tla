---------------------------- MODULE CallBridge ----------------------------
(***************************************************************************)
(* The bridge between Signal calls and Matrix VoIP calls                   *)
(* (pkg/connector/callbridging.go).                                        *)
(*                                                                         *)
(* A session is what one startIncoming or startOutgoing goroutine makes.   *)
(* Four kinds of goroutine work on a session; a step between two accesses  *)
(* to shared state is an action:                                           *)
(*   at       the goroutine that sets the session up;                      *)
(*   ans      the one that answers it: answerIncoming, or the Signal       *)
(*            handler itself, which runs handleRemoteAnswer to its end;    *)
(*   stage    whoever won endOnce and runs the body of end;                *)
(*   timer    the AfterFunc of the invite lifetime.                        *)
(***************************************************************************)
EXTENDS Naturals, FiniteSets

CONSTANTS In,       \* sessions an offer from Signal may create
          Out,      \* sessions a Matrix invite may create
          Devices,  \* device IDs of the peers
          Caller,   \* the device an offer comes from
          None

ASSUME SessionsDisjoint == In \cap Out = {}
ASSUME CallerIsDevice == Caller \in Devices
ASSUME NoneIsNothing == None \notin In \cup Out \cup Devices

Sessions == In \cup Out

VARIABLES sess,     \* signalCallSession, one record per session
          active,   \* signalCallBridge.active
          handler   \* the session whose answer the Signal handler works on

vars == <<sess, active, handler>>

\* signalCallEnd. The three ways a peer ends a call differ in what Matrix is told only.
Ends == {"Remote", "LocalDecline", "Timeout", "Failed", "BridgeShutdown"}

Session ==
  [at : {"idle", "start", "create", "leg", "gather", "invite", "relays", "signalLeg",
         "offer", "candidates", "timer", "done"},
   ans : {"no", "spawned", "relays", "leg", "add", "send", "connect", "answerMatrix",
          "live", "failed"},
   source : Devices \cup {None},          \* sourceDevice, None for 0
   mxLeg : {"nil", "open", "closed"},
   sigLeg : {"nil", "open", "closed"},
   pending : SUBSET Devices,              \* pendingICE, by sending device
   taken : SUBSET Devices,                \* what the answering goroutine took of it
   added : SUBSET Devices,                \* candidates the leg was given
   stage : {"no", "send", "cancel", "close", "release", "done"},
   reason : Ends \cup {None},
   notify : BOOLEAN,                      \* end's notifySignal
   ctxDone : BOOLEAN,                     \* ctx.Err() # nil
   timer : BOOLEAN,
   rung : BOOLEAN,                        \* the invite went out to Matrix
   offered : {"no", "yes", "afterEnd"}]   \* the offer went out to Signal

TypeOK ==
  /\ sess \in [Sessions -> Session]
  /\ active \in Sessions \cup {None}
  /\ handler \in Out \cup {None}

NewSession ==
  [at |-> "idle", ans |-> "no", source |-> None,
   mxLeg |-> "nil", sigLeg |-> "nil", pending |-> {}, taken |-> {}, added |-> {},
   stage |-> "no", reason |-> None, notify |-> FALSE,
   ctxDone |-> FALSE, timer |-> FALSE, rung |-> FALSE, offered |-> "no"]

Init ==
  /\ sess = [s \in Sessions |-> NewSession]
  /\ active = None
  /\ handler = None

Put(s, r) == sess' = [sess EXCEPT ![s] = r]

\* end: endOnce lets the first caller in; for any other it does nothing.
End(r, why, tell) ==
  IF r.stage = "no"
  THEN [r EXCEPT !.stage = "send", !.reason = why, !.notify = tell]
  ELSE r

----------------------------------------------------------------------------
(* Setting a session up.                                                   *)

\* handleSignalCall: an offer that call bridging takes on is handed to a new goroutine.
HandleOffer(s) ==
  /\ handler = None
  /\ s \in In /\ sess[s].at = "idle"
  /\ Put(s, [sess[s] EXCEPT !.at = "start", !.source = Caller])
  /\ UNCHANGED <<active, handler>>

\* startIncoming up to the first unlock: a call is already active. Unless it is this
\* very call, Busy is sent.
CheckActive(s) ==
  /\ s \in In /\ sess[s].at = "start"
  /\ Put(s, [sess[s] EXCEPT !.at = IF active = None THEN "create" ELSE "done"])
  /\ UNCHANGED <<active, handler>>

\* Broken variant: active is not looked at again.
CreateIncomingUnchecked(s) ==
  /\ s \in In /\ sess[s].at = "create"
  /\ \/ /\ Put(s, [sess[s] EXCEPT !.at = "done"])
        /\ UNCHANGED active
     \/ /\ active' = s
        /\ Put(s, [sess[s] EXCEPT !.at = "leg"])
  /\ UNCHANGED <<handler>>

\* startIncoming: the portal, the ghost or a codec is missing, or a call became active
\* meanwhile (Busy is sent), or the session becomes the active one.
CreateIncoming(s) ==
  /\ s \in In /\ sess[s].at = "create"
  /\ \/ /\ Put(s, [sess[s] EXCEPT !.at = "done"])
        /\ UNCHANGED active
     \/ /\ active = None
        /\ active' = s
        /\ Put(s, [sess[s] EXCEPT !.at = "leg"])
  /\ UNCHANGED <<handler>>

\* Broken variant: the context is not looked at.
RingMatrixUnchecked(s) ==
  /\ s \in In /\ sess[s].at = "leg"
  /\ \/ Put(s, End([sess[s] EXCEPT !.at = "done"], "Failed", TRUE))
     \/ Put(s, [sess[s] EXCEPT !.at = "gather", !.mxLeg = "open"])
  /\ UNCHANGED <<active, handler>>

\* ringMatrix: the Matrix leg is made; if the session ended meanwhile it is closed again.
RingMatrix(s) ==
  /\ s \in In /\ sess[s].at = "leg"
  /\ \/ Put(s, End([sess[s] EXCEPT !.at = "done"], "Failed", TRUE))
     \/ /\ ~sess[s].ctxDone
        /\ Put(s, [sess[s] EXCEPT !.at = "gather", !.mxLeg = "open"])
  /\ UNCHANGED <<active, handler>>

\* ringMatrix: CreateOffer and WaitGathering.
GatherMatrix(s) ==
  /\ s \in In /\ sess[s].at = "gather"
  /\ \/ Put(s, End([sess[s] EXCEPT !.at = "done", !.mxLeg = "closed"], "Failed", TRUE))
     \/ /\ sess[s].ctxDone
        /\ Put(s, [sess[s] EXCEPT !.at = "done"])
     \/ /\ ~sess[s].ctxDone
        /\ Put(s, [sess[s] EXCEPT !.at = "invite"])
  /\ UNCHANGED <<active, handler>>

\* ringMatrix: the invite is sent under the session's context.
SendInvite(s) ==
  /\ s \in In /\ sess[s].at = "invite"
  /\ \/ Put(s, End([sess[s] EXCEPT !.at = "done"], "Failed", TRUE))
     \/ /\ ~sess[s].ctxDone
        /\ Put(s, [sess[s] EXCEPT !.at = "timer", !.rung = TRUE])
  /\ UNCHANGED <<active, handler>>

\* Broken variant: only calls that nobody has answered yet get a timer.
SetTimerUnanswered(s) ==
  /\ sess[s].at = "timer"
  /\ Put(s, [sess[s] EXCEPT !.at = "done", !.timer = ~sess[s].ctxDone /\ sess[s].ans = "no"])
  /\ UNCHANGED <<active, handler>>

\* startIncoming, startOutgoing: AfterFunc. It does nothing once the context is done, so
\* the timer is no longer kept then.
SetTimer(s) ==
  /\ sess[s].at = "timer"
  /\ Put(s, [sess[s] EXCEPT !.at = "done", !.timer = ~sess[s].ctxDone])
  /\ UNCHANGED <<active, handler>>

\* handleMatrixEvent starts a goroutine for a Matrix invite; startOutgoing up to the unlock:
\* the invite is no direct call, or is rejected as busy, or its session becomes the active one.
HandleInvite(s) ==
  /\ s \in Out /\ sess[s].at = "idle"
  /\ \/ /\ Put(s, [sess[s] EXCEPT !.at = "done"])
        /\ UNCHANGED active
     \/ /\ active = None
        /\ active' = s
        /\ Put(s, [sess[s] EXCEPT !.at = "leg"])
  /\ UNCHANGED handler

\* startOutgoing: the Matrix leg. Here the context is not looked at.
MakeMatrixLeg(s) ==
  /\ s \in Out /\ sess[s].at = "leg"
  /\ \/ Put(s, End([sess[s] EXCEPT !.at = "done"], "Failed", FALSE))
     \/ Put(s, [sess[s] EXCEPT !.at = "gather", !.mxLeg = "open"])
  /\ UNCHANGED <<active, handler>>

\* startOutgoing: AnswerOffer and WaitGathering.
AnswerMatrixOffer(s) ==
  /\ s \in Out /\ sess[s].at = "gather"
  /\ \/ Put(s, End([sess[s] EXCEPT !.at = "done"], "Failed", FALSE))
     \/ /\ sess[s].ctxDone
        /\ Put(s, [sess[s] EXCEPT !.at = "done"])
     \/ /\ ~sess[s].ctxDone
        /\ Put(s, [sess[s] EXCEPT !.at = "relays"])
  /\ UNCHANGED <<active, handler>>

\* startOutgoing: relays and identity keys are fetched under the session's context.
FetchRelays(s) ==
  /\ s \in Out /\ sess[s].at = "relays"
  /\ \/ Put(s, End([sess[s] EXCEPT !.at = "done"], "Failed", FALSE))
     \/ /\ ~sess[s].ctxDone
        /\ Put(s, [sess[s] EXCEPT !.at = "signalLeg"])
  /\ UNCHANGED <<active, handler>>

\* startOutgoing: the Signal leg. Here the context is not looked at.
MakeSignalLeg(s) ==
  /\ s \in Out /\ sess[s].at = "signalLeg"
  /\ \/ Put(s, End([sess[s] EXCEPT !.at = "done"], "Failed", FALSE))
     \/ Put(s, [sess[s] EXCEPT !.at = "offer", !.sigLeg = "open"])
  /\ UNCHANGED <<active, handler>>

\* startOutgoing: the offer is sent under the session's context.
SendOffer(s) ==
  /\ s \in Out /\ sess[s].at = "offer"
  /\ \/ Put(s, End([sess[s] EXCEPT !.at = "done"], "Failed", FALSE))
     \/ /\ ~sess[s].ctxDone
        /\ Put(s, [sess[s] EXCEPT !.at = "candidates",
                    !.offered = IF sess[s].stage = "no" THEN "yes" ELSE "afterEnd"])
  /\ UNCHANGED <<active, handler>>

\* Broken variant: the peer is not told.
GatherOutgoingQuietly(s) ==
  /\ s \in Out /\ sess[s].at = "candidates"
  /\ \/ Put(s, End([sess[s] EXCEPT !.at = "done"], "Failed", FALSE))
     \/ /\ sess[s].sigLeg = "open"
        /\ Put(s, [sess[s] EXCEPT !.at = "timer"])
  /\ UNCHANGED <<active, handler>>

\* startOutgoing: GatherCandidates, which fails on a closed leg.
GatherOutgoing(s) ==
  /\ s \in Out /\ sess[s].at = "candidates"
  /\ \/ Put(s, End([sess[s] EXCEPT !.at = "done"], "Failed", TRUE))
     \/ /\ sess[s].sigLeg = "open"
        /\ Put(s, [sess[s] EXCEPT !.at = "timer"])
  /\ UNCHANGED <<active, handler>>

SetUp(s) ==
  \/ CheckActive(s)
  \/ CreateIncoming(s)
  \/ RingMatrix(s)
  \/ GatherMatrix(s)
  \/ SendInvite(s)
  \/ SetTimer(s)
  \/ MakeMatrixLeg(s)
  \/ AnswerMatrixOffer(s)
  \/ FetchRelays(s)
  \/ MakeSignalLeg(s)
  \/ SendOffer(s)
  \/ GatherOutgoing(s)

----------------------------------------------------------------------------
(* What Matrix and Signal tell a session.                                  *)

\* handleMatrixEvent: a hangup or reject, from a client that knows the Matrix call. That
\* of a call which is not the active one, or not yet, is dropped.
MatrixHangup(s) ==
  /\ active = s
  /\ s \in Out \/ sess[s].rung
  /\ sess[s].stage = "no"
  /\ Put(s, End(sess[s], "LocalDecline", TRUE))
  /\ UNCHANGED <<active, handler>>

\* handleMatrixEvent: an answer to the invite. Without an SDP it ends the call.
MatrixAnswer(s) ==
  /\ active = s
  /\ s \in In /\ sess[s].rung
  /\ \/ /\ sess[s].stage = "no"
        /\ Put(s, End(sess[s], "Failed", TRUE))
     \/ /\ sess[s].ans = "no"
        /\ Put(s, [sess[s] EXCEPT !.ans = "spawned"])
  /\ UNCHANGED <<active, handler>>

\* The peer takes part in the call: it has sent the offer, or was sent one.
PeerKnows(s) == s \in In \/ sess[s].offered # "no"

\* AddRemoteCandidate: a closed leg returns an error, which is logged.
Taking(s, candidates) == IF sess[s].sigLeg = "open" THEN candidates ELSE {}

\* handleRemoteICE: a candidate waits for the Signal leg and, in a call that the bridge
\* places, for the device that answers. Of a known device only its own are taken.
HandleRemoteICE(s, d) ==
  /\ handler = None
  /\ active = s
  /\ PeerKnows(s)
  /\ sess[s].source \in {None, d}
  /\ Put(s, IF sess[s].sigLeg = "nil" \/ sess[s].source = None
            THEN [sess[s] EXCEPT !.pending = @ \cup {d}]
            ELSE [sess[s] EXCEPT !.added = @ \cup Taking(s, {d})])
  /\ UNCHANGED <<active, handler>>

\* handleRemoteAnswer up to the unlock. From here on the handler works for s.
HandleRemoteAnswer(s, d) ==
  /\ handler = None
  /\ active = s
  /\ s \in Out /\ sess[s].offered # "no"
  /\ sess[s].ans = "no" /\ ~sess[s].ctxDone
  /\ Put(s, [sess[s] EXCEPT !.ans = "add", !.source = d,
                            !.taken = sess[s].pending, !.pending = {}])
  /\ handler' = s
  /\ UNCHANGED <<active>>

\* handleRemoteEnd: a hangup or busy from the peer.
HandleRemoteEnd(s) ==
  /\ handler = None
  /\ active = s
  /\ PeerKnows(s)
  /\ sess[s].stage = "no"
  /\ Put(s, End(sess[s], "Remote", FALSE))
  /\ UNCHANGED <<active, handler>>

\* stop: the login disconnects.
Stop(s) ==
  /\ active = s
  /\ sess[s].stage = "no"
  /\ Put(s, End(sess[s], "BridgeShutdown", FALSE))
  /\ UNCHANGED <<active, handler>>

\* The AfterFunc of startIncoming and of startOutgoing.
TimerFires(s) ==
  /\ sess[s].timer
  /\ Put(s, End([sess[s] EXCEPT !.timer = FALSE], "Timeout", TRUE))
  /\ UNCHANGED <<active, handler>>

----------------------------------------------------------------------------
(* Answering.                                                              *)

\* A failed answer ends the session. answerIncoming then returns; handleRemoteAnswer waits
\* in endOnce until the session has ended, and the handler with it.
Fail(s) == Put(s, End([sess[s] EXCEPT !.ans = "failed"], "Failed", TRUE))

\* answerIncoming up to the unlock.
AnswerIncoming(s) ==
  /\ s \in In /\ sess[s].ans = "spawned"
  /\ Put(s, IF sess[s].ctxDone
            THEN [sess[s] EXCEPT !.ans = "failed"]
            ELSE [sess[s] EXCEPT !.ans = "relays"])
  /\ UNCHANGED <<active, handler>>

\* answerIncoming: SetAnswer, the selection of the answer, relays and identity keys.
FetchAnswerRelays(s) ==
  /\ sess[s].ans = "relays"
  /\ \/ Fail(s)
     \/ /\ ~sess[s].ctxDone
        /\ Put(s, [sess[s] EXCEPT !.ans = "leg"])
  /\ UNCHANGED <<active, handler>>

\* answerIncoming: the Signal leg is made, set, and the waiting candidates are taken.
MakeAnswerLeg(s) ==
  /\ sess[s].ans = "leg"
  /\ \/ Fail(s)
     \/ Put(s, [sess[s] EXCEPT !.ans = "add", !.sigLeg = "open",
                               !.taken = sess[s].pending, !.pending = {}])
  /\ UNCHANGED <<active, handler>>

\* Broken variant: candidates of every device are added.
AddPendingOfAll(s) ==
  /\ sess[s].ans = "add"
  /\ \/ s \in Out /\ Fail(s)
     \/ Put(s, [sess[s] EXCEPT !.ans = IF s \in In THEN "send" ELSE "connect",
                               !.added = @ \cup Taking(s, sess[s].taken),
                               !.taken = {}])
  /\ UNCHANGED <<active, handler>>

\* Both: SetRemoteAnswer in a call the bridge places, then the candidates that were
\* waiting, of the source device only.
AddPending(s) ==
  /\ sess[s].ans = "add"
  /\ \/ s \in Out /\ Fail(s)
     \/ Put(s, [sess[s] EXCEPT !.ans = IF s \in In THEN "send" ELSE "connect",
                               !.added = @ \cup Taking(s, sess[s].taken \cap {sess[s].source}),
                               !.taken = {}])
  /\ UNCHANGED <<active, handler>>

\* answerIncoming: the answer is sent under the session's context; GatherCandidates.
SendAnswer(s) ==
  /\ sess[s].ans = "send"
  /\ \/ Fail(s)
     \/ /\ ~sess[s].ctxDone
        /\ Put(s, [sess[s] EXCEPT !.ans = "connect"])
  /\ UNCHANGED <<active, handler>>

\* Connect returns: for an incoming call the media relays start, for an outgoing one
\* WaitAccepted has returned as well.
Connected(s) ==
  /\ sess[s].ans = "connect"
  /\ ~sess[s].ctxDone
  /\ Put(s, [sess[s] EXCEPT !.ans = IF s \in In THEN "live" ELSE "answerMatrix"])
  /\ UNCHANGED <<active, handler>>

ConnectFails(s) ==
  /\ sess[s].ans = "connect"
  /\ Fail(s)
  /\ UNCHANGED <<active, handler>>

\* handleRemoteAnswer: the Matrix call is answered and the media relays start.
AnswerMatrix(s) ==
  /\ sess[s].ans = "answerMatrix"
  /\ \/ Fail(s) /\ UNCHANGED handler
     \/ /\ ~sess[s].ctxDone
        /\ Put(s, [sess[s] EXCEPT !.ans = "live"])
        /\ handler' = None
  /\ UNCHANGED <<active>>

\* handleRemoteAnswer: endOnce lets the handler go once the session has ended.
HandlerGoesOn(s) ==
  /\ handler = s
  /\ sess[s].ans = "failed" /\ sess[s].stage = "done"
  /\ handler' = None
  /\ UNCHANGED <<sess, active>>

\* A media relay, the acceptance heartbeat or a track of a connected call breaks.
RelayStops(s) ==
  /\ sess[s].ans = "live"
  /\ ~sess[s].ctxDone /\ sess[s].stage = "no"
  /\ Put(s, End(sess[s], "Failed", TRUE))
  /\ UNCHANGED <<active, handler>>

\* What the answering goroutine does by itself; a pending Connect returns when the
\* context is done.
Answer(s) ==
  \/ AnswerIncoming(s)
  \/ FetchAnswerRelays(s)
  \/ MakeAnswerLeg(s)
  \/ AddPending(s)
  \/ SendAnswer(s)
  \/ sess[s].ctxDone /\ ConnectFails(s)
  \/ AnswerMatrix(s)
  \/ HandlerGoesOn(s)

----------------------------------------------------------------------------
(* The body of end.                                                        *)

\* The hangups to Signal and to Matrix, under a context of their own; errors are logged.
\* The parameters of end are not used beyond them.
SendHangup(s) ==
  /\ sess[s].stage = "send"
  /\ Put(s, [sess[s] EXCEPT !.stage = "cancel", !.reason = None, !.notify = FALSE])
  /\ UNCHANGED <<active, handler>>

Cancel(s) ==
  /\ sess[s].stage = "cancel"
  /\ Put(s, [sess[s] EXCEPT !.stage = "close", !.ctxDone = TRUE, !.timer = FALSE])
  /\ UNCHANGED <<active, handler>>

Closed(leg) == IF leg = "nil" THEN "nil" ELSE "closed"

\* The legs are read under the lock and closed.
CloseLegs(s) ==
  /\ sess[s].stage = "close"
  /\ Put(s, [sess[s] EXCEPT !.stage = "release", !.mxLeg = Closed(@), !.sigLeg = Closed(@),
                            !.added = {}])
  /\ UNCHANGED <<active, handler>>

Release(s) ==
  /\ sess[s].stage = "release"
  /\ Put(s, [sess[s] EXCEPT !.stage = "done"])
  /\ active' = IF active = s THEN None ELSE active
  /\ UNCHANGED <<handler>>

EndStep(s) == SendHangup(s) \/ Cancel(s) \/ CloseLegs(s) \/ Release(s)

----------------------------------------------------------------------------
Next ==
  \/ \E s \in Sessions :
       \/ HandleOffer(s) \/ HandleInvite(s) \/ SetUp(s)
       \/ MatrixHangup(s) \/ MatrixAnswer(s) \/ HandleRemoteEnd(s) \/ Stop(s)
       \/ TimerFires(s)
       \/ Answer(s) \/ Connected(s) \/ ConnectFails(s) \/ RelayStops(s)
       \/ EndStep(s)
  \/ \E s \in Sessions, d \in Devices : HandleRemoteAnswer(s, d) \/ HandleRemoteICE(s, d)

(***************************************************************************)
(* Goroutines run, timers fire, and everything that waits under a context  *)
(* returns when it is cancelled or after its own time limit. Nothing is    *)
(* assumed of the peer: no offer, answer, hangup or media connection has   *)
(* to come.                                                                *)
(***************************************************************************)
Fairness ==
  \A s \in Sessions :
    WF_vars(SetUp(s)) /\ WF_vars(Answer(s)) /\ WF_vars(TimerFires(s)) /\ WF_vars(EndStep(s))

Spec == Init /\ [][Next]_vars /\ Fairness

----------------------------------------------------------------------------
(* Properties.                                                             *)

\* A session that has not ended and has a leg, on either side.
Engaged(s) == sess[s].stage # "done" /\ (sess[s].mxLeg # "nil" \/ sess[s].sigLeg # "nil")

\* One call at a time: the lock is released between startIncoming's two looks at active, while
\* other offers and Matrix invites come in, and still no two sessions ever have legs at once.
OneCallAtATime == \A s, t \in Sessions : Engaged(s) /\ Engaged(t) => s = t

\* end closes the Matrix leg of every incoming call, also when it runs while ringMatrix is
\* still making the leg: ringMatrix looks at the context under the lock that end takes after
\* cancelling it.
MatrixLegsClosed == \A s \in In : sess[s].stage = "done" => sess[s].mxLeg # "open"

\* A Signal leg gets candidates of the device it talks to and of no other, and once the leg and
\* that device are known none is left waiting, in whichever order offer, candidates, answers
\* and the making of the leg come.
CandidatesReachLeg ==
  \A s \in Sessions :
    /\ sess[s].added \subseteq {sess[s].source}
    /\ sess[s].sigLeg # "nil" /\ sess[s].source # None => sess[s].pending = {}

\* A peer who is calling, or whom an offer was sent to before the call ended, is sent a hangup
\* when it ends on this side: declined, timed out or failed.
PeerToldOfEnd ==
  \A s \in Sessions :
    /\ sess[s].stage = "send"
    /\ s \in In \/ sess[s].offered = "yes"
    /\ sess[s].reason \in {"LocalDecline", "Timeout", "Failed"}
    => sess[s].notify

\* The only call slot becomes free again, or the call gets connected: a call that nobody
\* answers, or whose answer never leads to a connection, does not block later ones for ever.
SlotFreed == \A s \in Sessions : active = s ~> active # s \/ sess[s].ans = "live"

\* The handler of all Signal messages, which runs handleRemoteAnswer itself, comes back from
\* every call: the timer ends a call that never connects.
HandlerReturns == handler # None ~> handler = None

\* "Nobody answered the Signal call in Matrix", "Signal peer didn't answer": a timer ends a call
\* that was not answered, never one whose media is flowing.
TimersSpareLiveCalls ==
  [][\A s \in Sessions :
       sess[s].ans = "live" /\ sess[s].stage = "no" => sess'[s].reason # "Timeout"]_vars
=============================================================================

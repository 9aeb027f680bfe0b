-------------------------- MODULE CallBridgeProofs --------------------------
(* Theorems about CallBridge, for any number of sessions and devices. *)
EXTENDS CallBridge, TLAPS

\* The set-up goroutine is past the point where its session became the active one.
Working(r) == r.at \in {"leg", "gather", "invite", "relays", "signalLeg", "offer", "candidates",
                        "timer"}

\* What holds of one session, whatever the others do.
SessionOK(s, r) ==
  /\ r.at = "idle" => r.sigLeg = "nil" /\ r.source = None /\ ~r.rung /\ r.added = {}
  /\ s \in In =>
       /\ r.at # "idle" => r.source = Caller
       /\ r.at \in {"gather", "invite", "timer"} \/ r.rung => r.mxLeg # "nil"
       /\ r.ans # "no" => r.rung
       /\ r.at \notin {"relays", "signalLeg", "offer", "candidates"}
  /\ s \in Out =>
       /\ r.at \in {"idle", "leg", "gather", "relays", "signalLeg", "offer"} => r.offered = "no"
       /\ r.offered = "no" => r.ans = "no"
       /\ r.ans = "no" => r.source = None
       /\ r.ans \notin {"spawned", "relays", "leg", "send"}
  /\ r.stage \in {"close", "release", "done"} => r.ctxDone
  /\ s \in In /\ r.stage \in {"release", "done"} => r.mxLeg # "open"
  /\ r.added \subseteq {r.source}
  /\ r.sigLeg # "nil" /\ r.source # None => r.pending = {}
  /\ r.stage = "send" /\ (s \in In \/ r.offered = "yes")
       /\ r.reason \in {"LocalDecline", "Timeout", "Failed"} => r.notify

\* Whoever has a leg, or is about to make one, and has not ended is the active session.
Owns(r) == r.stage # "done" /\ (Working(r) \/ r.mxLeg # "nil" \/ r.sigLeg # "nil")

Inv ==
  /\ TypeOK
  /\ \A s \in Sessions : SessionOK(s, sess[s])
  /\ \A s \in Sessions : Owns(sess[s]) => active = s

LEMMA InvInit == Init => Inv
<1> SUFFICES ASSUME Init PROVE Inv
  OBVIOUS
<1>1. \A s \in Sessions : sess[s] = NewSession
  BY DEF Init
<1>2. ASSUME NEW s \in Sessions
      PROVE  sess[s] \in Session /\ SessionOK(s, sess[s]) /\ ~Owns(sess[s])
  <2>1. sess[s] = NewSession
    BY <1>1
  <2> QED BY <2>1 DEF NewSession, Session, Ends, SessionOK, Owns, Working
<1>3. NewSession \in Session
  BY DEF NewSession, Session, Ends
<1>4. sess \in [Sessions -> Session]
  BY <1>3 DEF Init
<1> QED BY <1>2, <1>4 DEF Inv, TypeOK, Init

\* r is a right record for s, as the invariant wants it.
Right(s, r) == r \in Session /\ SessionOK(s, r) /\ (Owns(r) => active = s)

LEMMA RecordIsRight == ASSUME Inv, NEW s \in Sessions PROVE Right(s, sess[s])
<1>1. sess[s] \in Session
  BY DEF Inv, TypeOK
<1>2. SessionOK(s, sess[s]) /\ (Owns(sess[s]) => active = s)
  BY DEF Inv
<1> QED BY <1>1, <1>2 DEF Right

\* A step that replaces the record of s keeps the invariant if the new one is right and
\* no other session loses the place in active.
LEMMA PutKeeps ==
  ASSUME Inv, NEW s \in Sessions, NEW r, Put(s, r),
         r \in Session, SessionOK(s, r), Owns(r) => active' = s,
         \A t \in Sessions \ {s} : Owns(sess[t]) => active' = t,
         active' \in Sessions \cup {None}, handler' \in Out \cup {None}
  PROVE  Inv'
<1>1. sess' \in [Sessions -> Session] /\ sess'[s] = r /\ \A t \in Sessions \ {s} : sess'[t] = sess[t]
  BY DEF Put, Inv, TypeOK
<1>2. \A t \in Sessions : SessionOK(t, sess'[t]) /\ (Owns(sess'[t]) => active' = t)
  BY <1>1 DEF Inv
<1> QED BY <1>1, <1>2 DEF Inv, TypeOK, SessionOK, Owns, Working

LEMMA PutRight ==
  ASSUME Inv, NEW s \in Sessions, NEW r, Right(s, r), Put(s, r),
         active' = active, handler' \in Out \cup {None}
  PROVE  Inv'
BY PutKeeps DEF Inv, TypeOK, Right

\* A step that makes s the active session.
LEMMA PutActive ==
  ASSUME Inv, NEW s \in Sessions, NEW r, r \in Session, SessionOK(s, r), Put(s, r),
         active = None, active' = s, UNCHANGED handler
  PROVE  Inv'
<1>1. \A t \in Sessions : ~Owns(sess[t])
  BY NoneIsNothing DEF Inv, Sessions
<1> QED BY <1>1, PutKeeps DEF Inv, TypeOK

\* The peer has to be told of the end of s, with the record r, for the reason why.
MustTell(s, r, why) ==
  why \in {"LocalDecline", "Timeout", "Failed"} /\ (s \in In \/ r.offered = "yes")

\* end leaves a right record right.
LEMMA EndIsRight ==
  ASSUME NEW s \in Sessions, NEW r, Right(s, r), NEW why \in Ends, NEW tell \in BOOLEAN,
         MustTell(s, r, why) => tell
  PROVE  Right(s, End(r, why, tell))
<1>1. CASE r.stage # "no"
  BY <1>1 DEF End, Right
<1>2. CASE r.stage = "no"
  <2> DEFINE e == [r EXCEPT !.stage = "send", !.reason = why, !.notify = tell]
  <2>1. End(r, why, tell) = e
    BY <1>2 DEF End
  <2>2. e \in Session
    BY DEF Right, Session
  <2>3. SessionOK(s, e)
    BY DEF Right, Session, SessionOK, MustTell
  <2>4. Owns(e) => Owns(r)
    BY <1>2 DEF Right, Session, Owns, Working
  <2> QED BY <2>1, <2>2, <2>3, <2>4 DEF Right
<1> QED BY <1>1, <1>2 DEF Right, Session

LEMMA PutEnd ==
  ASSUME Inv, NEW s \in Sessions, NEW r, Right(s, r), NEW why \in Ends, NEW tell \in BOOLEAN,
         MustTell(s, r, why) => tell, Put(s, End(r, why, tell)), UNCHANGED <<active, handler>>
  PROVE  Inv'
<1>1. Right(s, End(r, why, tell))
  BY EndIsRight
<1>2. active' = active /\ handler' \in Out \cup {None}
  BY DEF Inv, TypeOK
<1> QED BY <1>1, <1>2, PutRight

-----------------------------------------------------------------------------
(* Every action keeps the invariant. *)

LEMMA HandleOfferKeeps == ASSUME Inv, NEW s \in Sessions, HandleOffer(s) PROVE Inv'
<1>1. Right(s, sess[s])
  BY RecordIsRight
<1>2. CASE Put(s, [sess[s] EXCEPT !.at = "start", !.source = Caller]) /\ UNCHANGED <<active, handler>>
  <2> DEFINE r == [sess[s] EXCEPT !.at = "start", !.source = Caller]
  <2>1. Right(s, r)
    <3>1. r \in Session
      <4>1. sess[s] \in Session
        BY <1>1 DEF Right
      <4> QED BY <4>1, CallerIsDevice DEF Session
    <3>2. SessionOK(s, r)
      BY <1>1, <1>2, SessionsDisjoint DEF HandleOffer, Right, Session, SessionOK
    <3>3. Owns(r) => Owns(sess[s])
      BY <1>1, <1>2 DEF HandleOffer, Right, Session, SessionOK, Owns, Working, Sessions
    <3> QED BY <1>1, <3>1, <3>2, <3>3 DEF Right
  <2> HIDE DEF r
  <2> QED BY <1>2, <2>1, PutRight DEF r, Inv, TypeOK
<1> QED BY <1>2 DEF HandleOffer

LEMMA CreateIncomingKeeps == ASSUME Inv, NEW s \in Sessions, CreateIncoming(s) PROVE Inv'
<1>1. Right(s, sess[s])
  BY RecordIsRight
<1>2. CASE Put(s, [sess[s] EXCEPT !.at = "done"]) /\ UNCHANGED <<active, handler>>
  <2> DEFINE r == [sess[s] EXCEPT !.at = "done"]
  <2>1. Right(s, r)
    BY <1>1, <1>2, SessionsDisjoint DEF CreateIncoming, Right, Session, SessionOK, Owns, Working
  <2> HIDE DEF r
  <2> QED BY <1>2, <2>1, PutRight DEF r, Inv, TypeOK
<1>3. CASE active = None /\ active' = s /\ Put(s, [sess[s] EXCEPT !.at = "leg"]) /\ UNCHANGED handler
  <2> DEFINE r == [sess[s] EXCEPT !.at = "leg"]
  <2>1. r \in Session
    BY <1>1 DEF Right, Session
  <2>2. SessionOK(s, r)
    BY <1>1, SessionsDisjoint DEF CreateIncoming, Right, Session, SessionOK
  <2> HIDE DEF r
  <2> QED BY <1>3, <2>1, <2>2, PutActive DEF r
<1> QED BY <1>2, <1>3 DEF CreateIncoming

LEMMA RingMatrixKeeps == ASSUME Inv, NEW s \in Sessions, RingMatrix(s) PROVE Inv'
<1>1. Right(s, sess[s])
  BY RecordIsRight
<1>2. CASE Put(s, End([sess[s] EXCEPT !.at = "done"], "Failed", TRUE)) /\ UNCHANGED <<active, handler>>
  <2> DEFINE r == [sess[s] EXCEPT !.at = "done"]
  <2>1. Right(s, r)
    BY <1>1, <1>2, SessionsDisjoint DEF RingMatrix, Right, Session, SessionOK, Owns, Working
  <2> HIDE DEF r
  <2> QED BY <1>2, <2>1, PutEnd DEF r, Ends
<1>3. CASE ~sess[s].ctxDone /\ Put(s, [sess[s] EXCEPT !.at = "gather", !.mxLeg = "open"]) /\ UNCHANGED <<active, handler>>
  <2> DEFINE r == [sess[s] EXCEPT !.at = "gather", !.mxLeg = "open"]
  <2>1. Right(s, r)
    <3>1. r \in Session
      <4>1. sess[s] \in Session
        BY <1>1 DEF Right
      <4> QED BY <4>1 DEF Session
    <3>2. SessionOK(s, r)
      BY <1>1, <1>3, SessionsDisjoint DEF RingMatrix, Right, Session, SessionOK
    <3>3. Owns(r) => Owns(sess[s])
      BY <1>1, <1>3 DEF RingMatrix, Right, Session, SessionOK, Owns, Working, Sessions
    <3> QED BY <1>1, <3>1, <3>2, <3>3 DEF Right
  <2> HIDE DEF r
  <2> QED BY <1>3, <2>1, PutRight DEF r, Inv, TypeOK
<1> QED BY <1>2, <1>3 DEF RingMatrix

LEMMA GatherMatrixKeeps == ASSUME Inv, NEW s \in Sessions, GatherMatrix(s) PROVE Inv'
<1>1. Right(s, sess[s])
  BY RecordIsRight
<1>2. CASE Put(s, End([sess[s] EXCEPT !.at = "done", !.mxLeg = "closed"], "Failed", TRUE)) /\ UNCHANGED <<active, handler>>
  <2> DEFINE r == [sess[s] EXCEPT !.at = "done", !.mxLeg = "closed"]
  <2>1. Right(s, r)
    <3>1. r \in Session
      <4>1. sess[s] \in Session
        BY <1>1 DEF Right
      <4> QED BY <4>1, ZenonT(90) DEF Session
    <3>2. SessionOK(s, r)
      BY <1>1, <1>2, SessionsDisjoint DEF GatherMatrix, Right, Session, SessionOK
    <3>3. Owns(r) => Owns(sess[s])
      BY <1>1, <1>2 DEF GatherMatrix, Right, Session, SessionOK, Owns, Working, Sessions
    <3> QED BY <1>1, <3>1, <3>2, <3>3 DEF Right
  <2> HIDE DEF r
  <2> QED BY <1>2, <2>1, PutEnd DEF r, Ends
<1>3. CASE Put(s, [sess[s] EXCEPT !.at = "done"]) /\ UNCHANGED <<active, handler>>
  <2> DEFINE r == [sess[s] EXCEPT !.at = "done"]
  <2>1. Right(s, r)
    BY <1>1, <1>3, SessionsDisjoint DEF GatherMatrix, Right, Session, SessionOK, Owns, Working
  <2> HIDE DEF r
  <2> QED BY <1>3, <2>1, PutRight DEF r, Inv, TypeOK
<1>4. CASE ~sess[s].ctxDone /\ Put(s, [sess[s] EXCEPT !.at = "invite"]) /\ UNCHANGED <<active, handler>>
  <2> DEFINE r == [sess[s] EXCEPT !.at = "invite"]
  <2>1. Right(s, r)
    BY <1>1, <1>4, SessionsDisjoint DEF GatherMatrix, Right, Session, SessionOK, Owns, Working
  <2> HIDE DEF r
  <2> QED BY <1>4, <2>1, PutRight DEF r, Inv, TypeOK
<1> QED BY <1>2, <1>3, <1>4 DEF GatherMatrix

LEMMA SendInviteKeeps == ASSUME Inv, NEW s \in Sessions, SendInvite(s) PROVE Inv'
<1>1. Right(s, sess[s])
  BY RecordIsRight
<1>2. CASE Put(s, End([sess[s] EXCEPT !.at = "done"], "Failed", TRUE)) /\ UNCHANGED <<active, handler>>
  <2> DEFINE r == [sess[s] EXCEPT !.at = "done"]
  <2>1. Right(s, r)
    BY <1>1, <1>2, SessionsDisjoint DEF SendInvite, Right, Session, SessionOK, Owns, Working
  <2> HIDE DEF r
  <2> QED BY <1>2, <2>1, PutEnd DEF r, Ends
<1>3. CASE ~sess[s].ctxDone /\ Put(s, [sess[s] EXCEPT !.at = "timer", !.rung = TRUE]) /\ UNCHANGED <<active, handler>>
  <2> DEFINE r == [sess[s] EXCEPT !.at = "timer", !.rung = TRUE]
  <2>1. Right(s, r)
    <3>1. r \in Session
      <4>1. sess[s] \in Session
        BY <1>1 DEF Right
      <4> QED BY <4>1 DEF Session
    <3>2. SessionOK(s, r)
      BY <1>1, <1>3, SessionsDisjoint DEF SendInvite, Right, Session, SessionOK
    <3>3. Owns(r) => Owns(sess[s])
      BY <1>1, <1>3 DEF SendInvite, Right, Session, SessionOK, Owns, Working, Sessions
    <3> QED BY <1>1, <3>1, <3>2, <3>3 DEF Right
  <2> HIDE DEF r
  <2> QED BY <1>3, <2>1, PutRight DEF r, Inv, TypeOK
<1> QED BY <1>2, <1>3 DEF SendInvite

LEMMA HandleInviteKeeps == ASSUME Inv, NEW s \in Sessions, HandleInvite(s) PROVE Inv'
<1>1. Right(s, sess[s])
  BY RecordIsRight
<1>2. CASE Put(s, [sess[s] EXCEPT !.at = "done"]) /\ UNCHANGED <<active, handler>>
  <2> DEFINE r == [sess[s] EXCEPT !.at = "done"]
  <2>1. Right(s, r)
    BY <1>1, <1>2, SessionsDisjoint DEF HandleInvite, Right, Session, SessionOK, Owns, Working
  <2> HIDE DEF r
  <2> QED BY <1>2, <2>1, PutRight DEF r, Inv, TypeOK
<1>3. CASE active = None /\ active' = s /\ Put(s, [sess[s] EXCEPT !.at = "leg"]) /\ UNCHANGED handler
  <2> DEFINE r == [sess[s] EXCEPT !.at = "leg"]
  <2>1. r \in Session
    BY <1>1 DEF Right, Session
  <2>2. SessionOK(s, r)
    BY <1>1, SessionsDisjoint DEF HandleInvite, Right, Session, SessionOK
  <2> HIDE DEF r
  <2> QED BY <1>3, <2>1, <2>2, PutActive DEF r
<1> QED BY <1>2, <1>3 DEF HandleInvite

LEMMA MakeMatrixLegKeeps == ASSUME Inv, NEW s \in Sessions, MakeMatrixLeg(s) PROVE Inv'
<1>1. Right(s, sess[s])
  BY RecordIsRight
<1>2. CASE Put(s, End([sess[s] EXCEPT !.at = "done"], "Failed", FALSE)) /\ UNCHANGED <<active, handler>>
  <2> DEFINE r == [sess[s] EXCEPT !.at = "done"]
  <2>1. Right(s, r)
    BY <1>1, <1>2, SessionsDisjoint DEF MakeMatrixLeg, Right, Session, SessionOK, Owns, Working
  <2>2. ~MustTell(s, r, "Failed")
    BY <1>1, SessionsDisjoint DEF MakeMatrixLeg, Right, Session, SessionOK, MustTell
  <2> HIDE DEF r
  <2> QED BY <1>2, <2>1, <2>2, PutEnd DEF r, Ends
<1>3. CASE Put(s, [sess[s] EXCEPT !.at = "gather", !.mxLeg = "open"]) /\ UNCHANGED <<active, handler>>
  <2> DEFINE r == [sess[s] EXCEPT !.at = "gather", !.mxLeg = "open"]
  <2>1. Right(s, r)
    <3>1. r \in Session
      <4>1. sess[s] \in Session
        BY <1>1 DEF Right
      <4> QED BY <4>1 DEF Session
    <3>2. SessionOK(s, r)
      BY <1>1, <1>3, SessionsDisjoint DEF MakeMatrixLeg, Right, Session, SessionOK
    <3>3. Owns(r) => Owns(sess[s])
      BY <1>1, <1>3 DEF MakeMatrixLeg, Right, Session, SessionOK, Owns, Working, Sessions
    <3> QED BY <1>1, <3>1, <3>2, <3>3 DEF Right
  <2> HIDE DEF r
  <2> QED BY <1>3, <2>1, PutRight DEF r, Inv, TypeOK
<1> QED BY <1>2, <1>3 DEF MakeMatrixLeg

LEMMA AnswerMatrixOfferKeeps == ASSUME Inv, NEW s \in Sessions, AnswerMatrixOffer(s) PROVE Inv'
<1>1. Right(s, sess[s])
  BY RecordIsRight
<1>2. CASE Put(s, End([sess[s] EXCEPT !.at = "done"], "Failed", FALSE)) /\ UNCHANGED <<active, handler>>
  <2> DEFINE r == [sess[s] EXCEPT !.at = "done"]
  <2>1. Right(s, r)
    BY <1>1, <1>2, SessionsDisjoint DEF AnswerMatrixOffer, Right, Session, SessionOK, Owns, Working
  <2>2. ~MustTell(s, r, "Failed")
    BY <1>1, SessionsDisjoint DEF AnswerMatrixOffer, Right, Session, SessionOK, MustTell
  <2> HIDE DEF r
  <2> QED BY <1>2, <2>1, <2>2, PutEnd DEF r, Ends
<1>3. CASE Put(s, [sess[s] EXCEPT !.at = "done"]) /\ UNCHANGED <<active, handler>>
  <2> DEFINE r == [sess[s] EXCEPT !.at = "done"]
  <2>1. Right(s, r)
    BY <1>1, <1>3, SessionsDisjoint DEF AnswerMatrixOffer, Right, Session, SessionOK, Owns, Working
  <2> HIDE DEF r
  <2> QED BY <1>3, <2>1, PutRight DEF r, Inv, TypeOK
<1>4. CASE ~sess[s].ctxDone /\ Put(s, [sess[s] EXCEPT !.at = "relays"]) /\ UNCHANGED <<active, handler>>
  <2> DEFINE r == [sess[s] EXCEPT !.at = "relays"]
  <2>1. Right(s, r)
    BY <1>1, <1>4, SessionsDisjoint DEF AnswerMatrixOffer, Right, Session, SessionOK, Owns, Working
  <2> HIDE DEF r
  <2> QED BY <1>4, <2>1, PutRight DEF r, Inv, TypeOK
<1> QED BY <1>2, <1>3, <1>4 DEF AnswerMatrixOffer

LEMMA FetchRelaysKeeps == ASSUME Inv, NEW s \in Sessions, FetchRelays(s) PROVE Inv'
<1>1. Right(s, sess[s])
  BY RecordIsRight
<1>2. CASE Put(s, End([sess[s] EXCEPT !.at = "done"], "Failed", FALSE)) /\ UNCHANGED <<active, handler>>
  <2> DEFINE r == [sess[s] EXCEPT !.at = "done"]
  <2>1. Right(s, r)
    BY <1>1, <1>2, SessionsDisjoint DEF FetchRelays, Right, Session, SessionOK, Owns, Working
  <2>2. ~MustTell(s, r, "Failed")
    BY <1>1, SessionsDisjoint DEF FetchRelays, Right, Session, SessionOK, MustTell
  <2> HIDE DEF r
  <2> QED BY <1>2, <2>1, <2>2, PutEnd DEF r, Ends
<1>3. CASE ~sess[s].ctxDone /\ Put(s, [sess[s] EXCEPT !.at = "signalLeg"]) /\ UNCHANGED <<active, handler>>
  <2> DEFINE r == [sess[s] EXCEPT !.at = "signalLeg"]
  <2>1. Right(s, r)
    BY <1>1, <1>3, SessionsDisjoint DEF FetchRelays, Right, Session, SessionOK, Owns, Working
  <2> HIDE DEF r
  <2> QED BY <1>3, <2>1, PutRight DEF r, Inv, TypeOK
<1> QED BY <1>2, <1>3 DEF FetchRelays

LEMMA MakeSignalLegKeeps == ASSUME Inv, NEW s \in Sessions, MakeSignalLeg(s) PROVE Inv'
<1>1. Right(s, sess[s])
  BY RecordIsRight
<1>2. CASE Put(s, End([sess[s] EXCEPT !.at = "done"], "Failed", FALSE)) /\ UNCHANGED <<active, handler>>
  <2> DEFINE r == [sess[s] EXCEPT !.at = "done"]
  <2>1. Right(s, r)
    BY <1>1, <1>2, SessionsDisjoint DEF MakeSignalLeg, Right, Session, SessionOK, Owns, Working
  <2>2. ~MustTell(s, r, "Failed")
    BY <1>1, SessionsDisjoint DEF MakeSignalLeg, Right, Session, SessionOK, MustTell
  <2> HIDE DEF r
  <2> QED BY <1>2, <2>1, <2>2, PutEnd DEF r, Ends
<1>3. CASE Put(s, [sess[s] EXCEPT !.at = "offer", !.sigLeg = "open"]) /\ UNCHANGED <<active, handler>>
  <2> DEFINE r == [sess[s] EXCEPT !.at = "offer", !.sigLeg = "open"]
  <2>1. Right(s, r)
    <3>1. r \in Session
      <4>1. sess[s] \in Session
        BY <1>1 DEF Right
      <4> QED BY <4>1, ZenonT(90) DEF Session
    <3>2. SessionOK(s, r)
      BY <1>1, <1>3, SessionsDisjoint DEF MakeSignalLeg, Right, Session, SessionOK
    <3>3. Owns(r) => Owns(sess[s])
      BY <1>1, <1>3 DEF MakeSignalLeg, Right, Session, SessionOK, Owns, Working, Sessions
    <3> QED BY <1>1, <3>1, <3>2, <3>3 DEF Right
  <2> HIDE DEF r
  <2> QED BY <1>3, <2>1, PutRight DEF r, Inv, TypeOK
<1> QED BY <1>2, <1>3 DEF MakeSignalLeg

LEMMA GatherOutgoingKeeps == ASSUME Inv, NEW s \in Sessions, GatherOutgoing(s) PROVE Inv'
<1>1. Right(s, sess[s])
  BY RecordIsRight
<1>2. CASE Put(s, End([sess[s] EXCEPT !.at = "done"], "Failed", TRUE)) /\ UNCHANGED <<active, handler>>
  <2> DEFINE r == [sess[s] EXCEPT !.at = "done"]
  <2>1. Right(s, r)
    BY <1>1, <1>2, SessionsDisjoint DEF GatherOutgoing, Right, Session, SessionOK, Owns, Working
  <2> HIDE DEF r
  <2> QED BY <1>2, <2>1, PutEnd DEF r, Ends
<1>3. CASE sess[s].sigLeg = "open" /\ Put(s, [sess[s] EXCEPT !.at = "timer"]) /\ UNCHANGED <<active, handler>>
  <2> DEFINE r == [sess[s] EXCEPT !.at = "timer"]
  <2>1. Right(s, r)
    BY <1>1, <1>3, SessionsDisjoint DEF GatherOutgoing, Right, Session, SessionOK, Owns, Working
  <2> HIDE DEF r
  <2> QED BY <1>3, <2>1, PutRight DEF r, Inv, TypeOK
<1> QED BY <1>2, <1>3 DEF GatherOutgoing

LEMMA MatrixHangupKeeps == ASSUME Inv, NEW s \in Sessions, MatrixHangup(s) PROVE Inv'
<1>1. Right(s, sess[s])
  BY RecordIsRight
<1>2. CASE Put(s, End(sess[s], "LocalDecline", TRUE)) /\ UNCHANGED <<active, handler>>
  <2> DEFINE r == sess[s]
  <2>1. Right(s, r)
    BY <1>1, <1>2, SessionsDisjoint DEF MatrixHangup, Right, Session, SessionOK, Owns, Working
  <2> HIDE DEF r
  <2> QED BY <1>2, <2>1, PutEnd DEF r, Ends
<1> QED BY <1>2 DEF MatrixHangup

LEMMA MatrixAnswerKeeps == ASSUME Inv, NEW s \in Sessions, MatrixAnswer(s) PROVE Inv'
<1>1. Right(s, sess[s])
  BY RecordIsRight
<1>2. CASE Put(s, End(sess[s], "Failed", TRUE)) /\ UNCHANGED <<active, handler>>
  <2> DEFINE r == sess[s]
  <2>1. Right(s, r)
    BY <1>1, <1>2, SessionsDisjoint DEF MatrixAnswer, Right, Session, SessionOK, Owns, Working
  <2> HIDE DEF r
  <2> QED BY <1>2, <2>1, PutEnd DEF r, Ends
<1>3. CASE sess[s].ans = "no" /\ Put(s, [sess[s] EXCEPT !.ans = "spawned"]) /\ UNCHANGED <<active, handler>>
  <2> DEFINE r == [sess[s] EXCEPT !.ans = "spawned"]
  <2>1. Right(s, r)
    BY <1>1, <1>3, SessionsDisjoint DEF MatrixAnswer, Right, Session, SessionOK, Owns, Working
  <2> HIDE DEF r
  <2> QED BY <1>3, <2>1, PutRight DEF r, Inv, TypeOK
<1> QED BY <1>2, <1>3 DEF MatrixAnswer

LEMMA HandleRemoteEndKeeps == ASSUME Inv, NEW s \in Sessions, HandleRemoteEnd(s) PROVE Inv'
<1>1. Right(s, sess[s])
  BY RecordIsRight
<1>2. CASE Put(s, End(sess[s], "Remote", FALSE)) /\ UNCHANGED <<active, handler>>
  <2> DEFINE r == sess[s]
  <2>1. Right(s, r)
    BY <1>1, <1>2, SessionsDisjoint DEF HandleRemoteEnd, Right, Session, SessionOK, Owns, Working
  <2>2. ~MustTell(s, r, "Remote")
    BY <1>1, SessionsDisjoint DEF HandleRemoteEnd, Right, Session, SessionOK, MustTell
  <2> HIDE DEF r
  <2> QED BY <1>2, <2>1, <2>2, PutEnd DEF r, Ends
<1> QED BY <1>2 DEF HandleRemoteEnd

LEMMA StopKeeps == ASSUME Inv, NEW s \in Sessions, Stop(s) PROVE Inv'
<1>1. Right(s, sess[s])
  BY RecordIsRight
<1>2. CASE Put(s, End(sess[s], "BridgeShutdown", FALSE)) /\ UNCHANGED <<active, handler>>
  <2> DEFINE r == sess[s]
  <2>1. Right(s, r)
    BY <1>1, <1>2, SessionsDisjoint DEF Stop, Right, Session, SessionOK, Owns, Working
  <2>2. ~MustTell(s, r, "BridgeShutdown")
    BY <1>1, SessionsDisjoint DEF Stop, Right, Session, SessionOK, MustTell
  <2> HIDE DEF r
  <2> QED BY <1>2, <2>1, <2>2, PutEnd DEF r, Ends
<1> QED BY <1>2 DEF Stop

LEMMA TimerFiresKeeps == ASSUME Inv, NEW s \in Sessions, TimerFires(s) PROVE Inv'
<1>1. Right(s, sess[s])
  BY RecordIsRight
<1>2. CASE Put(s, End([sess[s] EXCEPT !.timer = FALSE], "Timeout", TRUE)) /\ UNCHANGED <<active, handler>>
  <2> DEFINE r == [sess[s] EXCEPT !.timer = FALSE]
  <2>1. Right(s, r)
    <3>1. r \in Session
      <4>1. sess[s] \in Session
        BY <1>1 DEF Right
      <4> QED BY <4>1 DEF Session
    <3>2. SessionOK(s, r)
      BY <1>1, <1>2, SessionsDisjoint DEF TimerFires, Right, Session, SessionOK
    <3>3. Owns(r) => Owns(sess[s])
      BY <1>1, <1>2 DEF TimerFires, Right, Session, SessionOK, Owns, Working, Sessions
    <3> QED BY <1>1, <3>1, <3>2, <3>3 DEF Right
  <2> HIDE DEF r
  <2> QED BY <1>2, <2>1, PutEnd DEF r, Ends
<1> QED BY <1>2 DEF TimerFires

LEMMA FetchAnswerRelaysKeeps == ASSUME Inv, NEW s \in Sessions, FetchAnswerRelays(s) PROVE Inv'
<1>1. Right(s, sess[s])
  BY RecordIsRight
<1>2. CASE Put(s, End([sess[s] EXCEPT !.ans = "failed"], "Failed", TRUE)) /\ UNCHANGED <<active, handler>>
  <2> DEFINE r == [sess[s] EXCEPT !.ans = "failed"]
  <2>1. Right(s, r)
    BY <1>1, <1>2, SessionsDisjoint DEF FetchAnswerRelays, Right, Session, SessionOK, Owns, Working
  <2> HIDE DEF r
  <2> QED BY <1>2, <2>1, PutEnd DEF r, Ends
<1>3. CASE Put(s, [sess[s] EXCEPT !.ans = "leg"]) /\ UNCHANGED <<active, handler>>
  <2> DEFINE r == [sess[s] EXCEPT !.ans = "leg"]
  <2>1. Right(s, r)
    BY <1>1, <1>3, SessionsDisjoint DEF FetchAnswerRelays, Right, Session, SessionOK, Owns, Working
  <2> HIDE DEF r
  <2> QED BY <1>3, <2>1, PutRight DEF r, Inv, TypeOK
<1> QED BY <1>2, <1>3 DEF FetchAnswerRelays, Fail

LEMMA SendAnswerKeeps == ASSUME Inv, NEW s \in Sessions, SendAnswer(s) PROVE Inv'
<1>1. Right(s, sess[s])
  BY RecordIsRight
<1>2. CASE Put(s, End([sess[s] EXCEPT !.ans = "failed"], "Failed", TRUE)) /\ UNCHANGED <<active, handler>>
  <2> DEFINE r == [sess[s] EXCEPT !.ans = "failed"]
  <2>1. Right(s, r)
    BY <1>1, <1>2, SessionsDisjoint DEF SendAnswer, Right, Session, SessionOK, Owns, Working
  <2> HIDE DEF r
  <2> QED BY <1>2, <2>1, PutEnd DEF r, Ends
<1>3. CASE Put(s, [sess[s] EXCEPT !.ans = "connect"]) /\ UNCHANGED <<active, handler>>
  <2> DEFINE r == [sess[s] EXCEPT !.ans = "connect"]
  <2>1. Right(s, r)
    BY <1>1, <1>3, SessionsDisjoint DEF SendAnswer, Right, Session, SessionOK, Owns, Working
  <2> HIDE DEF r
  <2> QED BY <1>3, <2>1, PutRight DEF r, Inv, TypeOK
<1> QED BY <1>2, <1>3 DEF SendAnswer, Fail

LEMMA ConnectFailsKeeps == ASSUME Inv, NEW s \in Sessions, ConnectFails(s) PROVE Inv'
<1>1. Right(s, sess[s])
  BY RecordIsRight
<1>2. CASE Put(s, End([sess[s] EXCEPT !.ans = "failed"], "Failed", TRUE)) /\ UNCHANGED <<active, handler>>
  <2> DEFINE r == [sess[s] EXCEPT !.ans = "failed"]
  <2>1. Right(s, r)
    BY <1>1, <1>2, SessionsDisjoint DEF ConnectFails, Right, Session, SessionOK, Owns, Working
  <2> HIDE DEF r
  <2> QED BY <1>2, <2>1, PutEnd DEF r, Ends
<1> QED BY <1>2 DEF ConnectFails, Fail

LEMMA RelayStopsKeeps == ASSUME Inv, NEW s \in Sessions, RelayStops(s) PROVE Inv'
<1>1. Right(s, sess[s])
  BY RecordIsRight
<1>2. CASE Put(s, End(sess[s], "Failed", TRUE)) /\ UNCHANGED <<active, handler>>
  <2> DEFINE r == sess[s]
  <2>1. Right(s, r)
    BY <1>1, <1>2, SessionsDisjoint DEF RelayStops, Right, Session, SessionOK, Owns, Working
  <2> HIDE DEF r
  <2> QED BY <1>2, <2>1, PutEnd DEF r, Ends
<1> QED BY <1>2 DEF RelayStops

LEMMA SendHangupKeeps == ASSUME Inv, NEW s \in Sessions, SendHangup(s) PROVE Inv'
<1>1. Right(s, sess[s])
  BY RecordIsRight
<1>2. CASE Put(s, [sess[s] EXCEPT !.stage = "cancel", !.reason = None, !.notify = FALSE]) /\ UNCHANGED <<active, handler>>
  <2> DEFINE r == [sess[s] EXCEPT !.stage = "cancel", !.reason = None, !.notify = FALSE]
  <2>1. Right(s, r)
    <3>1. r \in Session
      <4>1. sess[s] \in Session
        BY <1>1 DEF Right
      <4> QED BY <4>1 DEF Session
    <3>2. SessionOK(s, r)
      BY <1>1, <1>2, SessionsDisjoint DEF SendHangup, Right, Session, SessionOK
    <3>3. Owns(r) => Owns(sess[s])
      BY <1>1, <1>2 DEF SendHangup, Right, Session, SessionOK, Owns, Working, Sessions
    <3> QED BY <1>1, <3>1, <3>2, <3>3 DEF Right
  <2> HIDE DEF r
  <2> QED BY <1>2, <2>1, PutRight DEF r, Inv, TypeOK
<1> QED BY <1>2 DEF SendHangup

LEMMA CancelKeeps == ASSUME Inv, NEW s \in Sessions, Cancel(s) PROVE Inv'
<1>1. Right(s, sess[s])
  BY RecordIsRight
<1>2. CASE Put(s, [sess[s] EXCEPT !.stage = "close", !.ctxDone = TRUE, !.timer = FALSE]) /\ UNCHANGED <<active, handler>>
  <2> DEFINE r == [sess[s] EXCEPT !.stage = "close", !.ctxDone = TRUE, !.timer = FALSE]
  <2>1. Right(s, r)
    <3>1. r \in Session
      <4>1. sess[s] \in Session
        BY <1>1 DEF Right
      <4> QED BY <4>1 DEF Session
    <3>2. SessionOK(s, r)
      BY <1>1, <1>2, SessionsDisjoint DEF Cancel, Right, Session, SessionOK
    <3>3. Owns(r) => Owns(sess[s])
      BY <1>1, <1>2 DEF Cancel, Right, Session, SessionOK, Owns, Working, Sessions
    <3> QED BY <1>1, <3>1, <3>2, <3>3 DEF Right
  <2> HIDE DEF r
  <2> QED BY <1>2, <2>1, PutRight DEF r, Inv, TypeOK
<1> QED BY <1>2 DEF Cancel

LEMMA CheckActiveKeeps == ASSUME Inv, NEW s \in Sessions, CheckActive(s) PROVE Inv'
<1>1. Right(s, sess[s])
  BY RecordIsRight
<1>2. CASE active = None
  <2> DEFINE r == [sess[s] EXCEPT !.at = "create"]
  <2>1. Put(s, r) /\ UNCHANGED <<active, handler>>
    BY <1>1, <1>2 DEF CheckActive
  <2>2. Right(s, r)
    <3>1. r \in Session
      <4>1. sess[s] \in Session
        BY <1>1 DEF Right
      <4> QED BY <4>1 DEF Session
    <3>2. SessionOK(s, r)
      BY <1>1, <1>2, SessionsDisjoint DEF CheckActive, Right, Session, SessionOK
    <3>3. Owns(r) => Owns(sess[s])
      BY <1>1, <1>2 DEF CheckActive, Right, Session, SessionOK, Owns, Working
    <3> QED BY <1>1, <3>1, <3>2, <3>3 DEF Right
  <2> HIDE DEF r
  <2> QED BY <2>1, <2>2, PutRight DEF Inv, TypeOK
<1>3. CASE ~(active = None)
  <2> DEFINE r == [sess[s] EXCEPT !.at = "done"]
  <2>1. Put(s, r) /\ UNCHANGED <<active, handler>>
    BY <1>1, <1>3 DEF CheckActive
  <2>2. Right(s, r)
    <3>1. r \in Session
      <4>1. sess[s] \in Session
        BY <1>1 DEF Right
      <4> QED BY <4>1 DEF Session
    <3>2. SessionOK(s, r)
      BY <1>1, <1>3, SessionsDisjoint DEF CheckActive, Right, Session, SessionOK
    <3>3. Owns(r) => Owns(sess[s])
      BY <1>1, <1>3 DEF CheckActive, Right, Session, SessionOK, Owns, Working
    <3> QED BY <1>1, <3>1, <3>2, <3>3 DEF Right
  <2> HIDE DEF r
  <2> QED BY <2>1, <2>2, PutRight DEF Inv, TypeOK
<1> QED BY <1>2, <1>3

LEMMA SetTimerKeeps == ASSUME Inv, NEW s \in Sessions, SetTimer(s) PROVE Inv'
<1>1. Right(s, sess[s])
  BY RecordIsRight
<1>2. CASE sess[s].ctxDone
  <2> DEFINE r == [sess[s] EXCEPT !.at = "done", !.timer = FALSE]
  <2>1. Put(s, r) /\ UNCHANGED <<active, handler>>
    BY <1>1, <1>2 DEF SetTimer
  <2>2. Right(s, r)
    <3>1. r \in Session
      <4>1. sess[s] \in Session
        BY <1>1 DEF Right
      <4> QED BY <4>1 DEF Session
    <3>2. SessionOK(s, r)
      BY <1>1, <1>2, SessionsDisjoint DEF SetTimer, Right, Session, SessionOK
    <3>3. Owns(r) => Owns(sess[s])
      BY <1>1, <1>2 DEF SetTimer, Right, Session, SessionOK, Owns, Working
    <3> QED BY <1>1, <3>1, <3>2, <3>3 DEF Right
  <2> HIDE DEF r
  <2> QED BY <2>1, <2>2, PutRight DEF Inv, TypeOK
<1>3. CASE ~(sess[s].ctxDone)
  <2> DEFINE r == [sess[s] EXCEPT !.at = "done", !.timer = TRUE]
  <2>1. Put(s, r) /\ UNCHANGED <<active, handler>>
    BY <1>1, <1>3 DEF SetTimer
  <2>2. Right(s, r)
    <3>1. r \in Session
      <4>1. sess[s] \in Session
        BY <1>1 DEF Right
      <4> QED BY <4>1 DEF Session
    <3>2. SessionOK(s, r)
      BY <1>1, <1>3, SessionsDisjoint DEF SetTimer, Right, Session, SessionOK
    <3>3. Owns(r) => Owns(sess[s])
      BY <1>1, <1>3 DEF SetTimer, Right, Session, SessionOK, Owns, Working
    <3> QED BY <1>1, <3>1, <3>2, <3>3 DEF Right
  <2> HIDE DEF r
  <2> QED BY <2>1, <2>2, PutRight DEF Inv, TypeOK
<1> QED BY <1>2, <1>3

LEMMA AnswerIncomingKeeps == ASSUME Inv, NEW s \in Sessions, AnswerIncoming(s) PROVE Inv'
<1>1. Right(s, sess[s])
  BY RecordIsRight
<1>2. CASE sess[s].ctxDone
  <2> DEFINE r == [sess[s] EXCEPT !.ans = "failed"]
  <2>1. Put(s, r) /\ UNCHANGED <<active, handler>>
    BY <1>1, <1>2 DEF AnswerIncoming
  <2>2. Right(s, r)
    <3>1. r \in Session
      <4>1. sess[s] \in Session
        BY <1>1 DEF Right
      <4> QED BY <4>1 DEF Session
    <3>2. SessionOK(s, r)
      BY <1>1, <1>2, SessionsDisjoint DEF AnswerIncoming, Right, Session, SessionOK
    <3>3. Owns(r) => Owns(sess[s])
      BY <1>1, <1>2 DEF AnswerIncoming, Right, Session, SessionOK, Owns, Working
    <3> QED BY <1>1, <3>1, <3>2, <3>3 DEF Right
  <2> HIDE DEF r
  <2> QED BY <2>1, <2>2, PutRight DEF Inv, TypeOK
<1>3. CASE ~(sess[s].ctxDone)
  <2> DEFINE r == [sess[s] EXCEPT !.ans = "relays"]
  <2>1. Put(s, r) /\ UNCHANGED <<active, handler>>
    BY <1>1, <1>3 DEF AnswerIncoming
  <2>2. Right(s, r)
    <3>1. r \in Session
      <4>1. sess[s] \in Session
        BY <1>1 DEF Right
      <4> QED BY <4>1 DEF Session
    <3>2. SessionOK(s, r)
      BY <1>1, <1>3, SessionsDisjoint DEF AnswerIncoming, Right, Session, SessionOK
    <3>3. Owns(r) => Owns(sess[s])
      BY <1>1, <1>3 DEF AnswerIncoming, Right, Session, SessionOK, Owns, Working
    <3> QED BY <1>1, <3>1, <3>2, <3>3 DEF Right
  <2> HIDE DEF r
  <2> QED BY <2>1, <2>2, PutRight DEF Inv, TypeOK
<1> QED BY <1>2, <1>3

LEMMA ConnectedKeeps == ASSUME Inv, NEW s \in Sessions, Connected(s) PROVE Inv'
<1>1. Right(s, sess[s])
  BY RecordIsRight
<1>2. CASE s \in In
  <2> DEFINE r == [sess[s] EXCEPT !.ans = "live"]
  <2>1. Put(s, r) /\ UNCHANGED <<active, handler>>
    BY <1>1, <1>2 DEF Connected
  <2>2. Right(s, r)
    <3>1. r \in Session
      <4>1. sess[s] \in Session
        BY <1>1 DEF Right
      <4> QED BY <4>1 DEF Session
    <3>2. SessionOK(s, r)
      BY <1>1, <1>2, SessionsDisjoint DEF Connected, Right, Session, SessionOK
    <3>3. Owns(r) => Owns(sess[s])
      BY <1>1, <1>2 DEF Connected, Right, Session, SessionOK, Owns, Working
    <3> QED BY <1>1, <3>1, <3>2, <3>3 DEF Right
  <2> HIDE DEF r
  <2> QED BY <2>1, <2>2, PutRight DEF Inv, TypeOK
<1>3. CASE ~(s \in In)
  <2> DEFINE r == [sess[s] EXCEPT !.ans = "answerMatrix"]
  <2>1. Put(s, r) /\ UNCHANGED <<active, handler>>
    BY <1>1, <1>3 DEF Connected
  <2>2. Right(s, r)
    <3>1. r \in Session
      <4>1. sess[s] \in Session
        BY <1>1 DEF Right
      <4> QED BY <4>1 DEF Session
    <3>2. SessionOK(s, r)
      BY <1>1, <1>3, SessionsDisjoint DEF Connected, Right, Session, SessionOK
    <3>3. Owns(r) => Owns(sess[s])
      BY <1>1, <1>3 DEF Connected, Right, Session, SessionOK, Owns, Working
    <3> QED BY <1>1, <3>1, <3>2, <3>3 DEF Right
  <2> HIDE DEF r
  <2> QED BY <2>1, <2>2, PutRight DEF Inv, TypeOK
<1> QED BY <1>2, <1>3

LEMMA SendOfferKeeps == ASSUME Inv, NEW s \in Sessions, SendOffer(s) PROVE Inv'
<1>1. Right(s, sess[s])
  BY RecordIsRight
<1>2. CASE Put(s, End([sess[s] EXCEPT !.at = "done"], "Failed", FALSE)) /\ UNCHANGED <<active, handler>>
  <2> DEFINE r == [sess[s] EXCEPT !.at = "done"]
  <2>1. Right(s, r)
    BY <1>1, <1>2, SessionsDisjoint DEF SendOffer, Right, Session, SessionOK, Owns, Working
  <2>2. ~MustTell(s, r, "Failed")
    BY <1>1, SessionsDisjoint DEF SendOffer, Right, Session, SessionOK, MustTell
  <2> HIDE DEF r
  <2> QED BY <1>2, <2>1, <2>2, PutEnd DEF r, Ends
<1>3. CASE sess[s].stage = "no" /\ Put(s, [sess[s] EXCEPT !.at = "candidates", !.offered = "yes"]) /\ UNCHANGED <<active, handler>>
  <2> DEFINE r == [sess[s] EXCEPT !.at = "candidates", !.offered = "yes"]
  <2>1. Right(s, r)
    <3>1. r \in Session
      <4>1. sess[s] \in Session
        BY <1>1 DEF Right
      <4> DEFINE q == [sess[s] EXCEPT !.at = "candidates"]
      <4>2. q \in Session
        BY <4>1 DEF Session
      <4> HIDE DEF q
      <4>3. [q EXCEPT !.offered = "yes"] \in Session
        BY <4>2 DEF Session
      <4> QED BY <4>3 DEF q
    <3>2. SessionOK(s, r)
      BY <1>1, <1>3, SessionsDisjoint DEF SendOffer, Right, Session, SessionOK, Sessions
    <3>3. Owns(r) => Owns(sess[s])
      BY <1>1, <1>3 DEF SendOffer, Right, Session, SessionOK, Owns, Working, Sessions
    <3> QED BY <1>1, <3>1, <3>2, <3>3 DEF Right
  <2> HIDE DEF r
  <2> QED BY <1>3, <2>1, PutRight DEF r, Inv, TypeOK
<1>4. CASE Put(s, [sess[s] EXCEPT !.at = "candidates", !.offered = "afterEnd"]) /\ UNCHANGED <<active, handler>>
  <2> DEFINE r == [sess[s] EXCEPT !.at = "candidates", !.offered = "afterEnd"]
  <2>1. Right(s, r)
    <3>1. r \in Session
      <4>1. sess[s] \in Session
        BY <1>1 DEF Right
      <4> DEFINE q == [sess[s] EXCEPT !.at = "candidates"]
      <4>2. q \in Session
        BY <4>1 DEF Session
      <4> HIDE DEF q
      <4>3. [q EXCEPT !.offered = "afterEnd"] \in Session
        BY <4>2 DEF Session
      <4> QED BY <4>3 DEF q
    <3>2. SessionOK(s, r)
      BY <1>1, <1>4, SessionsDisjoint DEF SendOffer, Right, Session, SessionOK, Sessions
    <3>3. Owns(r) => Owns(sess[s])
      BY <1>1, <1>4 DEF SendOffer, Right, Session, SessionOK, Owns, Working, Sessions
    <3> QED BY <1>1, <3>1, <3>2, <3>3 DEF Right
  <2> HIDE DEF r
  <2> QED BY <1>4, <2>1, PutRight DEF r, Inv, TypeOK
<1> QED BY <1>2, <1>3, <1>4 DEF SendOffer

LEMMA MakeAnswerLegKeeps == ASSUME Inv, NEW s \in Sessions, MakeAnswerLeg(s) PROVE Inv'
<1>1. Right(s, sess[s])
  BY RecordIsRight
<1>2. CASE Put(s, End([sess[s] EXCEPT !.ans = "failed"], "Failed", TRUE)) /\ UNCHANGED <<active, handler>>
  <2> DEFINE r == [sess[s] EXCEPT !.ans = "failed"]
  <2>1. Right(s, r)
    BY <1>1, <1>2, SessionsDisjoint DEF MakeAnswerLeg, Right, Session, SessionOK, Owns, Working
  <2> HIDE DEF r
  <2> QED BY <1>2, <2>1, PutEnd DEF r, Ends
<1> DEFINE p == sess[s].pending
<1>3. p \in SUBSET Devices
  BY <1>1 DEF Right, Session
<1> HIDE DEF p
<1>4. CASE Put(s, [sess[s] EXCEPT !.ans = "add", !.sigLeg = "open", !.taken = p, !.pending = {}]) /\ UNCHANGED <<active, handler>>
  <2> DEFINE r == [sess[s] EXCEPT !.ans = "add", !.sigLeg = "open", !.taken = p, !.pending = {}]
  <2>1. Right(s, r)
    <3>1. r \in Session
      <4>1. sess[s] \in Session
        BY <1>1 DEF Right
      <4> QED BY <4>1, <1>3, ZenonT(60) DEF Session
    <3>2. SessionOK(s, r)
      BY <1>1, <1>4, <1>3, SessionsDisjoint DEF MakeAnswerLeg, Right, Session, SessionOK, Sessions
    <3>3. Owns(r) => Owns(sess[s])
      BY <1>1, <1>4 DEF MakeAnswerLeg, Right, Session, SessionOK, Owns, Working, Sessions
    <3> QED BY <1>1, <3>1, <3>2, <3>3 DEF Right
  <2> HIDE DEF r
  <2> QED BY <1>4, <2>1, PutRight DEF r, Inv, TypeOK
<1> QED BY <1>2, <1>4 DEF MakeAnswerLeg, Fail, p

LEMMA AddPendingKeeps == ASSUME Inv, NEW s \in Sessions, AddPending(s) PROVE Inv'
<1>1. Right(s, sess[s])
  BY RecordIsRight
<1>2. CASE Put(s, End([sess[s] EXCEPT !.ans = "failed"], "Failed", TRUE)) /\ UNCHANGED <<active, handler>>
  <2> DEFINE r == [sess[s] EXCEPT !.ans = "failed"]
  <2>1. Right(s, r)
    BY <1>1, <1>2, SessionsDisjoint DEF AddPending, Right, Session, SessionOK, Owns, Working
  <2> HIDE DEF r
  <2> QED BY <1>2, <2>1, PutEnd DEF r, Ends
<1> DEFINE a == sess[s].added \cup Taking(s, sess[s].taken \cap {sess[s].source})
<1>3. a \in SUBSET Devices /\ a \subseteq {sess[s].source} /\ (sess[s].at = "idle" => a = {})
  BY <1>1 DEF Right, Session, SessionOK, Taking
<1> HIDE DEF a
<1>4. CASE s \in In /\ Put(s, [sess[s] EXCEPT !.ans = "send", !.added = a, !.taken = {}]) /\ UNCHANGED <<active, handler>>
  <2> DEFINE r == [sess[s] EXCEPT !.ans = "send", !.added = a, !.taken = {}]
  <2>1. Right(s, r)
    <3>1. r \in Session
      <4>1. sess[s] \in Session
        BY <1>1 DEF Right
      <4> QED BY <4>1, <1>3, ZenonT(60) DEF Session
    <3>2. SessionOK(s, r)
      BY <1>1, <1>4, <1>3, SessionsDisjoint DEF AddPending, Right, Session, SessionOK, Sessions
    <3>3. Owns(r) => Owns(sess[s])
      BY <1>1, <1>4 DEF AddPending, Right, Session, SessionOK, Owns, Working, Sessions
    <3> QED BY <1>1, <3>1, <3>2, <3>3 DEF Right
  <2> HIDE DEF r
  <2> QED BY <1>4, <2>1, PutRight DEF r, Inv, TypeOK
<1>5. CASE s \notin In /\ Put(s, [sess[s] EXCEPT !.ans = "connect", !.added = a, !.taken = {}]) /\ UNCHANGED <<active, handler>>
  <2> DEFINE r == [sess[s] EXCEPT !.ans = "connect", !.added = a, !.taken = {}]
  <2>1. Right(s, r)
    <3>1. r \in Session
      <4>1. sess[s] \in Session
        BY <1>1 DEF Right
      <4> QED BY <4>1, <1>3, ZenonT(60) DEF Session
    <3>2. SessionOK(s, r)
      BY <1>1, <1>5, <1>3, SessionsDisjoint DEF AddPending, Right, Session, SessionOK, Sessions
    <3>3. Owns(r) => Owns(sess[s])
      BY <1>1, <1>5 DEF AddPending, Right, Session, SessionOK, Owns, Working, Sessions
    <3> QED BY <1>1, <3>1, <3>2, <3>3 DEF Right
  <2> HIDE DEF r
  <2> QED BY <1>5, <2>1, PutRight DEF r, Inv, TypeOK
<1> QED BY <1>2, <1>4, <1>5 DEF AddPending, Fail, a

LEMMA CloseLegsKeeps == ASSUME Inv, NEW s \in Sessions, CloseLegs(s) PROVE Inv'
<1>1. Right(s, sess[s])
  BY RecordIsRight
<1> DEFINE m == Closed(sess[s].mxLeg)
           g == Closed(sess[s].sigLeg)
<1>2. /\ m \in {"nil", "closed"} /\ (m = "nil" <=> sess[s].mxLeg = "nil")
      /\ g \in {"nil", "closed"} /\ (g = "nil" <=> sess[s].sigLeg = "nil")
  BY DEF Closed
<1> HIDE DEF m, g
<1>3. CASE Put(s, [sess[s] EXCEPT !.stage = "release", !.mxLeg = m, !.sigLeg = g, !.added = {}]) /\ UNCHANGED <<active, handler>>
  <2> DEFINE r == [sess[s] EXCEPT !.stage = "release", !.mxLeg = m, !.sigLeg = g, !.added = {}]
  <2>1. Right(s, r)
    <3>1. r \in Session
      <4>1. sess[s] \in Session
        BY <1>1 DEF Right
      <4> QED BY <4>1, <1>2, ZenonT(90) DEF Session
    <3>2. SessionOK(s, r)
      BY <1>1, <1>3, <1>2, SessionsDisjoint DEF CloseLegs, Right, Session, SessionOK, Sessions
    <3>3. Owns(r) => Owns(sess[s])
      BY <1>1, <1>2, <1>3 DEF CloseLegs, Right, Session, SessionOK, Owns, Working, Sessions
    <3> QED BY <1>1, <3>1, <3>2, <3>3 DEF Right
  <2> HIDE DEF r
  <2> QED BY <1>3, <2>1, PutRight DEF r, Inv, TypeOK
<1> QED BY <1>3 DEF CloseLegs, m, g

LEMMA HandleRemoteICEKeeps == ASSUME Inv, NEW s \in Sessions, NEW d \in Devices, HandleRemoteICE(s, d) PROVE Inv'
<1>1. Right(s, sess[s])
  BY RecordIsRight
<1> DEFINE p == sess[s].pending \cup {d}
           a == sess[s].added \cup Taking(s, {d})
<1>2. p \in SUBSET Devices /\ a \in SUBSET Devices
  BY <1>1 DEF Right, Session, Taking
<1>3. sess[s].sigLeg # "nil" /\ sess[s].source # None => a \subseteq {sess[s].source} /\ sess[s].at # "idle"
  BY <1>1 DEF HandleRemoteICE, Right, Session, SessionOK, Taking
<1> HIDE DEF p, a
<1>4. CASE (sess[s].sigLeg = "nil" \/ sess[s].source = None) /\ Put(s, [sess[s] EXCEPT !.pending = p]) /\ UNCHANGED <<active, handler>>
  <2> DEFINE r == [sess[s] EXCEPT !.pending = p]
  <2>1. Right(s, r)
    <3>1. r \in Session
      <4>1. sess[s] \in Session
        BY <1>1 DEF Right
      <4> QED BY <4>1, <1>2, ZenonT(90) DEF Session
    <3>2. SessionOK(s, r)
      BY <1>1, <1>4, <1>2, SessionsDisjoint DEF HandleRemoteICE, Right, Session, SessionOK, Sessions
    <3>3. Owns(r) => Owns(sess[s])
      BY <1>1, <1>4 DEF HandleRemoteICE, Right, Session, SessionOK, Owns, Working, Sessions
    <3> QED BY <1>1, <3>1, <3>2, <3>3 DEF Right
  <2> HIDE DEF r
  <2> QED BY <1>4, <2>1, PutRight DEF r, Inv, TypeOK
<1>5. CASE ~(sess[s].sigLeg = "nil" \/ sess[s].source = None) /\ Put(s, [sess[s] EXCEPT !.added = a]) /\ UNCHANGED <<active, handler>>
  <2> DEFINE r == [sess[s] EXCEPT !.added = a]
  <2>1. Right(s, r)
    <3>1. r \in Session
      <4>1. sess[s] \in Session
        BY <1>1 DEF Right
      <4> QED BY <4>1, <1>2, <1>3 DEF Session
    <3>2. SessionOK(s, r)
      BY <1>1, <1>5, <1>2, <1>3, SessionsDisjoint DEF HandleRemoteICE, Right, Session, SessionOK, Sessions
    <3>3. Owns(r) => Owns(sess[s])
      BY <1>1, <1>5 DEF HandleRemoteICE, Right, Session, SessionOK, Owns, Working, Sessions
    <3> QED BY <1>1, <3>1, <3>2, <3>3 DEF Right
  <2> HIDE DEF r
  <2> QED BY <1>5, <2>1, PutRight DEF r, Inv, TypeOK
<1> QED BY <1>4, <1>5 DEF HandleRemoteICE, p, a

LEMMA HandleRemoteAnswerKeeps ==
  ASSUME Inv, NEW s \in Sessions, NEW d \in Devices, HandleRemoteAnswer(s, d) PROVE Inv'
<1>1. Right(s, sess[s])
  BY RecordIsRight
<1> DEFINE p == sess[s].pending
           q == [sess[s] EXCEPT !.ans = "add", !.source = d]
           r == [q EXCEPT !.taken = p, !.pending = {}]
<1>2. p \in SUBSET Devices
  BY <1>1 DEF Right, Session
<1>3. sess[s].ans = "no" /\ s \in Out /\ sess[s].offered # "no" /\ active = s
  BY DEF HandleRemoteAnswer
<1>4. Put(s, r) /\ active' = active /\ handler' \in Out \cup {None}
  BY DEF HandleRemoteAnswer
<1>5. sess[s].added = {}
  BY <1>1, <1>3, NoneIsNothing DEF Right, Session, SessionOK
<1>6. q \in Session
  <2>1. sess[s] \in Session
    BY <1>1 DEF Right
  <2> QED BY <2>1 DEF Session
<1>7. q.added = {}
  BY <1>1, <1>5 DEF Right, Session
<1>8. SessionOK(s, r)
  BY <1>1, <1>3, <1>5, SessionsDisjoint DEF Right, Session, SessionOK
<1> HIDE DEF p, q
<1>9. r \in Session
  BY <1>2, <1>6 DEF Session
<1> HIDE DEF r
<1> QED BY <1>3, <1>4, <1>8, <1>9, PutRight DEF Right

LEMMA AnswerMatrixKeeps == ASSUME Inv, NEW s \in Sessions, AnswerMatrix(s) PROVE Inv'
<1>1. Right(s, sess[s])
  BY RecordIsRight
<1>2. CASE Put(s, End([sess[s] EXCEPT !.ans = "failed"], "Failed", TRUE)) /\ UNCHANGED <<active, handler>>
  <2> DEFINE r == [sess[s] EXCEPT !.ans = "failed"]
  <2>1. Right(s, r)
    BY <1>1, <1>2, SessionsDisjoint DEF AnswerMatrix, Right, Session, SessionOK, Owns, Working
  <2> HIDE DEF r
  <2> QED BY <1>2, <2>1, PutEnd DEF r, Ends
<1>3. CASE Put(s, [sess[s] EXCEPT !.ans = "live"]) /\ UNCHANGED active /\ handler' = None
  <2> DEFINE r == [sess[s] EXCEPT !.ans = "live"]
  <2>1. Right(s, r)
    BY <1>1, <1>3, SessionsDisjoint DEF AnswerMatrix, Right, Session, SessionOK, Owns, Working
  <2> HIDE DEF r
  <2> QED BY <1>3, <2>1, PutRight DEF r
<1> QED BY <1>2, <1>3 DEF AnswerMatrix, Fail

LEMMA HandlerGoesOnKeeps == ASSUME Inv, NEW s \in Sessions, HandlerGoesOn(s) PROVE Inv'
BY DEF HandlerGoesOn, Inv, TypeOK, SessionOK, Owns, Working

LEMMA ReleaseKeeps == ASSUME Inv, NEW s \in Sessions, Release(s) PROVE Inv'
<1>1. Right(s, sess[s])
  BY RecordIsRight
<1> DEFINE r == [sess[s] EXCEPT !.stage = "done"]
<1>2. Put(s, r)
  BY DEF Release
<1>3. r \in Session
  <2>1. sess[s] \in Session
    BY <1>1 DEF Right
  <2> QED BY <2>1 DEF Session
<1>4. SessionOK(s, r)
  BY <1>1 DEF Release, Right, Session, SessionOK
<1>5. ~Owns(r)
  BY <1>1 DEF Right, Session, Owns
<1>6. \A t \in Sessions \ {s} : Owns(sess[t]) => active' = t
  BY DEF Release, Inv
<1>7. active' \in Sessions \cup {None} /\ handler' \in Out \cup {None}
  BY DEF Release, Inv, TypeOK
<1> HIDE DEF r
<1> QED BY <1>2, <1>3, <1>4, <1>5, <1>6, <1>7, PutKeeps

-----------------------------------------------------------------------------

LEMMA InvNext == Inv /\ [Next]_vars => Inv'
<1> SUFFICES ASSUME Inv, [Next]_vars PROVE Inv'
  OBVIOUS
<1>1. CASE UNCHANGED vars
  BY <1>1 DEF vars, Inv, TypeOK, SessionOK, Owns, Working
<1>2. ASSUME NEW s \in Sessions, HandleOffer(s) \/ HandleInvite(s) \/ SetUp(s) PROVE Inv'
  BY <1>2, HandleOfferKeeps, HandleInviteKeeps, CheckActiveKeeps, CreateIncomingKeeps, RingMatrixKeeps,
     GatherMatrixKeeps, SendInviteKeeps, SetTimerKeeps, MakeMatrixLegKeeps, AnswerMatrixOfferKeeps,
     FetchRelaysKeeps, MakeSignalLegKeeps, SendOfferKeeps, GatherOutgoingKeeps DEF SetUp
<1>3. ASSUME NEW s \in Sessions,
             MatrixHangup(s) \/ MatrixAnswer(s) \/ HandleRemoteEnd(s) \/ Stop(s) \/ TimerFires(s)
      PROVE  Inv'
  BY <1>3, MatrixHangupKeeps, MatrixAnswerKeeps, HandleRemoteEndKeeps, StopKeeps, TimerFiresKeeps
<1>4. ASSUME NEW s \in Sessions, Answer(s) \/ Connected(s) \/ ConnectFails(s) \/ RelayStops(s)
      PROVE  Inv'
  BY <1>4, AnswerIncomingKeeps, FetchAnswerRelaysKeeps, MakeAnswerLegKeeps, AddPendingKeeps,
     SendAnswerKeeps, ConnectedKeeps, ConnectFailsKeeps, AnswerMatrixKeeps, HandlerGoesOnKeeps,
     RelayStopsKeeps DEF Answer
<1>5. ASSUME NEW s \in Sessions, EndStep(s) PROVE Inv'
  BY <1>5, SendHangupKeeps, CancelKeeps, CloseLegsKeeps, ReleaseKeeps DEF EndStep
<1>6. ASSUME NEW s \in Sessions, NEW d \in Devices, HandleRemoteAnswer(s, d) \/ HandleRemoteICE(s, d)
      PROVE  Inv'
  BY <1>6, HandleRemoteAnswerKeeps, HandleRemoteICEKeeps
<1> QED BY <1>1, <1>2, <1>3, <1>4, <1>5, <1>6 DEF Next

LEMMA Invariance == Spec => []Inv
BY InvInit, InvNext, PTL DEF Spec

\* The fields of every session keep their types.
THEOREM CallTypes == Spec => []TypeOK
<1>1. Inv => TypeOK
  BY DEF Inv
<1> QED BY <1>1, Invariance, PTL

\* However many offers and invites race through startIncoming and startOutgoing, at most one
\* session that has not ended has legs: the second look at active is enough.
THEOREM OneCall == Spec => []OneCallAtATime
<1>1. Inv => OneCallAtATime
  BY DEF Inv, OneCallAtATime, Engaged, Owns
<1> QED BY <1>1, Invariance, PTL

\* No Matrix leg of an incoming call outlives end.
THEOREM NoMatrixLegLeft == Spec => []MatrixLegsClosed
<1>1. Inv => MatrixLegsClosed
  BY DEF Inv, MatrixLegsClosed, SessionOK, Sessions
<1> QED BY <1>1, Invariance, PTL

\* Candidates of the device that the call is with reach the Signal leg, and no others do.
THEOREM CandidatesArrive == Spec => []CandidatesReachLeg
<1>1. Inv => CandidatesReachLeg
  BY DEF Inv, CandidatesReachLeg, SessionOK
<1> QED BY <1>1, Invariance, PTL

\* A peer that takes part is told of every end that this side brings about.
THEOREM PeerTold == Spec => []PeerToldOfEnd
<1>1. Inv => PeerToldOfEnd
  BY DEF Inv, PeerToldOfEnd, SessionOK
<1> QED BY <1>1, Invariance, PTL
=============================================================================

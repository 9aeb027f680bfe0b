-------------------------- MODULE SenderKeysProofs --------------------------
(***************************************************************************)
(* Proofs about SenderKeys for any devices, any number of sending          *)
(* goroutines and any bounds: the lock excludes, a message is never        *)
(* encrypted with a key a removed device has, and the devices it is        *)
(* encrypted for have the key, with the exceptions the properties name.    *)
(***************************************************************************)
EXTENDS SenderKeys, TLAPS

Stages == {"idle", "lock", "devices", "diff", "create", "share", "send"}
Working == {"create", "share", "send"}

SendRec == [at : Stages, retries : 0..MaxRetries, to : SUBSET Users, devs : SUBSET Devices,
            old : SUBSET Devices, dist : Dists \cup {"none"}, shared : SUBSET Devices,
            todo : SUBSET Users, again : BOOLEAN, dropped : SUBSET Users]

WorldOK ==
  /\ group \subseteq Users /\ live \subseteq Devices
  /\ sessions \subseteq Devices /\ stale \subseteq sessions
KeysOK ==
  /\ rec \subseteq Dists
  /\ info = None \/ info \in [dist : Dists, shared : SUBSET Devices, old : BOOLEAN]
GhostOK == holders \cup unrecorded \cup mistaken \subseteq Dists \X Devices

\* One sender, given who holds the lock.
SenderOK(s, r, l) ==
  /\ l = s <=> r.at \notin {"idle", "lock"}
  /\ r.at \notin {"idle", "lock"} => r.retries < MaxRetries
  /\ r.at \in Working => r.dist \in Dists
SendersOK ==
  /\ snd \in [Senders -> SendRec]
  /\ \A s \in Senders : SenderOK(s, snd[s], lock)

TypeInv == WorldOK /\ KeysOK /\ GhostOK /\ SendersOK

-----------------------------------------------------------------------------

LEMMA IdleOK == Idle \in SendRec
BY BoundsAssumption DEF Idle, SendRec, Stages

LEMMA OfUsers == \A D \in SUBSET Devices : UsersOf(D) \subseteq Users
BY DEF UsersOf, Users

LEMMA TypeInit == Init => TypeInv
<1> SUFFICES ASSUME Init PROVE TypeInv
  OBVIOUS
<1>1. WorldOK /\ KeysOK /\ GhostOK
  BY DEF Init, WorldOK, KeysOK, GhostOK
<1>2. SendersOK
  BY IdleOK, NamesAssumption DEF Init, SendersOK, SenderOK, Idle, Working
<1> QED BY <1>1, <1>2 DEF TypeInv

\* Refresh keeps the sessions those of devices.
LEMMA RefreshOK ==
  ASSUME WorldOK, NEW M, Refresh(M)
  PROVE  sessions' \subseteq Devices /\ stale' \subseteq sessions'
BY DEF WorldOK, Refresh, Refreshed

\* One sender moves; the lock is its own before or after, or is not touched.
LEMMA SenderMoves ==
  ASSUME SendersOK, NEW s \in Senders, NEW r \in SendRec,
         snd' = [snd EXCEPT ![s] = r], SenderOK(s, r, lock'),
         lock' = lock \/ (lock \in {"none", s} /\ lock' \in {"none", s})
  PROVE  SendersOK'
<1>1. snd' \in [Senders -> SendRec]
  BY DEF SendersOK
<1>2. ASSUME NEW t \in Senders PROVE SenderOK(t, snd'[t], lock')
  <2>1. CASE t = s
    BY <2>1 DEF SendersOK
  <2>2. CASE t # s
    <3>1. snd'[t] = snd[t] /\ SenderOK(t, snd[t], lock)
      BY <2>2 DEF SendersOK
    <3>2. (lock' = t) <=> (lock = t)
      BY <2>2, NamesAssumption
    <3> QED BY <3>1, <3>2 DEF SenderOK
  <2> QED BY <2>1, <2>2
<1> QED BY <1>1, <1>2 DEF SendersOK

\* An attempt ends, by returning or by starting over.
LEMMA ReturnOK ==
  ASSUME SendersOK, NEW s \in Senders, lock = s, Return(s) \/ Again(s)
  PROVE  SendersOK'
<1>0. snd[s] \in SendRec /\ SenderOK(s, snd[s], s)
  BY DEF SendersOK
<1>1. CASE Return(s)
  <2>1. SenderOK(s, Idle, lock')
    BY <1>1, NamesAssumption DEF Return, SenderOK, Idle, Working
  <2> QED BY <1>1, <2>1, IdleOK, SenderMoves, Zenon DEF Return
<1>2. CASE Again(s)
  <2> DEFINE r == [Idle EXCEPT !.at = "lock", !.retries = snd[s].retries + 1, !.to = snd[s].to]
  <2>1. snd[s].retries + 1 \in 0..MaxRetries
    BY <1>0, BoundsAssumption DEF SenderOK, SendRec
  <2>2. r \in SendRec
    BY <1>0, <2>1, IdleOK, Zenon DEF SendRec, Stages
  <2>3. r.at = "lock"
    BY DEF Idle
  <2>4. SenderOK(s, r, lock')
    BY <1>2, <2>3, NamesAssumption DEF Again, SenderOK, Working
  <2> HIDE DEF r
  <2>5. snd' = [snd EXCEPT ![s] = r] /\ lock' = "none"
    BY <1>2 DEF Again, r
  <2> QED BY <2>2, <2>4, <2>5, SenderMoves, Zenon
<1> QED BY <1>1, <1>2

\* The key goes to devices.
LEMMA GiveOK ==
  ASSUME GhostOK, NEW k \in Dists, NEW D \in SUBSET Devices, NEW shared,
         NEW unnamed \in SUBSET Devices, Give(k, D, shared, unnamed)
  PROVE  GhostOK'
BY DEF GhostOK, Give

LEMMA ForgetOK ==
  ASSUME GhostOK, NEW k, ForgetHolders(k)
  PROVE  GhostOK'
BY DEF GhostOK, ForgetHolders

LEMMA InterruptedOK ==
  ASSUME GhostOK, KeysOK, Interrupted
  PROVE  GhostOK'
<1>1. Named \subseteq Dists \X Devices
  BY DEF KeysOK, Named, None
<1> QED BY <1>1 DEF GhostOK, Interrupted

\* Every step of a sender keeps the types and the exclusion.
LEMMA SenderTypes ==
  ASSUME TypeInv, NEW s \in Senders, Sender(s)
  PROVE  TypeInv'
<1> USE DEF TypeInv
<1> DEFINE Goal == TypeInv'
<1>0. snd[s] \in SendRec /\ SenderOK(s, snd[s], lock)
  BY DEF SendersOK
<1>a. /\ snd[s].devs \in SUBSET Devices /\ snd[s].to \in SUBSET Users /\ snd[s].shared \in SUBSET Devices
      /\ snd[s].todo \in SUBSET Users /\ snd[s].dropped \in SUBSET Users /\ snd[s].old \in SUBSET Devices
      /\ snd[s].dist \in Dists \cup {"none"} /\ snd[s].retries \in 0..MaxRetries
  BY <1>0 DEF SendRec
<1> SUFFICES Goal
  OBVIOUS
<1> HIDE DEF Goal
<1>1. CASE SendGroupMessage(s)
  <2>1. WorldOK' /\ KeysOK' /\ GhostOK'
    BY <1>1 DEF SendGroupMessage, serverVars, sessionVars, keyVars, ghostVars, WorldOK, KeysOK, GhostOK
  <2> DEFINE r == [snd[s] EXCEPT !.at = "lock", !.to = group]
  <2>2. r \in SendRec /\ r.at = "lock"
    BY <1>0, Zenon DEF SendRec, Stages, WorldOK
  <2>3. snd' = [snd EXCEPT ![s] = r] /\ lock' = lock
    BY <1>1, <1>0, Zenon DEF SendGroupMessage, SendersOK
  <2>4. SenderOK(s, r, lock')
    BY <1>0, <1>1, <2>2, <2>3 DEF SenderOK, SendGroupMessage, Working
  <2>5. SendersOK'
    <3> HIDE DEF r
    <3> QED BY <2>2, <2>3, <2>4, SenderMoves, Zenon
  <2> QED BY <2>1, <2>5 DEF Goal
<1>2. CASE GiveUp(s)
  <2>1. WorldOK' /\ KeysOK' /\ GhostOK'
    BY <1>2 DEF GiveUp, serverVars, sessionVars, keyVars, ghostVars, WorldOK, KeysOK, GhostOK
  <2>2. SenderOK(s, Idle, lock')
    BY <1>0, <1>2 DEF GiveUp, SenderOK, Working, Idle
  <2>3. SendersOK'
    BY <1>2, <2>2, IdleOK, SenderMoves, Zenon DEF GiveUp
  <2> QED BY <2>1, <2>3 DEF Goal
<1>3. CASE Lock(s)
  <2>1. WorldOK' /\ KeysOK' /\ GhostOK'
    BY <1>3 DEF Lock, serverVars, sessionVars, keyVars, ghostVars, WorldOK, KeysOK, GhostOK
  <2> DEFINE r == [snd[s] EXCEPT !.at = "devices"]
  <2>2. r \in SendRec /\ r.at = "devices" /\ r.retries = snd[s].retries
    BY <1>0 DEF SendRec, Stages
  <2>3. snd' = [snd EXCEPT ![s] = r] /\ lock' = s /\ lock = "none"
    BY <1>3, <1>0 DEF Lock, SendersOK
  <2>4. SenderOK(s, r, lock')
    BY <1>0, <1>3, <2>2, <2>3 DEF SenderOK, Lock, Working
  <2>5. SendersOK'
    <3> HIDE DEF r
    <3> QED BY <2>2, <2>3, <2>4, SenderMoves, Zenon
  <2> QED BY <2>1, <2>5 DEF Goal
<1>4. CASE GetDevicesIDs(s)
  <2>1. KeysOK' /\ GhostOK'
    BY <1>4, Zenon DEF GetDevicesIDs, keyVars, ghostVars, KeysOK, GhostOK
  <2> DEFINE devs(M) == {d \in Refreshed(M) : d[1] \in snd[s].to}
             r(M) == [snd[s] EXCEPT !.at = "diff", !.devs = devs(M), !.old = stale \cap devs(M)]
  <2>2. PICK M : Refresh(M) /\ IF devs(M) = {} THEN Return(s)
                               ELSE /\ snd' = [snd EXCEPT ![s].at = "diff", ![s].devs = devs(M),
                                                          ![s].old = stale \cap devs(M)]
                                    /\ UNCHANGED lock
    BY <1>4, Zenon DEF GetDevicesIDs
  <2>3. WorldOK'
    BY <1>4, <2>2, RefreshOK, Zenon DEF GetDevicesIDs, serverVars, WorldOK
  <2>4. lock = s
    BY <1>0, <1>4, Zenon DEF GetDevicesIDs, SenderOK
  <2>5. CASE devs(M) = {}
    BY <2>1, <2>2, <2>3, <2>4, <2>5, ReturnOK DEF Goal
  <2>6. CASE devs(M) # {}
    <3>1. devs(M) \in SUBSET Devices
      BY DEF Refreshed, WorldOK
    <3> HIDE DEF devs
    <3>2. r(M) \in SendRec /\ r(M).at = "diff" /\ r(M).retries = snd[s].retries
      BY <1>0, <3>1, Zenon DEF SendRec, Stages
    <3>3. snd' = [snd EXCEPT ![s] = r(M)] /\ lock' = lock
      BY <2>2, <2>6, <1>0, Zenon DEF SendersOK
    <3>4. SenderOK(s, r(M), lock')
      BY <1>0, <1>4, <3>2, <3>3, Zenon DEF SenderOK, GetDevicesIDs, Working
    <3>5. SendersOK'
      <4> HIDE DEF r
      <4> QED BY <3>2, <3>3, <3>4, SenderMoves, Zenon
    <3> QED BY <2>1, <2>3, <3>5 DEF Goal
  <2> QED BY <2>5, <2>6
<1>5. CASE Compare(s)
  <2>1. WorldOK'
    BY <1>5 DEF Compare, serverVars, sessionVars, WorldOK
  <2>2. lock = s /\ lock' = lock /\ snd[s].at = "diff"
    BY <1>0, <1>5 DEF Compare, SenderOK
  <2>3. KeysOK' /\ GhostOK'
    <3>1. CASE DeleteSenderKey(info.dist)
      BY <1>5, <3>1, ForgetOK DEF Compare, DeleteSenderKey, KeysOK
    <3>2. CASE UNCHANGED <<rec, ghostVars>>
      BY <1>5, <3>2 DEF Compare, ghostVars, KeysOK, GhostOK
    <3> QED BY <1>5, <3>1, <3>2 DEF Compare
  <2>4. PICK k \in Dists, shared \in SUBSET Devices : Compared(s, k, shared)
    <3>1. info # None => info.dist \in Dists /\ info.shared \in SUBSET Devices
      BY DEF KeysOK
    <3>2. {} \in SUBSET Devices
      OBVIOUS
    <3>3. CASE info = None \/ info.old
      <4>1. Unused # {} => (CHOOSE k \in Unused : TRUE) \in Dists
        BY DEF Unused
      <4> QED BY <1>5, <3>1, <3>2, <3>3, <4>1 DEF Compare
    <3>4. CASE info # None /\ ~info.old
      BY <1>5, <3>1, <3>2, <3>4 DEF Compare
    <3> QED BY <3>3, <3>4
  <2> DEFINE todo == AddedTo(shared, snd[s].devs)
             at == IF todo = {} THEN "send" ELSE "create"
             r == [snd[s] EXCEPT !.at = at, !.dist = k, !.shared = shared, !.todo = todo]
  <2>5. todo \in SUBSET Users
    BY <1>a DEF AddedTo, UsersOf, Users
  <2>6. at \in {"send", "create"}
    OBVIOUS
  <2>7. snd' = [snd EXCEPT ![s] = r]
    BY <2>4, <1>0, Zenon DEF Compared, SendersOK
  <2> HIDE DEF todo, at
  <2>8. r \in SendRec /\ r.at = at /\ r.retries = snd[s].retries /\ r.dist = k
    BY <1>0, <2>5, <2>6, Zenon DEF SendRec, Stages
  <2>9. SenderOK(s, r, lock')
    BY <1>0, <2>2, <2>6, <2>8 DEF SenderOK, Working
  <2>10. SendersOK'
    <3> HIDE DEF r
    <3> QED BY <2>2, <2>7, <2>8, <2>9, SenderMoves, Zenon
  <2> QED BY <2>1, <2>3, <2>10 DEF Goal
<1>6. CASE Create(s)
  <2>1. WorldOK' /\ GhostOK'
    BY <1>6 DEF Create, serverVars, sessionVars, ghostVars, WorldOK, GhostOK
  <2>2. lock = s /\ lock' = lock /\ snd[s].dist \in Dists /\ snd[s].retries < MaxRetries
    BY <1>0, <1>6 DEF Create, SenderOK, Working
  <2>3. KeysOK'
    BY <1>6, <2>2 DEF Create, KeysOK
  <2> DEFINE r == [snd[s] EXCEPT !.at = "share"]
  <2>4. r \in SendRec /\ r.at = "share" /\ r.retries = snd[s].retries /\ r.dist = snd[s].dist
    BY <1>0 DEF SendRec, Stages
  <2>5. snd' = [snd EXCEPT ![s] = r]
    BY <1>6, <1>0 DEF Create, SendersOK
  <2>6. SenderOK(s, r, lock')
    BY <2>2, <2>4 DEF SenderOK, Working
  <2>7. SendersOK'
    <3> HIDE DEF r
    <3> QED BY <2>2, <2>4, <2>5, <2>6, SenderMoves, Zenon
  <2> QED BY <2>1, <2>3, <2>7 DEF Goal
<1>7. ASSUME NEW m \in Users, Share(s, m) PROVE Goal
  <2>1. KeysOK'
    BY <1>7 DEF Share, keyVars, KeysOK
  <2>2. lock = s /\ lock' = lock /\ snd[s].dist \in Dists /\ snd[s].retries < MaxRetries /\ snd[s].at = "share"
    BY <1>0, <1>7 DEF Share, SenderOK, Working
  <2>3. Of(m, live) \in SUBSET Devices /\ Of(m, snd[s].devs) \in SUBSET Devices
    BY <1>a DEF Of, WorldOK
  <2>4. WorldOK'
    <3>1. CASE Refresh({m})
      BY <1>7, <3>1, RefreshOK DEF Share, serverVars, WorldOK
    <3>2. CASE UNCHANGED sessionVars
      BY <1>7, <3>2 DEF Share, serverVars, sessionVars, WorldOK
    <3> QED BY <1>7, <3>1, <3>2 DEF Share, ShareSucceeds, ShareOutdated, ShareFails
  <2>5. GhostOK'
    <3>1. CASE UNCHANGED ghostVars
      BY <3>1 DEF ghostVars, GhostOK
    <3>2. CASE \E shared, unnamed \in SUBSET Devices : Give(snd[s].dist, Of(m, live), shared, unnamed)
      BY <2>2, <2>3, <3>2, GiveOK
    <3>3. Of(m, live) \ snd[s].devs \in SUBSET Devices
      BY <2>3
    <3>4. CASE ShareSucceeds(s, m)
      <4>1. {d \in snd[s].shared : d[1] # m} \cup Of(m, snd[s].devs) \in SUBSET Devices
        BY <1>a, <2>3
      <4> QED BY <3>2, <3>3, <3>4, <4>1 DEF ShareSucceeds
    <3>5. CASE ShareOutdated(s, m)
      BY <3>1, <3>5 DEF ShareOutdated
    <3>6. CASE ShareFails(s, m)
      BY <1>a, <2>3, <3>1, <3>2, <3>6 DEF ShareFails
    <3> QED BY <1>7, <3>4, <3>5, <3>6 DEF Share
  <2>6. PICK r \in SendRec : /\ snd' = [snd EXCEPT ![s] = r]
                             /\ r.at = "share" /\ r.retries = snd[s].retries /\ r.dist = snd[s].dist
    <3>1. CASE ShareSucceeds(s, m)
      <4> DEFINE shared == {d \in snd[s].shared : d[1] # m} \cup Of(m, snd[s].devs)
                 todo == snd[s].todo \ {m}
                 r == [snd[s] EXCEPT !.shared = shared, !.todo = todo]
      <4>1. shared \in SUBSET Devices /\ todo \in SUBSET Users
        BY <1>a, <2>3
      <4>2. snd' = [snd EXCEPT ![s] = r]
        BY <1>0, <3>1, Zenon DEF ShareSucceeds, SendersOK
      <4> HIDE DEF shared, todo
      <4>3. r \in SendRec /\ r.at = "share" /\ r.retries = snd[s].retries /\ r.dist = snd[s].dist
        BY <1>0, <2>2, <4>1, Zenon DEF SendRec
      <4> QED BY <4>2, <4>3, Zenon
    <3>2. CASE ShareOutdated(s, m)
      <4> DEFINE todo == snd[s].todo \ {m}
                 r == [snd[s] EXCEPT !.todo = todo, !.again = TRUE]
      <4>1. todo \in SUBSET Users
        BY <1>a
      <4>2. snd' = [snd EXCEPT ![s] = r]
        BY <1>0, <3>2, Zenon DEF ShareOutdated, SendersOK
      <4> HIDE DEF todo
      <4>3. r \in SendRec /\ r.at = "share" /\ r.retries = snd[s].retries /\ r.dist = snd[s].dist
        BY <1>0, <2>2, <4>1, Zenon DEF SendRec
      <4> QED BY <4>2, <4>3, Zenon
    <3>3. CASE ShareFails(s, m)
      <4> DEFINE todo == snd[s].todo \ {m}
                 dropped == snd[s].dropped \cup {m}
                 r == [snd[s] EXCEPT !.todo = todo, !.dropped = dropped]
      <4>1. todo \in SUBSET Users /\ dropped \in SUBSET Users
        BY <1>a
      <4>2. snd' = [snd EXCEPT ![s] = r]
        BY <1>0, <3>3, Zenon DEF ShareFails, SendersOK
      <4> HIDE DEF todo, dropped
      <4>3. r \in SendRec /\ r.at = "share" /\ r.retries = snd[s].retries /\ r.dist = snd[s].dist
        BY <1>0, <2>2, <4>1, Zenon DEF SendRec
      <4> QED BY <4>2, <4>3, Zenon
    <3> QED BY <1>7, <3>1, <3>2, <3>3 DEF Share
  <2>7. SenderOK(s, r, lock')
    BY <2>2, <2>6 DEF SenderOK, Working
  <2>8. SendersOK'
    BY <2>2, <2>6, <2>7, SenderMoves, Zenon
  <2> QED BY <2>1, <2>4, <2>5, <2>8 DEF Goal
<1>8. CASE PutSenderKeyInfo(s)
  <2>1. WorldOK' /\ GhostOK'
    BY <1>8 DEF PutSenderKeyInfo, serverVars, sessionVars, ghostVars, WorldOK, GhostOK
  <2>2. lock = s /\ snd[s].dist \in Dists /\ snd[s].retries < MaxRetries
    BY <1>0, <1>8 DEF PutSenderKeyInfo, SenderOK, Working
  <2>3. KeysOK'
    <3> DEFINE old == info.dist = snd[s].dist /\ info.old
    <3>1. old \in BOOLEAN
      OBVIOUS
    <3>2. info' = [dist |-> snd[s].dist, shared |-> snd[s].shared, old |-> old] /\ rec' = rec
      BY <1>8 DEF PutSenderKeyInfo
    <3> HIDE DEF old
    <3>3. info' \in [dist : Dists, shared : SUBSET Devices, old : BOOLEAN]
      BY <1>a, <2>2, <3>1, <3>2
    <3> QED BY <3>2, <3>3 DEF KeysOK
  <2>4. CASE snd[s].again
    BY <1>8, <2>1, <2>2, <2>3, <2>4, ReturnOK DEF PutSenderKeyInfo, Goal
  <2>5. CASE ~snd[s].again
    <3> DEFINE r == [snd[s] EXCEPT !.at = "send"]
    <3>1. r \in SendRec /\ r.at = "send" /\ r.retries = snd[s].retries /\ r.dist = snd[s].dist
      BY <1>0 DEF SendRec, Stages
    <3>2. snd' = [snd EXCEPT ![s] = r] /\ lock' = lock
      BY <1>8, <1>0, <2>5 DEF PutSenderKeyInfo, SendersOK
    <3>3. SenderOK(s, r, lock')
      BY <2>2, <3>1, <3>2 DEF SenderOK, Working
    <3>4. SendersOK'
      <4> HIDE DEF r
      <4> QED BY <3>1, <3>2, <3>3, SenderMoves, Zenon
    <3> QED BY <2>1, <2>3, <3>4 DEF Goal
  <2> QED BY <2>4, <2>5
<1>9. CASE NoKey(s)
  <2>1. WorldOK' /\ GhostOK' /\ KeysOK'
    BY <1>9 DEF NoKey, serverVars, sessionVars, ghostVars, WorldOK, GhostOK, KeysOK
  <2>2. lock = s
    BY <1>0, <1>9 DEF NoKey, SenderOK
  <2> QED BY <1>9, <2>1, <2>2, ReturnOK DEF NoKey, Goal
<1>10. CASE SendAccepted(s) \/ SendOutdated(s) \/ SendFails(s)
  <2>1. GhostOK' /\ KeysOK'
    BY <1>10 DEF SendAccepted, SendOutdated, SendFails, keyVars, ghostVars, GhostOK, KeysOK
  <2>2. lock = s
    BY <1>0, <1>10 DEF SendAccepted, SendOutdated, SendFails, SenderOK
  <2>3. WorldOK'
    <3>1. CASE \E M : Refresh(M)
      BY <1>10, <3>1, RefreshOK DEF SendAccepted, SendOutdated, SendFails, serverVars, WorldOK
    <3>2. CASE UNCHANGED sessionVars
      BY <1>10, <3>2 DEF SendAccepted, SendOutdated, SendFails, serverVars, sessionVars, WorldOK
    <3> QED BY <1>10, <3>1, <3>2 DEF SendAccepted, SendOutdated, SendFails
  <2>4. Return(s) \/ Again(s)
    BY <1>10 DEF SendAccepted, SendOutdated, SendFails
  <2> QED BY <2>1, <2>2, <2>3, <2>4, ReturnOK DEF Goal
<1> QED
  BY <1>1, <1>2, <1>3, <1>4, <1>5, <1>6, <1>7, <1>8, <1>9, <1>10 DEF Sender

\* All attempts are gone.
LEMMA AllIdle ==
  ASSUME snd' = [s \in Senders |-> Idle], lock' = "none"
  PROVE  SendersOK'
BY IdleOK, NamesAssumption DEF SendersOK, SenderOK, Idle, Working

\* Every other step keeps them too.
LEMMA OtherTypes ==
  ASSUME TypeInv, Others
  PROVE  TypeInv'
<1> USE DEF TypeInv
<1> DEFINE Goal == TypeInv'
<1> SUFFICES Goal
  OBVIOUS
<1> HIDE DEF Goal
<1>0. info # None => info.dist \in Dists /\ info.shared \in SUBSET Devices /\ Named \subseteq Dists \X Devices
  BY DEF KeysOK, Named
<1>1. ASSUME NEW d \in Devices, AnswerRetry(d) PROVE Goal
  <2>1. SendersOK'
    BY <1>1 DEF AnswerRetry, SendersOK
  <2>2. WorldOK'
    BY <1>1, RefreshOK DEF AnswerRetry, serverVars, WorldOK
  <2>3. KeysOK'
    BY <1>0, <1>1 DEF AnswerRetry, KeysOK
  <2>4. GhostOK'
    <3>1. CASE UNCHANGED ghostVars
      BY <3>1 DEF ghostVars, GhostOK
    <3>2. CASE Give(info.dist, Of(d[1], live), info.shared, Of(d[1], live) \ {d})
      <4>1. Of(d[1], live) \in SUBSET Devices /\ Of(d[1], live) \ {d} \in SUBSET Devices
        BY DEF Of, WorldOK
      <4> QED BY <1>0, <1>1, <3>2, <4>1, GiveOK DEF AnswerRetry
    <3> QED BY <1>1, <3>1, <3>2 DEF AnswerRetry
  <2> QED BY <2>1, <2>2, <2>3, <2>4 DEF Goal
<1>2. ASSUME NEW d \in Devices, IncomingSession(d) PROVE Goal
  BY <1>2 DEF IncomingSession, serverVars, keyVars, ghostVars, WorldOK, KeysOK, GhostOK, SendersOK, Goal
<1>3. ASSUME NEW d \in Devices, Register(d) PROVE Goal
  <2>1. WorldOK' /\ KeysOK'
    BY <1>3 DEF Register, keyVars, WorldOK, KeysOK
  <2>2. GhostOK'
    BY <1>3 DEF Register, GhostOK
  <2>3. ASSUME NEW s \in Senders
        PROVE  /\ snd'[s] \in SendRec
               /\ snd'[s].at = snd[s].at /\ snd'[s].retries = snd[s].retries /\ snd'[s].dist = snd[s].dist
    <3> DEFINE old == snd[s].old \cup ({d} \cap snd[s].devs)
    <3>1. snd[s] \in SendRec
      BY DEF SendersOK
    <3>2. old \in SUBSET Devices
      BY <3>1 DEF SendRec
    <3>3. snd'[s] = [snd[s] EXCEPT !.old = old]
      BY <1>3, <3>1 DEF Register, SendRec
    <3> HIDE DEF old
    <3> QED BY <3>1, <3>2, <3>3 DEF SendRec
  <2>4. SendersOK'
    <3>1. snd' \in [Senders -> SendRec]
      BY <1>3, <2>3 DEF Register
    <3>2. ASSUME NEW s \in Senders PROVE SenderOK(s, snd'[s], lock')
      <4>1. SenderOK(s, snd[s], lock) /\ lock' = lock
        BY <1>3 DEF Register, SendersOK
      <4> QED BY <2>3, <4>1 DEF SenderOK
    <3> QED BY <3>1, <3>2 DEF SendersOK
  <2> QED BY <2>1, <2>2, <2>4 DEF Goal
<1>4. ASSUME NEW d \in Devices, Unlink(d) PROVE Goal
  BY <1>4 DEF Unlink, sessionVars, keyVars, ghostVars, WorldOK, KeysOK, GhostOK, SendersOK, Goal
<1>5. ASSUME NEW m \in Users, OtherSend(m) PROVE Goal
  <2>1. KeysOK' /\ GhostOK' /\ SendersOK'
    BY <1>5 DEF OtherSend, keyVars, ghostVars, KeysOK, GhostOK, SendersOK
  <2>2. WorldOK'
    BY <1>5, RefreshOK DEF OtherSend, serverVars, WorldOK
  <2> QED BY <2>1, <2>2 DEF Goal
<1>6. ASSUME NEW m \in Users, GroupChanges(m) PROVE Goal
  BY <1>6 DEF GroupChanges, sessionVars, keyVars, ghostVars, WorldOK, KeysOK, GhostOK, SendersOK, Goal
<1>7. CASE ResetSenderKey
  <2>1. WorldOK' /\ SendersOK' /\ KeysOK'
    BY <1>7 DEF ResetSenderKey, DeleteSenderKey, serverVars, sessionVars, WorldOK, SendersOK, KeysOK
  <2>2. GhostOK'
    BY <1>7, ForgetOK DEF ResetSenderKey, DeleteSenderKey
  <2> QED BY <2>1, <2>2 DEF Goal
<1>8. CASE ResetFails
  <2>1. WorldOK' /\ SendersOK' /\ KeysOK'
    BY <1>8 DEF ResetFails, serverVars, sessionVars, WorldOK, SendersOK, KeysOK
  <2>2. GhostOK'
    BY <1>0, <1>8 DEF ResetFails, GhostOK
  <2> QED BY <2>1, <2>2 DEF Goal
<1>9. CASE KeyAges
  <2>1. WorldOK' /\ SendersOK' /\ GhostOK'
    BY <1>9 DEF KeyAges, serverVars, sessionVars, ghostVars, WorldOK, SendersOK, GhostOK
  <2>2. KeysOK'
    BY <1>9, Zenon DEF KeyAges, KeysOK
  <2> QED BY <2>1, <2>2 DEF Goal
<1>10. CASE Crash
  <2>1. WorldOK' /\ KeysOK'
    BY <1>10 DEF Crash, serverVars, sessionVars, keyVars, WorldOK, KeysOK
  <2>2. GhostOK'
    BY <1>10, InterruptedOK DEF Crash
  <2>3. SendersOK'
    BY <1>10, AllIdle DEF Crash
  <2> QED BY <2>1, <2>2, <2>3 DEF Goal
<1>11. ASSUME NEW s \in Senders, StoreFails(s) PROVE Goal
  <2>1. WorldOK' /\ KeysOK'
    BY <1>11 DEF StoreFails, serverVars, sessionVars, keyVars, WorldOK, KeysOK
  <2>2. GhostOK'
    BY <1>11, InterruptedOK DEF StoreFails
  <2>3. lock = s
    BY <1>11 DEF StoreFails, SendersOK, SenderOK
  <2>4. SendersOK'
    BY <1>11, <2>3, ReturnOK DEF StoreFails
  <2> QED BY <2>1, <2>2, <2>4 DEF Goal
<1> QED
  BY <1>1, <1>2, <1>3, <1>4, <1>5, <1>6, <1>7, <1>8, <1>9, <1>10, <1>11 DEF Others

LEMMA TypeInvariant == Spec => []TypeInv
<1>1. TypeInv /\ [Next]_vars => TypeInv'
  <2> SUFFICES ASSUME TypeInv, [Next]_vars PROVE TypeInv'
    OBVIOUS
  <2>1. CASE Next
    BY <2>1, SenderTypes, OtherTypes DEF Next
  <2>2. CASE UNCHANGED vars
    BY <2>2 DEF vars, TypeInv, WorldOK, KeysOK, GhostOK, SendersOK
  <2> QED BY <2>1, <2>2
<1> QED BY <1>1, TypeInit, PTL DEF Spec

\* The variables keep their types, and the attempts are bounded.
THEOREM SenderKeysTypes == Spec => []TypeOK
<1>1. TypeInv => TypeOK
  BY DEF TypeInv, WorldOK, KeysOK, GhostOK, SendersOK, SenderOK, SendRec, Stages, TypeOK
<1> QED BY <1>1, TypeInvariant, PTL

\* Between taking encryptionLock and giving it back.
Inside(s) == snd[s].at \notin {"idle", "lock"}

\* No two goroutines are between taking encryptionLock and giving it back, and
\* whoever is holds it, although sendToGroupWithSenderKey gives it back in the
\* middle of an attempt to start over.
THEOREM LockExcludes ==
  Spec => [](\A s, t \in Senders : Inside(s) => lock = s /\ (Inside(t) => s = t))
<1>1. TypeInv => \A s, t \in Senders : Inside(s) => lock = s /\ (Inside(t) => s = t)
  BY DEF TypeInv, SendersOK, SenderOK, Inside
<1> QED BY <1>1, TypeInvariant, PTL

-----------------------------------------------------------------------------

\* The devices S are recorded for the key k: whoever was sent it is in S, unless
\* unrecorded, and whoever is in S and exists was sent it, unless mistaken.
Keyed(k, S) ==
  /\ \A x \in holders : x[1] = k => x[2] \in S \/ x \in unrecorded
  /\ \A d \in S \cap live : <<k, d>> \in holders \cup mistaken

HoldersRec == \A x \in holders : x[1] \in rec

\* The row is right whenever nobody is about to replace it.
InfoOK == Keyed(info.dist, info.shared)
StoredOK == (\A s \in Senders : snd[s].at \notin {"create", "share"}) => InfoOK

\* What an attempt has found out and done so far.
AttemptOK(s) ==
  /\ snd[s].at = "diff" => snd[s].devs # {}
  /\ snd[s].at \in Working => snd[s].shared \subseteq snd[s].devs /\ Keyed(snd[s].dist, snd[s].shared)
  /\ snd[s].at \in {"create", "share"} =>
       \A d \in snd[s].devs : d \in snd[s].shared \/ d[1] \in snd[s].todo \cup snd[s].dropped \/ snd[s].again
  /\ snd[s].at = "share" => snd[s].dist \in rec
  /\ snd[s].at = "send" =>
       /\ info.dist = snd[s].dist /\ info.shared = snd[s].shared
       /\ \A d \in snd[s].devs : d \in snd[s].shared \/ d[1] \in snd[s].dropped

KeyInv == HoldersRec /\ StoredOK /\ \A s \in Senders : AttemptOK(s)

LEMMA KeyInit == Init => KeyInv
<1> SUFFICES ASSUME Init PROVE KeyInv
  OBVIOUS
<1>1. HoldersRec /\ StoredOK
  BY DEF Init, HoldersRec, StoredOK, InfoOK, Keyed, None
<1>2. ASSUME NEW s \in Senders PROVE AttemptOK(s)
  BY DEF Init, AttemptOK, Idle, Working
<1> QED BY <1>1, <1>2 DEF KeyInv

\* Give: the devices that are new in the record are among those that got the
\* key, and those that got it are recorded or have a reason not to be.
LEMMA KeyedGive ==
  ASSUME GhostOK, live \subseteq Devices, NEW k \in Dists, NEW S, NEW T, NEW D \in SUBSET Devices, NEW U,
         Keyed(k, S), Give(k, D, T, U), live' = live,
         S \subseteq T, D \subseteq T \cup U, (T \ S) \cap live \subseteq D
  PROVE  Keyed(k, T)'
<1>1. ASSUME NEW x \in holders', x[1] = k PROVE x[2] \in T \/ x \in unrecorded'
  <2>1. CASE x \in holders
    BY <1>1, <2>1 DEF Keyed, Give
  <2>2. CASE x \in {k} \X D
    BY <2>2 DEF Give
  <2> QED BY <2>1, <2>2 DEF Give
<1>2. ASSUME NEW d \in T \cap live PROVE <<k, d>> \in holders' \cup mistaken'
  <2>1. CASE d \in D
    BY <2>1 DEF Give
  <2>2. CASE d \notin D
    BY <2>2 DEF Give, Keyed
  <2> QED BY <2>1, <2>2
<1> QED BY <1>1, <1>2 DEF Keyed

\* A deleted key has no holders.
LEMMA KeyedForget ==
  ASSUME NEW k, ForgetHolders(k)
  PROVE  Keyed(k, {})'
BY DEF Keyed, ForgetHolders, Holding

\* A device registers anew.
LEMMA KeyedRegister ==
  ASSUME GhostOK, NEW d \in Devices, Register(d), NEW k, NEW S, Keyed(k, S),
         d \in S => <<k, d>> \in mistaken'
  PROVE  Keyed(k, S)'
<1>1. ASSUME NEW x \in holders', x[1] = k PROVE x[2] \in S \/ x \in unrecorded'
  BY <1>1 DEF Keyed, Register
<1>2. ASSUME NEW e \in S \cap live' PROVE <<k, e>> \in holders' \cup mistaken'
  <2>1. CASE e = d
    BY <2>1
  <2>2. CASE e # d
    BY <2>2 DEF Register, Keyed
  <2> QED BY <2>1, <2>2
<1> QED BY <1>1, <1>2 DEF Keyed

\* With the lock held by s or by nobody, nobody else is at work.
LEMMA OthersRest ==
  ASSUME TypeInv, NEW s, lock \in {s, "none"}, NEW t \in Senders, t # s
  PROVE  snd[t].at \in {"idle", "lock"}
BY NamesAssumption DEF TypeInv, SendersOK, SenderOK

LEMMA StoredNow ==
  ASSUME TypeInv, KeyInv, NEW s \in Senders, lock \in {s, "none"}, snd[s].at \notin {"create", "share"}
  PROVE  InfoOK
<1>1. ASSUME NEW t \in Senders PROVE snd[t].at \notin {"create", "share"}
  BY OthersRest
<1> QED BY <1>1 DEF KeyInv, StoredOK

\* A step of the holder of the lock.
LEMMA LockedStep ==
  ASSUME TypeInv, NEW s \in Senders, lock = s,
         \A t \in Senders : t # s => snd'[t] = snd[t],
         HoldersRec', AttemptOK(s)', snd'[s].at \notin {"create", "share"} => InfoOK'
  PROVE  KeyInv'
<1>1. ASSUME NEW t \in Senders PROVE AttemptOK(t)'
  <2>1. CASE t # s
    BY <2>1, OthersRest DEF AttemptOK, Working
  <2> QED BY <2>1
<1>2. StoredOK'
  BY DEF StoredOK
<1> QED BY <1>1, <1>2 DEF KeyInv

\* An attempt that ends leaves the row right if it was or if it wrote it.
LEMMA EndStep ==
  ASSUME TypeInv, NEW s \in Senders, lock = s, Return(s) \/ Again(s), HoldersRec', InfoOK'
  PROVE  KeyInv'
<1>1. \A t \in Senders : t # s => snd'[t] = snd[t]
  BY DEF Return, Again, TypeInv, SendersOK
<1>2. snd'[s].at \in {"idle", "lock"}
  <2>1. DOMAIN snd = Senders
    BY DEF TypeInv, SendersOK
  <2>2. CASE Return(s)
    BY <2>1, <2>2 DEF Return, Idle
  <2>3. CASE Again(s)
    <3>1. snd'[s] = [Idle EXCEPT !.at = "lock", !.retries = snd[s].retries + 1, !.to = snd[s].to]
      BY <2>1, <2>3 DEF Again
    <3> QED BY <3>1 DEF Idle
  <2> QED BY <2>2, <2>3
<1>3. AttemptOK(s)'
  BY <1>2 DEF AttemptOK, Working
<1> QED BY <1>1, <1>3, LockedStep

\* Steps that touch neither the keys nor who has them.
LEMMA KeysUntouched ==
  ASSUME KeyInv, UNCHANGED <<live, rec, info, holders, unrecorded, mistaken>>
  PROVE  HoldersRec' /\ (InfoOK => InfoOK') /\ \A k, S : Keyed(k, S) => Keyed(k, S)'
<1>1. HoldersRec'
  BY DEF KeyInv, HoldersRec
<1>2. InfoOK => InfoOK'
  BY DEF InfoOK, Keyed
<1>3. ASSUME NEW k, NEW S, Keyed(k, S) PROVE Keyed(k, S)'
  BY <1>3 DEF Keyed
<1> QED BY <1>1, <1>2, <1>3

\* Every step of a sender keeps KeyInv.
LEMMA SenderKeyStep ==
  ASSUME TypeInv, KeyInv, NEW s \in Senders, Sender(s)
  PROVE  KeyInv'
<1> DEFINE Goal == KeyInv'
<1>0. snd \in [Senders -> SendRec] /\ snd[s] \in SendRec /\ SenderOK(s, snd[s], lock) /\ AttemptOK(s) /\ HoldersRec
  BY DEF TypeInv, SendersOK, KeyInv
<1>a. /\ snd[s].devs \in SUBSET Devices /\ snd[s].shared \in SUBSET Devices
      /\ DOMAIN snd = Senders /\ live \subseteq Devices /\ GhostOK
  BY <1>0 DEF SendRec, TypeInv, WorldOK
<1> SUFFICES Goal
  OBVIOUS
<1> HIDE DEF Goal
<1>1. CASE SendGroupMessage(s) \/ GiveUp(s) \/ Lock(s)
  <2>1. UNCHANGED <<live, rec, info, holders, unrecorded, mistaken>>
    BY <1>1 DEF SendGroupMessage, GiveUp, Lock, serverVars, keyVars, ghostVars
  <2>2. snd[s].at \in {"idle", "lock"} /\ snd'[s].at \in {"idle", "lock", "devices"}
    BY <1>0, <1>1 DEF SendGroupMessage, GiveUp, Lock, Idle, SendRec
  <2>3. \A t \in Senders : t # s => snd'[t] = snd[t]
    BY <1>0, <1>1 DEF SendGroupMessage, GiveUp, Lock
  <2>4. ASSUME NEW t \in Senders PROVE AttemptOK(t)'
    <3>1. CASE t = s
      BY <2>2, <3>1 DEF AttemptOK, Working
    <3>2. CASE t # s
      BY <2>1, <2>3, <3>2 DEF AttemptOK, KeyInv, Keyed
    <3> QED BY <3>1, <3>2
  <2>5. StoredOK'
    <3> SUFFICES ASSUME \A t \in Senders : snd'[t].at \notin {"create", "share"} PROVE InfoOK'
      BY DEF StoredOK
    <3>1. \A t \in Senders : snd[t].at \notin {"create", "share"}
      BY <2>2, <2>3
    <3> QED BY <2>1, <3>1, KeysUntouched DEF KeyInv, StoredOK
  <2> QED BY <2>1, <2>4, <2>5, KeysUntouched DEF KeyInv, Goal
<1>2. CASE GetDevicesIDs(s)
  <2>1. UNCHANGED <<live, rec, info, holders, unrecorded, mistaken>> /\ lock = s /\ snd[s].at = "devices"
    BY <1>0, <1>2, Zenon DEF GetDevicesIDs, serverVars, keyVars, ghostVars, SenderOK
  <2>2. HoldersRec' /\ InfoOK'
    BY <2>1, StoredNow, KeysUntouched
  <2> DEFINE devs(M) == {d \in Refreshed(M) : d[1] \in snd[s].to}
  <2>3. PICK M : IF devs(M) = {} THEN Return(s)
                 ELSE snd' = [snd EXCEPT ![s].at = "diff", ![s].devs = devs(M), ![s].old = stale \cap devs(M)]
    BY <1>2, Zenon DEF GetDevicesIDs
  <2> HIDE DEF devs
  <2>4. CASE devs(M) = {}
    BY <2>1, <2>2, <2>3, <2>4, EndStep DEF Goal
  <2>5. CASE devs(M) # {}
    <3>1. snd'[s].at = "diff" /\ snd'[s].devs = devs(M) /\ \A t \in Senders : t # s => snd'[t] = snd[t]
      BY <1>0, <2>3, <2>5 DEF SendRec
    <3>2. AttemptOK(s)'
      BY <2>5, <3>1 DEF AttemptOK, Working
    <3> QED BY <2>1, <2>2, <3>1, <3>2, LockedStep DEF Goal
  <2> QED BY <2>4, <2>5
<1>3. CASE Compare(s)
  <2>1. live' = live /\ info' = info /\ lock = s /\ snd[s].at = "diff" /\ snd[s].devs # {}
    BY <1>0, <1>3 DEF Compare, serverVars, SenderOK, AttemptOK
  <2>2. InfoOK
    BY <2>1, StoredNow
  <2>3. ASSUME NEW k, NEW S \in SUBSET Devices, Compared(s, k, S)
        PROVE  /\ snd'[s].at = IF UsersOf(snd[s].devs \ S) = {} THEN "send" ELSE "create"
               /\ snd'[s].dist = k /\ snd'[s].shared = S /\ snd'[s].devs = snd[s].devs
               /\ snd'[s].todo = UsersOf(snd[s].devs \ S)
               /\ \A t \in Senders : t # s => snd'[t] = snd[t]
    BY <1>0, <2>3, Zenon DEF Compared, AddedTo, SendRec
  <2>4. CASE \E k : Compared(s, k, {}) /\ k \notin rec \ {info.dist} /\ DeleteSenderKey(info.dist)
    <3>1. PICK k : Compared(s, k, {}) /\ k \notin rec \ {info.dist} /\ DeleteSenderKey(info.dist)
      BY <2>4
    <3>2. HoldersRec'
      BY <1>0, <3>1 DEF HoldersRec, DeleteSenderKey, ForgetHolders, Holding
    <3>3. Keyed(k, {})'
      BY <1>0, <3>1 DEF HoldersRec, Keyed, DeleteSenderKey, ForgetHolders, Holding
    <3>4. UsersOf(snd[s].devs \ {}) # {}
      BY <2>1 DEF UsersOf
    <3>5. /\ snd'[s].at = "create" /\ snd'[s].dist = k /\ snd'[s].shared = {} /\ snd'[s].devs = snd[s].devs
          /\ snd'[s].todo = UsersOf(snd[s].devs \ {})
          /\ \A t \in Senders : t # s => snd'[t] = snd[t]
      BY <2>3, <3>1, <3>4
    <3>6. AttemptOK(s)'
      BY <3>3, <3>5 DEF AttemptOK, Working, Keyed, UsersOf
    <3> QED BY <2>1, <3>2, <3>5, <3>6, LockedStep DEF Goal
  <2>5. CASE /\ Compared(s, info.dist, info.shared) /\ Removed(info.shared, snd[s].devs) = {}
             /\ info # None /\ UNCHANGED <<rec, ghostVars>>
    <3>1. info.shared \in SUBSET Devices
      BY <2>5 DEF TypeInv, KeysOK
    <3>2. UNCHANGED <<live, rec, info, holders, unrecorded, mistaken>>
      BY <2>1, <2>5 DEF ghostVars
    <3>3. HoldersRec' /\ InfoOK' /\ Keyed(info.dist, info.shared)'
      BY <2>2, <3>2, KeysUntouched DEF InfoOK
    <3>4. info.shared \subseteq snd[s].devs
      BY <2>5 DEF Removed
    <3>5. \A d \in snd[s].devs : d \in info.shared \/ d[1] \in UsersOf(snd[s].devs \ info.shared)
      BY DEF UsersOf
    <3>6. /\ snd'[s].at = IF UsersOf(snd[s].devs \ info.shared) = {} THEN "send" ELSE "create"
          /\ snd'[s].dist = info.dist /\ snd'[s].shared = info.shared /\ snd'[s].devs = snd[s].devs
          /\ snd'[s].todo = UsersOf(snd[s].devs \ info.shared)
          /\ \A t \in Senders : t # s => snd'[t] = snd[t]
      BY <2>3, <2>5, <3>1
    <3>7. AttemptOK(s)'
      BY <2>1, <3>3, <3>4, <3>5, <3>6, Zenon DEF AttemptOK, Working, Keyed
    <3> QED BY <2>1, <3>3, <3>6, <3>7, LockedStep DEF Goal
  <2>6. Unused # {} => (CHOOSE k \in Unused : TRUE) \notin rec \ {info.dist}
    BY DEF Unused
  <2>7. info.dist \notin rec \ {info.dist}
    OBVIOUS
  <2> QED BY <1>3, <2>4, <2>5, <2>6, <2>7 DEF Compare
<1>4. CASE Create(s)
  <2>1. /\ UNCHANGED <<live, info, holders, unrecorded, mistaken>> /\ lock = s /\ snd[s].at = "create"
        /\ rec' = rec \cup {snd[s].dist}
    BY <1>0, <1>4 DEF Create, serverVars, ghostVars, SenderOK
  <2>2. /\ snd'[s].at = "share" /\ snd'[s].dist = snd[s].dist /\ snd'[s].shared = snd[s].shared
        /\ snd'[s].devs = snd[s].devs /\ snd'[s].todo = snd[s].todo /\ snd'[s].dropped = snd[s].dropped
        /\ snd'[s].again = snd[s].again
        /\ \A t \in Senders : t # s => snd'[t] = snd[t]
    BY <1>0, <1>4 DEF Create, SendRec
  <2>3. HoldersRec'
    BY <1>0, <2>1 DEF HoldersRec
  <2>4. AttemptOK(s)'
    BY <1>0, <2>1, <2>2 DEF AttemptOK, Working, Keyed
  <2> QED BY <2>1, <2>2, <2>3, <2>4, LockedStep DEF Goal
<1>5. ASSUME NEW m \in Users, Share(s, m) PROVE Goal
  <2>1. /\ UNCHANGED <<live, rec, info>> /\ lock = s /\ snd[s].at = "share"
        /\ snd[s].dist \in Dists /\ snd[s].dist \in rec /\ snd[s].shared \subseteq snd[s].devs
        /\ Keyed(snd[s].dist, snd[s].shared)
    BY <1>0, <1>5 DEF Share, serverVars, keyVars, SenderOK, AttemptOK, Working
  <2>2. Of(m, live) \in SUBSET Devices
    BY <1>a DEF Of
  <2>3. HoldersRec'
    <3>1. CASE \E T, U : Give(snd[s].dist, Of(m, live), T, U)
      BY <1>0, <2>1, <3>1 DEF HoldersRec, Give
    <3>2. CASE UNCHANGED ghostVars
      BY <1>0, <2>1, <3>2 DEF HoldersRec, ghostVars
    <3> QED BY <1>5, <3>1, <3>2 DEF Share, ShareSucceeds, ShareOutdated, ShareFails
  <2>k. PICK k, S : k = snd[s].dist /\ S = snd[s].shared
    OBVIOUS
  <2>4. UNCHANGED ghostVars => Keyed(k, S)'
    BY <2>1, <2>k DEF ghostVars, Keyed
  <2>5. CASE ShareSucceeds(s, m)
    <3>0. PICK T, U, D : /\ T = {d \in snd[s].shared : d[1] # m} \cup Of(m, snd[s].devs)
                         /\ U = Of(m, live) \ snd[s].devs /\ D = Of(m, live)
      BY Zenon
    <3>1. snd' = [snd EXCEPT ![s].shared = T, ![s].todo = @ \ {m}] /\ Give(k, D, T, U)
      BY <2>5, <2>k, <3>0 DEF ShareSucceeds
    <3>2. S \subseteq T /\ T \subseteq snd[s].devs
      BY <2>1, <2>k, <3>0 DEF Of
    <3>3. D \subseteq T \cup U
      BY <3>0 DEF Of
    <3>4. (T \ S) \cap live \subseteq D
      BY <2>k, <3>0 DEF Of
    <3>5. \A d \in snd[s].devs : d[1] = m => d \in T
      BY <3>0 DEF Of
    <3>6. Keyed(k, T)'
      BY <1>a, <2>1, <2>2, <2>k, <3>0, <3>1, <3>2, <3>3, <3>4, KeyedGive
    <3>7. /\ snd'[s].at = "share" /\ snd'[s].dist = snd[s].dist /\ snd'[s].shared = T
          /\ snd'[s].devs = snd[s].devs /\ snd'[s].todo = snd[s].todo \ {m}
          /\ snd'[s].dropped = snd[s].dropped /\ snd'[s].again = snd[s].again
          /\ \A t \in Senders : t # s => snd'[t] = snd[t]
      BY <1>0, <2>1, <3>1 DEF SendRec
    <3>8. AttemptOK(s)'
      BY <1>0, <2>1, <2>k, <3>2, <3>5, <3>6, <3>7 DEF AttemptOK, Working, Keyed
    <3> QED BY <2>1, <2>3, <3>7, <3>8, LockedStep DEF Goal
  <2>6. CASE ShareOutdated(s, m)
    <3>1. /\ snd'[s].at = "share" /\ snd'[s].dist = snd[s].dist /\ snd'[s].shared = snd[s].shared
          /\ snd'[s].devs = snd[s].devs /\ snd'[s].again
          /\ \A t \in Senders : t # s => snd'[t] = snd[t]
      BY <1>0, <2>1, <2>6 DEF ShareOutdated, SendRec
    <3>2. Keyed(k, S)'
      BY <2>4, <2>6 DEF ShareOutdated
    <3>3. AttemptOK(s)'
      BY <2>1, <2>k, <3>1, <3>2 DEF AttemptOK, Working, Keyed
    <3> QED BY <2>1, <2>3, <3>1, <3>3, LockedStep DEF Goal
  <2>7. CASE ShareFails(s, m)
    <3>1. /\ snd'[s].at = "share" /\ snd'[s].dist = snd[s].dist /\ snd'[s].shared = snd[s].shared
          /\ snd'[s].devs = snd[s].devs /\ snd'[s].todo = snd[s].todo \ {m}
          /\ snd'[s].dropped = snd[s].dropped \cup {m} /\ snd'[s].again = snd[s].again
          /\ \A t \in Senders : t # s => snd'[t] = snd[t]
      BY <1>0, <2>1, <2>7 DEF ShareFails, SendRec
    <3>2. Keyed(k, S)'
      <4>0. PICK D : D = Of(m, live)
        OBVIOUS
      <4>1. CASE Give(k, D, S, D)
        BY <1>a, <2>1, <2>2, <2>k, <4>0, <4>1, KeyedGive
      <4> QED BY <2>4, <2>7, <2>k, <4>0, <4>1 DEF ShareFails
    <3>3. AttemptOK(s)'
      BY <1>0, <2>1, <2>k, <3>1, <3>2 DEF AttemptOK, Working, Keyed
    <3> QED BY <2>1, <2>3, <3>1, <3>3, LockedStep DEF Goal
  <2> QED BY <1>5, <2>5, <2>6, <2>7 DEF Share
<1>6. CASE PutSenderKeyInfo(s)
  <2>1. /\ UNCHANGED <<live, rec, holders, unrecorded, mistaken>> /\ lock = s /\ snd[s].at = "share"
        /\ info'.dist = snd[s].dist /\ info'.shared = snd[s].shared /\ snd[s].todo = {}
        /\ Keyed(snd[s].dist, snd[s].shared)
    BY <1>0, <1>6 DEF PutSenderKeyInfo, serverVars, ghostVars, SenderOK, AttemptOK, Working
  <2>2. HoldersRec' /\ InfoOK'
    BY <1>0, <2>1 DEF HoldersRec, InfoOK, Keyed
  <2>3. CASE snd[s].again
    BY <1>6, <2>1, <2>2, <2>3, EndStep DEF PutSenderKeyInfo, Goal
  <2>4. CASE ~snd[s].again
    <3>1. /\ snd'[s].at = "send" /\ snd'[s].dist = snd[s].dist /\ snd'[s].shared = snd[s].shared
          /\ snd'[s].devs = snd[s].devs /\ snd'[s].dropped = snd[s].dropped
          /\ \A t \in Senders : t # s => snd'[t] = snd[t]
      BY <1>0, <1>6, <2>4 DEF PutSenderKeyInfo, SendRec
    <3>2. AttemptOK(s)'
      BY <1>0, <2>1, <2>4, <3>1 DEF AttemptOK, Working, Keyed
    <3> QED BY <2>1, <2>2, <3>1, <3>2, LockedStep DEF Goal
  <2> QED BY <2>3, <2>4
<1>7. CASE NoKey(s)
  <2>1. UNCHANGED <<live, rec, holders, unrecorded, mistaken>> /\ lock = s /\ info' = None
    BY <1>0, <1>7 DEF NoKey, serverVars, ghostVars, SenderOK
  <2>2. HoldersRec'
    BY <1>0, <2>1 DEF HoldersRec
  <2>3. InfoOK'
    BY <1>a, <2>1, NamesAssumption DEF InfoOK, Keyed, None, GhostOK
  <2> QED BY <1>7, <2>1, <2>2, <2>3, EndStep DEF NoKey, Goal
<1>8. CASE SendAccepted(s) \/ SendOutdated(s) \/ SendFails(s)
  <2>1. UNCHANGED <<live, rec, info, holders, unrecorded, mistaken>> /\ lock = s /\ snd[s].at = "send"
    BY <1>0, <1>8 DEF SendAccepted, SendOutdated, SendFails, serverVars, keyVars, ghostVars, SenderOK
  <2>2. HoldersRec' /\ InfoOK'
    BY <2>1, StoredNow, KeysUntouched
  <2>3. Return(s) \/ Again(s)
    BY <1>8 DEF SendAccepted, SendOutdated, SendFails
  <2> QED BY <2>1, <2>2, <2>3, EndStep DEF Goal
<1> QED
  BY <1>1, <1>2, <1>3, <1>4, <1>5, <1>6, <1>7, <1>8 DEF Sender

\* Every other step keeps KeyInv.
LEMMA OtherKeyStep ==
  ASSUME TypeInv, KeyInv, Others
  PROVE  KeyInv'
<1> DEFINE Goal == KeyInv'
<1>0. HoldersRec /\ StoredOK /\ GhostOK /\ live \subseteq Devices /\ snd \in [Senders -> SendRec]
  BY DEF KeyInv, TypeInv, WorldOK, SendersOK
<1>a. ASSUME lock = "none" PROVE (\A s \in Senders : snd[s].at \in {"idle", "lock"}) /\ InfoOK
  <2>1. \A s \in Senders : snd[s].at \in {"idle", "lock"}
    BY <1>a, NamesAssumption DEF TypeInv, SendersOK, SenderOK
  <2>2. InfoOK
    BY <1>0, <2>1 DEF StoredOK
  <2> QED BY <2>1, <2>2
<1>b. ASSUME lock = "none", snd' = snd, HoldersRec', InfoOK' PROVE Goal
  <2>1. ASSUME NEW s \in Senders PROVE AttemptOK(s)'
    BY <1>a, <1>b DEF AttemptOK, Working
  <2>2. StoredOK'
    BY <1>b DEF StoredOK
  <2> QED BY <1>b, <2>1, <2>2 DEF KeyInv
<1>c. ASSUME UNCHANGED <<live, rec, snd, holders, unrecorded, mistaken>>,
             info'.dist = info.dist, info'.shared = info.shared
      PROVE  Goal
  <2>1. ASSUME NEW s \in Senders PROVE AttemptOK(s)'
    BY <1>c DEF AttemptOK, KeyInv, Keyed
  <2>2. StoredOK'
    BY <1>0, <1>c DEF StoredOK, InfoOK, Keyed
  <2>3. HoldersRec'
    BY <1>0, <1>c DEF HoldersRec
  <2> QED BY <2>1, <2>2, <2>3 DEF KeyInv
<1> SUFFICES Goal
  OBVIOUS
<1> HIDE DEF Goal
<1>1. ASSUME NEW d \in Devices, AnswerRetry(d) PROVE Goal
  <2>1. /\ lock = "none" /\ snd' = snd /\ info' = info /\ live' = live /\ info # None
        /\ d \in info.shared /\ rec' = rec \cup {info.dist}
    BY <1>1 DEF AnswerRetry, serverVars
  <2>2. info.dist \in Dists /\ Keyed(info.dist, info.shared)
    BY <1>a, <2>1 DEF TypeInv, KeysOK, InfoOK
  <2> DEFINE D == Of(d[1], live)
  <2>3. CASE Give(info.dist, D, info.shared, D \ {d})
    <3>1. HoldersRec'
      BY <1>0, <2>1, <2>3 DEF HoldersRec, Give
    <3>2. D \in SUBSET Devices
      BY <1>0 DEF Of
    <3> HIDE DEF D
    <3>3. Keyed(info.dist, info.shared)'
      BY <1>0, <2>1, <2>2, <2>3, <3>2, KeyedGive
    <3>4. InfoOK'
      BY <2>1, <3>3 DEF InfoOK, Keyed
    <3> QED BY <1>b, <2>1, <3>1, <3>4
  <2>4. CASE UNCHANGED ghostVars
    <3>1. HoldersRec' /\ InfoOK'
      BY <1>0, <1>a, <2>1, <2>4 DEF HoldersRec, InfoOK, Keyed, ghostVars
    <3> QED BY <1>b, <2>1, <3>1
  <2> QED BY <1>1, <2>3, <2>4 DEF AnswerRetry
<1>2. ASSUME NEW d \in Devices, IncomingSession(d) PROVE Goal
  BY <1>2, <1>c DEF IncomingSession, serverVars, keyVars, ghostVars
<1>3. ASSUME NEW d \in Devices, Register(d) PROVE Goal
  <2>1. ASSUME NEW s \in Senders
        PROVE  /\ snd'[s].at = snd[s].at /\ snd'[s].devs = snd[s].devs /\ snd'[s].dist = snd[s].dist
               /\ snd'[s].shared = snd[s].shared /\ snd'[s].todo = snd[s].todo
               /\ snd'[s].again = snd[s].again /\ snd'[s].dropped = snd[s].dropped
    <3>1. snd[s] \in SendRec
      BY <1>0
    <3>2. snd'[s] = [snd[s] EXCEPT !.old = snd[s].old \cup ({d} \cap snd[s].devs)]
      BY <1>3, <3>1 DEF Register, SendRec
    <3> QED BY <3>1, <3>2 DEF SendRec
  <2>2. HoldersRec'
    BY <1>0, <1>3 DEF Register, HoldersRec, keyVars
  <2>3. ASSUME NEW s \in Senders PROVE AttemptOK(s)'
    <3>1. info' = info /\ rec' = rec /\ AttemptOK(s) /\ SenderOK(s, snd[s], lock)
      BY <1>3 DEF Register, keyVars, KeyInv, TypeInv, SendersOK
    <3>2. ASSUME snd[s].at \in Working PROVE Keyed(snd[s].dist, snd[s].shared)'
      <4>1. /\ snd[s].dist \in Dists /\ snd[s].shared \subseteq snd[s].devs
            /\ Keyed(snd[s].dist, snd[s].shared)
        BY <3>1, <3>2 DEF AttemptOK, SenderOK
      <4>2. d \in snd[s].shared => <<snd[s].dist, d>> \in mistaken'
        BY <1>3, <4>1 DEF Register
      <4>3. ASSUME NEW k, NEW S, k = snd[s].dist, S = snd[s].shared PROVE Keyed(k, S)'
        BY <1>0, <1>3, <4>1, <4>2, <4>3, KeyedRegister
      <4> QED BY <2>1, <4>3 DEF Keyed
    <3> QED BY <2>1, <3>1, <3>2 DEF AttemptOK, Keyed
  <2>4. StoredOK'
    <3> SUFFICES ASSUME \A s \in Senders : snd'[s].at \notin {"create", "share"} PROVE InfoOK'
      BY DEF StoredOK
    <3>1. InfoOK /\ info' = info
      BY <1>0, <1>3, <2>1, Zenon DEF StoredOK, Register, keyVars
    <3>2. d \in info.shared => <<info.dist, d>> \in mistaken'
      <4>1. info # None => info.dist \in Dists
        BY DEF TypeInv, KeysOK
      <4>2. info = None => info.shared = {}
        BY DEF None
      <4> QED BY <1>3, <4>1, <4>2 DEF Register, Named
    <3>3. ASSUME NEW k, NEW S, k = info.dist, S = info.shared PROVE Keyed(k, S)'
      BY <1>0, <1>3, <3>1, <3>2, <3>3, KeyedRegister DEF InfoOK
    <3> QED BY <3>1, <3>3 DEF InfoOK, Keyed
  <2> QED BY <2>2, <2>3, <2>4 DEF KeyInv, Goal
<1>4. ASSUME NEW d \in Devices, Unlink(d) PROVE Goal
  <2>1. UNCHANGED <<rec, info, snd, holders, unrecorded, mistaken>> /\ live' \subseteq live
    BY <1>4 DEF Unlink, keyVars, ghostVars
  <2>2. ASSUME NEW s \in Senders PROVE AttemptOK(s)'
    BY <2>1 DEF AttemptOK, KeyInv, Keyed
  <2>3. StoredOK' /\ HoldersRec'
    BY <1>0, <2>1 DEF StoredOK, InfoOK, Keyed, HoldersRec
  <2> QED BY <2>2, <2>3 DEF KeyInv, Goal
<1>5. ASSUME NEW m \in Users, OtherSend(m) \/ GroupChanges(m) PROVE Goal
  BY <1>5, <1>c DEF OtherSend, GroupChanges, serverVars, keyVars, ghostVars
<1>6. CASE KeyAges
  <2>1. info \in [dist : Dists, shared : SUBSET Devices, old : BOOLEAN] /\ info' = [info EXCEPT !.old = TRUE]
    BY <1>6 DEF KeyAges, TypeInv, KeysOK
  <2>2. info'.dist = info.dist /\ info'.shared = info.shared
    BY <2>1
  <2> QED BY <1>6, <1>c, <2>2 DEF KeyAges, serverVars, ghostVars
<1>7. CASE ResetSenderKey
  <2>1. HoldersRec'
    BY <1>0, <1>7 DEF ResetSenderKey, DeleteSenderKey, ForgetHolders, Holding, HoldersRec
  <2>2. InfoOK'
    BY <1>0, <1>7, NamesAssumption DEF ResetSenderKey, DeleteSenderKey, ForgetHolders, Holding, InfoOK, Keyed, None, GhostOK
  <2> QED BY <1>7, <1>b, <2>1, <2>2 DEF ResetSenderKey
<1>8. CASE ResetFails
  <2>1. HoldersRec'
    BY <1>0, <1>8 DEF ResetFails, Holding, HoldersRec
  <2>2. InfoOK'
    BY <1>8 DEF ResetFails, Holding, InfoOK, Keyed, Named
  <2> QED BY <1>8, <1>b, <2>1, <2>2 DEF ResetFails
<1>d. ASSUME Interrupted, UNCHANGED <<live, rec, info>> PROVE HoldersRec' /\ InfoOK'
  <2>1. HoldersRec'
    BY <1>0, <1>d DEF HoldersRec, Interrupted
  <2>2. ASSUME NEW x \in holders, x[1] = info.dist PROVE x[2] \in info.shared \/ x \in unrecorded'
    BY <1>d, <2>2 DEF Interrupted, Named
  <2>3. ASSUME NEW e \in info.shared \cap live PROVE <<info.dist, e>> \in holders \cup mistaken'
    BY <1>d, <2>3 DEF Interrupted, Named
  <2>4. InfoOK'
    BY <1>d, <2>2, <2>3 DEF Interrupted, InfoOK, Keyed
  <2> QED BY <2>1, <2>4
<1>9. CASE Crash
  <2>1. HoldersRec' /\ InfoOK'
    BY <1>9, <1>d DEF Crash, serverVars, keyVars
  <2>2. ASSUME NEW s \in Senders PROVE AttemptOK(s)'
    BY <1>9 DEF Crash, AttemptOK, Idle, Working
  <2> QED BY <2>1, <2>2 DEF KeyInv, StoredOK, Goal
<1>10. ASSUME NEW s \in Senders, StoreFails(s) PROVE Goal
  <2>1. HoldersRec' /\ InfoOK'
    BY <1>10, <1>d DEF StoreFails, serverVars, keyVars
  <2>2. lock = s
    BY <1>10 DEF StoreFails, TypeInv, SendersOK, SenderOK
  <2> QED BY <1>10, <2>1, <2>2, EndStep DEF StoreFails, Goal
<1> QED
  BY <1>1, <1>2, <1>3, <1>4, <1>5, <1>6, <1>7, <1>8, <1>9, <1>10 DEF Others

LEMMA KeyInvariant == Spec => []KeyInv
<1>1. TypeInv /\ KeyInv /\ [Next]_vars => KeyInv'
  <2> SUFFICES ASSUME TypeInv, KeyInv, [Next]_vars PROVE KeyInv'
    OBVIOUS
  <2>1. CASE Next
    BY <2>1, SenderKeyStep, OtherKeyStep DEF Next
  <2>2. CASE UNCHANGED vars
    BY <2>2, Zenon DEF vars, KeyInv, HoldersRec, StoredOK, InfoOK, AttemptOK, Keyed
  <2> QED BY <2>1, <2>2
<1> QED BY <1>1, KeyInit, TypeInvariant, PTL DEF Spec

\* sendToGroupWithSenderKey never encrypts with a key that a device outside the
\* current device list was sent, unless SharedWith could not name that device.
THEOREM RemovedLackKey == Spec => []RemovedDevicesLackKey
<1>1. KeyInv => RemovedDevicesLackKey
  BY DEF KeyInv, AttemptOK, Keyed, Working, RemovedDevicesLackKey
<1> QED BY <1>1, KeyInvariant, PTL

\* Every existing device sendToGroupWithSenderKey encrypts a message for was
\* sent the key, unless SharedWith names it by mistake.
THEOREM AddressedHaveKey == Spec => []AddressedDevicesHaveKey
<1>1. KeyInv => AddressedDevicesHaveKey
  BY DEF KeyInv, AttemptOK, Keyed, Working, AddressedDevicesHaveKey, Message
<1> QED BY <1>1, KeyInvariant, PTL
=============================================================================

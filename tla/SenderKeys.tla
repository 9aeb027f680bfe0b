----------------------------- MODULE SenderKeys -----------------------------
(***************************************************************************)
(* Sending to one group with a sender key: sendToGroupWithSenderKey and    *)
(* ResetSenderKey (pkg/signalmeow/senderkey.go), the answer to a retry     *)
(* receipt as far as it gives the key away (retry.go), the rows they keep  *)
(* (store/sender_key_store.go), and what sendContent and the handling of   *)
(* 404, 409 and 410 do to the sessions (sending.go).                       *)
(*                                                                         *)
(* A device is a pair of its user and its device id.  A distribution has   *)
(* at most one key at a time; a deleted key is never used again, so its    *)
(* holders are forgotten.  Members of the group are those that can get     *)
(* sender keys (they have an endorsement and a profile key).               *)
(***************************************************************************)
EXTENDS Integers, FiniteSets

CONSTANTS Devices,      \* pairs of a user and a device id
          Dists,        \* distribution ids
          Senders,      \* goroutines that send to the group
          MaxRetries,   \* attempts before the fallback (3 in the code)
          MaxEvents,    \* bound on changes of the group, the devices and the key
          MaxFaults     \* bound on crashes and failing writes

ASSUME BoundsAssumption == MaxRetries \in Nat \ {0} /\ MaxEvents \in Nat /\ MaxFaults \in Nat
ASSUME NamesAssumption == "none" \notin Dists /\ "none" \notin Senders

VARIABLES
  group,      \* members of the group
  live,       \* devices registered with the server
  sessions,   \* devices there is a session with
  stale,      \* those of them that have registered anew since
  rec,        \* distributions with a key in signalmeow_sender_keys
  info,       \* the row of signalmeow_outbound_sender_key_info, or None
  lock,       \* the goroutine that holds encryptionLock, or "none"
  snd,        \* what each sender is doing
  holders,    \* (distribution, device): the device was sent the key
  unrecorded, \* holders that SharedWith does not name, for a reason in the actions
  mistaken,   \* (distribution, device): named in SharedWith without having the key
  events, faults

vars == <<group, live, sessions, stale, rec, info, lock, snd, holders, unrecorded, mistaken, events, faults>>
serverVars == <<group, live>>
sessionVars == <<sessions, stale>>
keyVars == <<rec, info>>
ghostVars == <<holders, unrecorded, mistaken>>
boundVars == <<events, faults>>

None == [dist |-> "none", shared |-> {}, old |-> FALSE]
Idle == [at |-> "idle", retries |-> 0, to |-> {}, devs |-> {}, old |-> {}, dist |-> "none",
         shared |-> {}, todo |-> {}, again |-> FALSE, dropped |-> {}]
Of(m, D) == {d \in D : d[1] = m}
UsersOf(D) == {d[1] : d \in D}
Users == UsersOf(Devices)
Holding(D, k) == {x \in D : x[1] = k}

(***************************************************************************)
(* Sessions.  The server takes a message for a user if it is encrypted for *)
(* exactly the user's devices as they are registered.                      *)
(***************************************************************************)

\* handle409410 for all of a user's devices, or 404: no device is left.
Refreshed(M) == {d \in sessions : d[1] \notin M} \cup {d \in live : d[1] \in M}
Refresh(M) ==
  /\ sessions' = Refreshed(M)
  /\ stale' = {d \in stale : d[1] \notin M}

\* buildMessagesToSend: the devices a message for m is encrypted for.
Addressed(m) == IF Of(m, sessions) = {} THEN Of(m, live) ELSE Of(m, sessions)
Accepted(m) == Of(m, live) # {} /\ Addressed(m) = Of(m, live) /\ Of(m, stale) = {}

(***************************************************************************)
(* The keys and who has them.                                              *)
(***************************************************************************)

\* DeleteSenderKey
ForgetHolders(k) ==
  /\ holders' = holders \ Holding(holders, k)
  /\ unrecorded' = unrecorded \ Holding(unrecorded, k)
  /\ mistaken' = mistaken \ Holding(mistaken, k)

\* The devices D get the key of k; "shared" is what SharedWith then names, and
\* "unnamed" the devices it has a reason not to name.
Give(k, D, shared, unnamed) ==
  /\ holders' = holders \cup ({k} \X D)
  /\ unrecorded' = (unrecorded \cup ({k} \X unnamed)) \ ({k} \X shared)
  /\ mistaken' = mistaken \ ({k} \X D)

\* What the row says, and what is left when shares did not reach it.
Named == {info.dist} \X info.shared
Interrupted ==
  /\ unrecorded' = unrecorded \cup (holders \ Named)
  /\ mistaken' = mistaken \cup (Named \ holders)
  /\ UNCHANGED holders

(***************************************************************************)
(* diffRecipients                                                          *)
(***************************************************************************)

\* Broken variant: users of whom no device is left do not count as removed.
RemovedOfRemaining(prev, new) == {d \in prev \ new : d[1] \in UsersOf(new)}
Removed(prev, new) == prev \ new
\* Broken variant: new devices of a user who already has the key do not count.
AddedUsers(prev, new) == UsersOf(new) \ UsersOf(prev)
AddedTo(prev, new) == UsersOf(new \ prev)

(***************************************************************************)
(* sendToGroupWithSenderKey                                                *)
(***************************************************************************)

\* Returning, also to send without the key to those who cannot get it: that
\* runs unlocked and only concerns the sessions (OtherSend).
Return(s) == snd' = [snd EXCEPT ![s] = Idle] /\ lock' = "none"

\* Broken variant: the lock is not given back before the next attempt.
AgainLocked(s) ==
  /\ snd' = [snd EXCEPT ![s] = [Idle EXCEPT !.at = "lock", !.retries = snd[s].retries + 1, !.to = snd[s].to]]
  /\ UNCHANGED lock
Again(s) ==
  /\ snd' = [snd EXCEPT ![s] = [Idle EXCEPT !.at = "lock", !.retries = snd[s].retries + 1, !.to = snd[s].to]]
  /\ lock' = "none"

\* SendGroupMessage reads the members once, for all attempts.
SendGroupMessage(s) ==
  /\ snd[s].at = "idle"
  /\ snd' = [snd EXCEPT ![s].at = "lock", ![s].to = group]
  /\ UNCHANGED <<serverVars, sessionVars, keyVars, ghostVars, lock, boundVars>>

GiveUp(s) ==
  /\ snd[s].at = "lock" /\ snd[s].retries >= MaxRetries
  /\ snd' = [snd EXCEPT ![s] = Idle]
  /\ UNCHANGED <<serverVars, sessionVars, keyVars, ghostVars, lock, boundVars>>

Lock(s) ==
  /\ snd[s].at = "lock" /\ snd[s].retries < MaxRetries /\ lock = "none"
  /\ lock' = s
  /\ snd' = [snd EXCEPT ![s].at = "devices"]
  /\ UNCHANGED <<serverVars, sessionVars, keyVars, ghostVars, boundVars>>

\* Members without a session get one, unless fetching their keys fails.
\* "old": devices whose registration the message will get wrong.
GetDevicesIDs(s) ==
  /\ snd[s].at = "devices"
  /\ \E M \in SUBSET {m \in snd[s].to : Of(m, sessions) = {}} :
       LET devs == {d \in Refreshed(M) : d[1] \in snd[s].to}
       IN /\ Refresh(M)
          /\ IF devs = {} THEN Return(s)
             ELSE /\ snd' = [snd EXCEPT ![s].at = "diff", ![s].devs = devs, ![s].old = stale \cap devs]
                  /\ UNCHANGED lock
  /\ UNCHANGED <<serverVars, keyVars, ghostVars, boundVars>>

\* The attempt goes on with distribution k.
Compared(s, k, shared) ==
  LET todo == AddedTo(shared, snd[s].devs)
  IN snd' = [snd EXCEPT ![s].at = IF todo = {} THEN "send" ELSE "create",
                        ![s].dist = k, ![s].shared = shared, ![s].todo = todo]

\* DeleteSenderKey
DeleteSenderKey(k) == rec' = rec \ {k} /\ ForgetHolders(k)

\* uuid.New; which of the unused ids it returns makes no difference.
Unused == Dists \ (rec \cup {info.dist})

\* The key information: none, expired, to be replaced, or to be used.
Compare(s) ==
  /\ snd[s].at = "diff"
  /\ \/ /\ info = None \/ info.old
        /\ Unused # {} /\ Compared(s, CHOOSE k \in Unused : TRUE, {})
        /\ DeleteSenderKey(info.dist)
     \/ /\ info # None /\ ~info.old /\ Removed(info.shared, snd[s].devs) # {}
        /\ Compared(s, info.dist, {})
        /\ DeleteSenderKey(info.dist)
     \/ /\ info # None /\ ~info.old /\ Removed(info.shared, snd[s].devs) = {}
        /\ Compared(s, info.dist, info.shared)
        /\ UNCHANGED <<rec, ghostVars>>
  /\ UNCHANGED <<serverVars, sessionVars, info, lock, boundVars>>

\* NewSenderKeyDistributionMessage makes a key if there is none.
Create(s) ==
  /\ snd[s].at = "create"
  /\ rec' = rec \cup {snd[s].dist}
  /\ snd' = [snd EXCEPT ![s].at = "share"]
  /\ UNCHANGED <<serverVars, sessionVars, info, ghostVars, lock, boundVars>>

\* The loop over devicesAddedTo.  The key goes to every device there is a
\* session with by then, SharedWith names those known before.
ShareSucceeds(s, m) ==
  /\ Accepted(m)
  /\ LET shared == {d \in snd[s].shared : d[1] # m} \cup Of(m, snd[s].devs)
     IN /\ snd' = [snd EXCEPT ![s].shared = shared, ![s].todo = @ \ {m}]
        /\ Give(snd[s].dist, Of(m, live), shared, Of(m, live) \ snd[s].devs)
  /\ Refresh({m})

\* The devices have changed or the user is gone: repaired, and tried again.
ShareOutdated(s, m) ==
  /\ ~Accepted(m)
  /\ snd' = [snd EXCEPT ![s].todo = @ \ {m}, ![s].again = TRUE]
  /\ Refresh({m})
  /\ UNCHANGED ghostVars

\* Any other error, perhaps after the message was taken: without the key.
ShareFails(s, m) ==
  /\ snd' = [snd EXCEPT ![s].todo = @ \ {m}, ![s].dropped = @ \cup {m}]
  /\ \/ Accepted(m) /\ Give(snd[s].dist, Of(m, live), snd[s].shared, Of(m, live)) /\ Refresh({m})
     \/ UNCHANGED <<ghostVars, sessionVars>>

Share(s, m) ==
  /\ snd[s].at = "share" /\ m \in snd[s].todo
  /\ ShareSucceeds(s, m) \/ ShareOutdated(s, m) \/ ShareFails(s, m)
  /\ UNCHANGED <<serverVars, keyVars, lock, boundVars>>

\* After the loop.  The age of the key is that of the row it replaces.
PutSenderKeyInfo(s) ==
  /\ snd[s].at = "share" /\ snd[s].todo = {}
  /\ info' = [dist |-> snd[s].dist, shared |-> snd[s].shared, old |-> info.dist = snd[s].dist /\ info.old]
  /\ IF snd[s].again THEN Again(s)
     ELSE snd' = [snd EXCEPT ![s].at = "send"] /\ UNCHANGED lock
  /\ UNCHANGED <<serverVars, sessionVars, rec, ghostVars, boundVars>>

\* Without a key libsignal reports a missing session: start over.
NoKey(s) ==
  /\ snd[s].at = "send" /\ snd[s].dist \notin rec
  /\ info' = None
  /\ Again(s)
  /\ UNCHANGED <<serverVars, sessionVars, rec, ghostVars, boundVars>>

\* The multi-recipient message.  Users the server answers 409 or 410 for.
Message(s) == {d \in snd[s].devs : d[1] \notin snd[s].dropped}
Outdated(s) ==
  {m \in UsersOf(Message(s)) : Of(m, live) # {} /\
     (Of(m, Message(s)) # Of(m, live) \/ Of(m, snd[s].old) # {})}

SendAccepted(s) ==
  /\ snd[s].at = "send" /\ snd[s].dist \in rec /\ Outdated(s) = {}
  /\ Refresh({m \in UsersOf(Message(s)) : Of(m, live) = {}})
  /\ Return(s)
  /\ UNCHANGED <<serverVars, keyVars, ghostVars, boundVars>>

\* handleMultiRecipient409410Response stops at the first error.
SendOutdated(s) ==
  /\ snd[s].at = "send" /\ snd[s].dist \in rec /\ Outdated(s) # {}
  /\ \E M \in SUBSET Outdated(s) :
       Refresh(M) /\ IF M = Outdated(s) THEN Again(s) ELSE Return(s)
  /\ UNCHANGED <<serverVars, keyVars, ghostVars, boundVars>>

\* 401 and 404 (then without the key), 413, 428, 429, or no response.
SendFails(s) ==
  /\ snd[s].at = "send"
  /\ Return(s)
  /\ UNCHANGED <<serverVars, sessionVars, keyVars, ghostVars, boundVars>>

(***************************************************************************)
(* The other users of the key and of the sessions.                         *)
(***************************************************************************)

\* handleRetryRequest from device d: the key again, to all devices of the user,
\* if SharedWith names the device that asks.
AnswerRetry(d) ==
  /\ lock = "none" /\ info # None /\ d \in info.shared \cap live
  /\ rec' = rec \cup {info.dist}
  /\ \/ Accepted(d[1]) /\ Give(info.dist, Of(d[1], live), info.shared, Of(d[1], live) \ {d})
     \/ UNCHANGED ghostVars
  /\ Refresh({d[1]})
  /\ UNCHANGED <<serverVars, info, lock, snd, boundVars>>

\* ResetSenderKey; the second deletion may fail.
ResetSenderKey ==
  /\ lock = "none" /\ info # None /\ events < MaxEvents
  /\ info' = None
  /\ DeleteSenderKey(info.dist)
  /\ events' = events + 1
  /\ UNCHANGED <<serverVars, sessionVars, lock, snd, faults>>

ResetFails ==
  /\ lock = "none" /\ info # None /\ faults < MaxFaults
  /\ rec' = rec \ {info.dist}
  /\ holders' = holders \ Holding(holders, info.dist)
  /\ unrecorded' = unrecorded \ Holding(unrecorded, info.dist)
  /\ mistaken' = mistaken \cup Named
  /\ faults' = faults + 1
  /\ UNCHANGED <<serverVars, sessionVars, info, lock, snd, events>>

\* Any other message to m, with or without the lock: sendToGroup, SendMessage.
\* handle409410 removes the session of a stale device before it fetches new keys,
\* which may fail.
OtherSend(m) ==
  /\ \/ Refresh({m})
     \/ \E d \in Of(m, stale) : sessions' = sessions \ {d} /\ stale' = stale \ {d}
  /\ UNCHANGED <<serverVars, keyVars, ghostVars, lock, snd, boundVars>>

\* A message from d makes or renews the session with it.
IncomingSession(d) ==
  /\ d \in live /\ (d \notin sessions \/ d \in stale)
  /\ sessions' = sessions \cup {d} /\ stale' = stale \ {d}
  /\ UNCHANGED <<serverVars, keyVars, ghostVars, lock, snd, boundVars>>

(***************************************************************************)
(* Faults and events.                                                      *)
(***************************************************************************)

\* Reading the row, deleting or creating the key, or writing the row fails: the
\* attempt ends.
StoreFails(s) ==
  /\ snd[s].at \in {"diff", "create", "share"} /\ (snd[s].at = "share" => snd[s].todo = {})
  /\ faults < MaxFaults /\ faults' = faults + 1
  /\ Return(s)
  /\ Interrupted
  /\ UNCHANGED <<serverVars, sessionVars, keyVars, events>>

Crash ==
  /\ faults < MaxFaults /\ faults' = faults + 1
  /\ snd' = [s \in Senders |-> Idle] /\ lock' = "none"
  /\ Interrupted
  /\ UNCHANGED <<serverVars, sessionVars, keyVars, events>>

\* d is linked or registers anew: it has no key yet, whatever was sent to its
\* predecessor.
Register(d) ==
  /\ events < MaxEvents /\ events' = events + 1
  /\ live' = live \cup {d}
  /\ stale' = stale \cup ({d} \cap sessions)
  /\ snd' = [s \in Senders |-> [snd[s] EXCEPT !.old = @ \cup ({d} \cap snd[s].devs)]]
  /\ holders' = {x \in holders : x[2] # d}
  /\ unrecorded' = {x \in unrecorded : x[2] # d}
  /\ mistaken' = mistaken \cup ({k \in Dists : <<k, d>> \in Named \/ \E s \in Senders : snd[s].dist = k /\ d \in snd[s].devs} \X {d})
  /\ UNCHANGED <<group, sessions, keyVars, lock, faults>>

Unlink(d) ==
  /\ events < MaxEvents /\ events' = events + 1
  /\ d \in live /\ live' = live \ {d}
  /\ UNCHANGED <<group, sessionVars, keyVars, lock, snd, ghostVars, faults>>

GroupChanges(m) ==
  /\ events < MaxEvents /\ events' = events + 1
  /\ group' = IF m \in group THEN group \ {m} ELSE group \cup {m}
  /\ UNCHANGED <<live, sessionVars, keyVars, lock, snd, ghostVars, faults>>

KeyAges ==
  /\ events < MaxEvents /\ events' = events + 1
  /\ info # None /\ ~info.old
  /\ info' = [info EXCEPT !.old = TRUE]
  /\ UNCHANGED <<serverVars, sessionVars, rec, lock, snd, ghostVars, faults>>

-----------------------------------------------------------------------------

Init ==
  /\ group = Users /\ live \in SUBSET Devices /\ sessions = {} /\ stale = {}
  /\ rec = {} /\ info = None /\ lock = "none" /\ snd = [s \in Senders |-> Idle]
  /\ holders = {} /\ unrecorded = {} /\ mistaken = {} /\ events = 0 /\ faults = 0

Sender(s) ==
  \/ SendGroupMessage(s) \/ GiveUp(s) \/ Lock(s) \/ GetDevicesIDs(s) \/ Compare(s) \/ Create(s)
  \/ (\E m \in Users : Share(s, m))
  \/ PutSenderKeyInfo(s) \/ NoKey(s) \/ SendAccepted(s) \/ SendOutdated(s) \/ SendFails(s)

Others ==
  \/ (\E d \in Devices : AnswerRetry(d) \/ IncomingSession(d) \/ Register(d) \/ Unlink(d))
  \/ (\E m \in Users : OtherSend(m) \/ GroupChanges(m))
  \/ ResetSenderKey \/ ResetFails \/ KeyAges \/ Crash \/ (\E s \in Senders : StoreFails(s))

Next == (\E s \in Senders : Sender(s)) \/ Others

Spec == Init /\ [][Next]_vars

\* A started send goes on: goroutines run, requests end, and Go's mutex is fair
\* to those who wait for it.
Proceed(s) ==
  \/ GiveUp(s) \/ GetDevicesIDs(s) \/ Compare(s) \/ Create(s) \/ (\E m \in Users : Share(s, m))
  \/ PutSenderKeyInfo(s) \/ NoKey(s) \/ SendAccepted(s) \/ SendOutdated(s) \/ SendFails(s)
FairSpec == Spec /\ \A s \in Senders : WF_vars(Proceed(s)) /\ SF_vars(Lock(s))

-----------------------------------------------------------------------------

\* Types of the variables; an attempt is made at most MaxRetries times.
TypeOK ==
  /\ group \subseteq Users /\ live \subseteq Devices
  /\ sessions \subseteq Devices /\ stale \subseteq sessions
  /\ rec \subseteq Dists
  /\ info = None \/ info \in [dist : Dists, shared : SUBSET Devices, old : BOOLEAN]
  /\ \A s \in Senders :
       /\ snd[s].at \in {"idle", "lock", "devices", "diff", "create", "share", "send"}
       /\ snd[s].retries \in 0..MaxRetries
  /\ holders \cup unrecorded \cup mistaken \subseteq Dists \X Devices

\* A message is encrypted with a key that no device outside the current device
\* list was sent (diffRecipients): a user who left or a device that was removed
\* makes a new key.  Except for devices that got the key although SharedWith
\* could not name them: the response to the share was lost, a session appeared
\* during the send, or the row was not written.
RemovedDevicesLackKey ==
  \A s \in Senders : snd[s].at = "send" =>
    \A x \in holders : x[1] = snd[s].dist => x[2] \in snd[s].devs \/ x \in unrecorded

\* Every device a message is encrypted for was sent the key it is encrypted
\* with, if the device still exists: the loop over devicesAddedTo leaves nobody
\* out.  Except for devices SharedWith names by mistake: they registered anew
\* under the same id, or a rotation was interrupted.
AddressedDevicesHaveKey ==
  \A s \in Senders : snd[s].at = "send" /\ snd[s].dist \in rec =>
    \A d \in Message(s) \cap live : <<snd[s].dist, d>> \in holders \cup mistaken

\* Every send to the group ends (sendToGroupWithSenderKey calls itself with the
\* lock released and at most MaxRetries times), however the devices change and
\* whoever else sends.
SendsReturn == \A s \in Senders : snd[s].at = "lock" ~> snd[s].at = "idle"
=============================================================================

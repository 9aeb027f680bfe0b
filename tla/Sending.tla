------------------------------ MODULE Sending ------------------------------
(***************************************************************************)
(* Messages to one recipient (pkg/signalmeow/sending.go, keys.go), and the *)
(* answers to the retry receipts of its devices (retry.go).                *)
(*                                                                         *)
(* A session is known by its sending chain: a number per device that is    *)
(* new whenever the ratchet key is. The bridge keeps a row per device with *)
(* the current chain and its counter. encryptionLock serializes who        *)
(* encrypts, except for two: the fallback of sendToGroupWithSenderKey,     *)
(* whose context says that it holds the lock after it has released it, and *)
(* the receive path, which stores a session after decrypting with it.      *)
(*                                                                         *)
(* The identity key of the recipient does not change here.                 *)
(***************************************************************************)
EXTENDS Naturals

CONSTANTS Devices,     \* device IDs of the recipient
          Locking,     \* sends that take encryptionLock while they encrypt
          Fallback,    \* sends to a group after sendToGroupWithSenderKey gave up
          Handler,     \* the goroutine that answers retry receipts
          MaxRetries,  \* sendContent: 3
          MaxEvents,   \* answers to other members, changes of the devices, messages from them
          None

ASSUME SendsDisjoint == Locking \cap Fallback = {}
ASSUME HandlerIsNoSend == Handler \notin Locking \cup Fallback
ASSUME NoneIsNoGoroutine == None \notin Locking \cup Fallback \cup {Handler}
ASSUME BoundsAreNumbers == MaxRetries \in Nat /\ MaxEvents \in Nat

\* Every send has a message of its own, named after it.
Sends == Locking \cup Fallback
Goroutines == Sends \cup {Handler}

VARIABLES
  dev,      \* the devices: linked, and which chains they can use
  sess,     \* signalmeow_sessions
  marked,   \* RecipientStore.IsUnregistered
  lock,     \* encryptionLock
  go,       \* the goroutines in sendContent
  receipts, \* DecryptionErrorMessages whose goroutine waits for encryptionLock
  skdm,     \* cached contents that carry a sender key distribution message
  incoming, \* a session the receive path has loaded and will store
  owed,     \* which device still has to read which message that the server took for it
  events

vars == <<dev, sess, marked, lock, go, receipts, skdm, incoming, owed, events>>

Device == [linked : BOOLEAN,
           floor : Nat,        \* chains up to here belong to an earlier registration
           lost : Nat,         \* chains up to here cannot be decrypted
           last : Nat]         \* the newest chain

\* chain 0: no session, or an archived one.
Row == [exists : BOOLEAN, chain : Nat, next : Nat,
        raced : BOOLEAN]       \* somebody without the lock has stored it beside another one

NoRow == [exists |-> FALSE, chain |-> 0, next |-> 0, raced |-> FALSE]

Places == {"idle", "lock", "sessions", "encrypt", "store", "request", "repair", "done"}

\* A call of sendContent.
Call == [at : Places,
         msg : Sends \cup {None},    \* the content; None: one that is not in the send cache
         tries : 0..MaxRetries,
         sealed : BOOLEAN,           \* useUnidentifiedSender
         asker : Devices \cup {None}, \* the device whose retry receipt is answered
         forced : BOOLEAN,           \* forceResync
         out : [Devices -> Row],     \* the sessions encrypted with
         stale : SUBSET Devices, missing : SUBSET Devices, extra : SUBSET Devices,
         carries : BOOLEAN]          \* a distribution message was marshalled

Begin(at, msg, tries, sealed, asker) ==
  [at |-> at, msg |-> msg, tries |-> tries, sealed |-> sealed, asker |-> asker, forced |-> FALSE,
   out |-> [d \in Devices |-> NoRow], stale |-> {}, missing |-> {}, extra |-> {}, carries |-> FALSE]

AtRest(at) == Begin(at, None, 0, TRUE, None)

Init ==
  /\ \E linked, known \in SUBSET Devices : \E anew \in SUBSET (linked \cap known) :
       /\ dev = [d \in Devices |-> [linked |-> d \in linked, last |-> 1,
                                    floor |-> IF d \in anew THEN 1 ELSE 0,
                                    lost |-> IF d \in anew THEN 1 ELSE 0]]
       /\ sess = [d \in Devices |-> IF d \in known
                                    THEN [NoRow EXCEPT !.exists = TRUE, !.chain = 1]
                                    ELSE NoRow]
  /\ marked = FALSE
  /\ lock = None
  /\ go = [p \in Goroutines |-> AtRest("idle")]
  /\ receipts = {} /\ skdm = {}
  /\ incoming = None
  /\ owed = {}
  /\ events = 0

Linked == {d \in Devices : dev[d].linked}
Rows == {d \in Devices : sess[d].exists}
Locks(p) == p \notin Fallback
Sent(p) == {d \in Devices : go[p].out[d].exists}

----------------------------------------------------------------------------
(* sendContent.                                                            *)

\* A goroutine leaves sendContent. handleRetryRequest returns with it, and the lock is released;
\* if it has failed, the device that asked does not get the message. From here on nobody looks at
\* what the content carries: handleRetryRequest sets it anew.
Leave(p) ==
  /\ skdm' = skdm \ {go[p].msg}
  /\ go' = [go EXCEPT ![p] = AtRest(IF p = Handler THEN "idle" ELSE "done")]
  /\ lock' = IF lock = p THEN None ELSE lock

Disappointed(p) == {<<go[p].msg, go[p].asker>>}

Fail(p) == Leave(p) /\ owed' = owed \ Disappointed(p)

\* buildMessagesToSend starts with the lock, unless the context says that it is held.
First(p) == IF p \in Locking THEN "lock" ELSE "sessions"

Content(p) == IF p \in Sends THEN p ELSE go[p].msg

\* The start of sendContent: the limit on retries, and a distribution message is sent by
\* sealed sender only.
EnterRelocking(p, tries, sealed) ==
  IF tries > MaxRetries \/ (~sealed /\ Content(p) \in skdm)
  THEN Fail(p)
  ELSE /\ go' = [go EXCEPT ![p] = Begin(IF Locks(p) THEN "lock" ELSE "sessions",
                                       Content(p), tries, sealed, go[p].asker)]
       /\ UNCHANGED <<lock, owed, skdm>>

Enter(p, tries, sealed) ==
  IF tries > MaxRetries \/ (~sealed /\ Content(p) \in skdm)
  THEN Fail(p)
  ELSE /\ go' = [go EXCEPT ![p] = Begin(First(p), Content(p), tries, sealed, go[p].asker)]
       /\ UNCHANGED <<lock, owed, skdm>>

\* Whether sealed sender is used makes a difference to contents that may carry a distribution
\* message, those of a group; the others are always taken for sealed.
Sealing(mayCarry) == IF mayCarry THEN BOOLEAN ELSE {TRUE}

\* SendMessage, sendToGroup: the content is put into the send cache and sent. Whether sealed
\* sender is used depends on the profile key of the recipient.
Start(p) ==
  /\ p \in Sends /\ go[p].at = "idle"
  /\ \E sealed \in Sealing(p \in Fallback) : Enter(p, 0, sealed)
  /\ UNCHANGED <<dev, sess, marked, receipts, incoming, events>>

\* buildMessagesToSend: a context without the mark takes the lock.
LockBroken(p) ==
  /\ go[p].at = "lock"
  /\ go' = [go EXCEPT ![p].at = "sessions"]
  /\ UNCHANGED <<dev, sess, marked, lock, receipts, skdm, incoming, owed, events>>

Lock(p) ==
  /\ go[p].at = "lock" /\ lock = None
  /\ lock' = p
  /\ go' = [go EXCEPT ![p].at = "sessions"]
  /\ UNCHANGED <<dev, sess, marked, receipts, skdm, incoming, owed, events>>

\* ProcessPreKeyBundle, or a ratchet step: a new session with each of the devices.
Renew(ds) ==
  /\ dev' = [d \in Devices |-> IF d \in ds THEN [dev[d] EXCEPT !.last = @ + 1] ELSE dev[d]]
  /\ sess' = [d \in Devices |->
                IF d \in ds
                THEN [exists |-> TRUE, chain |-> dev[d].last + 1, next |-> 0, raced |-> FALSE]
                ELSE sess[d]]

\* FetchAndProcessPreKey for all devices, when there is no session or a resync is forced.
FetchAll(p) ==
  /\ go[p].at = "sessions"
  /\ Rows = {} \/ go[p].forced
  /\ \/ /\ ~marked /\ Linked # {}
        /\ Renew(Linked)
        /\ go' = [go EXCEPT ![p].at = "encrypt"]
        /\ UNCHANGED <<marked, lock, owed, skdm>>
     \/ /\ marked' \in {marked, marked \/ Linked = {}}
        /\ Fail(p)
        /\ UNCHANGED <<dev, sess>>
  /\ UNCHANGED <<receipts, incoming, events>>

\* Encrypt loads the session of every device. The content is marshalled here. If a session
\* was archived, the messages are built again after a resync.
Load(p) ==
  /\ \/ go[p].at = "encrypt"
     \/ go[p].at = "sessions" /\ Rows # {} /\ ~go[p].forced
  /\ IF Rows = {}
     THEN Fail(p)
     ELSE IF \E d \in Rows : sess[d].chain = 0
     THEN IF go[p].forced
          THEN Fail(p)
          ELSE /\ go' = [go EXCEPT ![p] = [@ EXCEPT !.forced = TRUE, !.at = First(p)]]
               /\ lock' = IF p \in Locking THEN None ELSE lock
               /\ UNCHANGED <<owed, skdm>>
     ELSE /\ go' = [go EXCEPT ![p] = [@ EXCEPT !.at = "store", !.out = sess,
                                               !.carries = go[p].msg \in skdm]]
          /\ UNCHANGED <<lock, owed, skdm>>
  /\ UNCHANGED <<dev, sess, marked, receipts, incoming, events>>

\* Somebody who does not hold the lock stores a session: was it stored since it was loaded, or
\* has another goroutine loaded it?
Races(p, d, loaded) ==
  \/ sess[d] # loaded
  \/ \E q \in Goroutines \ {p} : go[q].at = "store" /\ go[q].out[d].exists

\* Encrypt stores the sessions it has advanced, and the lock is released.
Store(p) ==
  LET out == go[p].out IN
  /\ go[p].at = "store"
  /\ sess' = [d \in Devices |->
                IF d \in Sent(p)
                THEN [exists |-> TRUE, chain |-> out[d].chain, next |-> out[d].next + 1,
                      raced |-> out[d].raced \/ (~Locks(p) /\ Races(p, d, out[d]))]
                ELSE sess[d]]
  /\ go' = [go EXCEPT ![p].at = "request"]
  /\ lock' = IF p \in Locking THEN None ELSE lock
  /\ UNCHANGED <<dev, marked, receipts, skdm, incoming, owed, events>>

Stale(p) == {d \in Sent(p) : go[p].out[d].chain <= dev[d].floor}

\* 200: the list of devices is right and so are their registrations; or the response is lost
\* after the server has taken the message. A device that cannot decrypt what it gets sends a
\* retry receipt, which clears the mark of the recipient as every message does. (It drops a
\* message whose counter it has met before; CountersUnique says when that may be.)
Accepted(p) ==
  LET out == go[p].out
      unread == {d \in Sent(p) : out[d].chain <= dev[d].lost}
  IN
  /\ go[p].at = "request"
  /\ Sent(p) = Linked /\ Linked # {} /\ Stale(p) = {}
  /\ receipts' = receipts \cup {[msg |-> go[p].msg, dev |-> d, chain |-> out[d].chain] : d \in unread}
  /\ owed' = (owed \ {<<go[p].msg, d>> : d \in Sent(p)}) \cup {<<go[p].msg, d>> : d \in unread}
  /\ marked' = (marked /\ unread = {})
  /\ Leave(p)
  /\ UNCHANGED <<dev, sess, incoming, events>>

\* 409 and 410: the response names the missing and the extra devices, or the stale ones.
Mismatch(p) ==
  LET out == Sent(p)
      stale == IF out = Linked THEN Stale(p) ELSE {}
  IN
  /\ go[p].at = "request"
  /\ Linked # {}
  /\ out # Linked \/ stale # {}
  /\ go' = [go EXCEPT ![p] = [@ EXCEPT !.at = "repair", !.stale = stale,
                                           !.missing = Linked \ out, !.extra = out \ Linked]]
  /\ UNCHANGED <<dev, sess, marked, lock, receipts, skdm, incoming, owed, events>>

\* handle409410 removes the session of a stale device, whose keys it fetches next.
RemoveStale(p) ==
  /\ go[p].at = "repair" /\ go[p].missing = {}
  /\ \E d \in go[p].stale :
       /\ sess' = [sess EXCEPT ![d] = NoRow]
       /\ go' = [go EXCEPT ![p] = [@ EXCEPT !.stale = go[p].stale \ {d}, !.missing = {d}]]
  /\ UNCHANGED <<dev, marked, lock, receipts, skdm, incoming, owed, events>>

\* FetchAndProcessPreKey for one device; a 404 marks the recipient.
FetchOne(p) ==
  /\ go[p].at = "repair"
  /\ \E d \in go[p].missing :
       \/ /\ ~marked /\ d \in Linked
          /\ Renew({d})
          /\ go' = [go EXCEPT ![p].missing = @ \ {d}]
          /\ UNCHANGED <<marked, lock, owed, skdm>>
       \/ /\ marked' \in {marked, marked \/ d \notin Linked}
          /\ Fail(p)
          /\ UNCHANGED <<dev, sess>>
  /\ UNCHANGED <<receipts, incoming, events>>

\* The sessions of extra devices are removed. The content is sent again, unless it carries a
\* distribution message.
Resend(p) ==
  /\ go[p].at = "repair" /\ go[p].stale = {} /\ go[p].missing = {}
  /\ sess' = [d \in Devices |-> IF d \in go[p].extra THEN NoRow ELSE sess[d]]
  /\ IF go[p].msg \in skdm THEN Fail(p) ELSE Enter(p, go[p].tries + 1, go[p].sealed)
  /\ UNCHANGED <<dev, marked, receipts, incoming, events>>

\* 404: nobody is registered.
Gone(p) ==
  /\ go[p].at = "request"
  /\ Linked = {}
  /\ sess' = [d \in Devices |-> NoRow]
  /\ marked' = TRUE
  /\ Fail(p)
  /\ UNCHANGED <<dev, receipts, incoming, events>>

\* 401: once more without sealed sender, unless the content carries a distribution message.
Unauthorized(p) ==
  /\ go[p].at = "request"
  /\ go[p].sealed
  /\ IF go[p].msg \in skdm
     THEN Fail(p)
     ELSE Enter(p, go[p].tries + 1, p \notin Fallback)
  /\ UNCHANGED <<dev, sess, marked, receipts, incoming, events>>

\* 500 and 503: once more.
ServerError(p) ==
  /\ go[p].at = "request"
  /\ Enter(p, go[p].tries + 1, go[p].sealed)
  /\ UNCHANGED <<dev, sess, marked, receipts, incoming, events>>

\* No response, a rate limit (428 too, although it counts as retryable), or another status.
RequestFails(p) ==
  /\ go[p].at = "request"
  /\ Fail(p)
  /\ UNCHANGED <<dev, sess, marked, receipts, incoming, events>>

Request(p) ==
  Accepted(p) \/ Mismatch(p) \/ Gone(p) \/ Unauthorized(p) \/ ServerError(p) \/ RequestFails(p)

SendStep(p) ==
  \/ FetchAll(p) \/ Load(p) \/ Store(p) \/ Request(p)
  \/ RemoveStale(p) \/ FetchOne(p) \/ Resend(p)

----------------------------------------------------------------------------
(* Retry receipts.                                                         *)

\* The session is archived if the receipt names its ratchet key.
ArchiveAlways(q) == sess' = [sess EXCEPT ![q.dev].chain = 0]

Archive(q) ==
  sess' = IF sess[q.dev].chain = q.chain THEN [sess EXCEPT ![q.dev].chain = 0] ELSE sess

\* Content m goes to all devices of the one that asked, under the lock; sendContent refuses a
\* distribution message (shared) that is not sealed.
Respond(q, m, shared, sealed) ==
  IF sealed \/ ~shared
  THEN /\ lock' = Handler
       /\ go' = [go EXCEPT ![Handler] = Begin("sessions", m, 0, sealed, q.dev)]
  ELSE UNCHANGED <<lock, go>>

\* handleRetryRequest: the cached content is given the sender key of its group if the device
\* had it (shared), or loses the one it carried, and is sent again.
HandleRetryRequestBroken(q) ==
  /\ lock = None
  /\ q \in receipts /\ q.msg # None
  /\ receipts' = receipts \ {q}
  /\ Archive(q)
  /\ \E shared \in BOOLEAN : \E sealed \in Sealing(shared) :
       /\ shared => q.msg \in Fallback
       /\ skdm' = IF shared THEN skdm \cup {q.msg} ELSE skdm \ {q.msg}
       /\ IF sess[q.dev].chain = q.chain
          THEN Respond(q, q.msg, shared, sealed)
          ELSE UNCHANGED <<lock, go>>
       /\ owed' = IF shared /\ ~sealed THEN owed \ {<<q.msg, q.dev>>} ELSE owed
  /\ UNCHANGED <<dev, marked, incoming, events>>

HandleRetryRequest(q) ==
  /\ lock = None
  /\ q \in receipts /\ q.msg # None
  /\ receipts' = receipts \ {q}
  /\ Archive(q)
  /\ \E shared \in BOOLEAN : \E sealed \in Sealing(shared) :
       /\ shared => q.msg \in Fallback
       /\ skdm' = IF shared THEN skdm \cup {q.msg} ELSE skdm \ {q.msg}
       /\ Respond(q, q.msg, shared, sealed)
       /\ owed' = IF shared /\ ~sealed THEN owed \ {<<q.msg, q.dev>>} ELSE owed
  /\ UNCHANGED <<dev, marked, incoming, events>>

\* handleRetryRequest when the content has left the send cache: the sender key goes out alone
\* if the device had it, otherwise a null message if a session was archived.
HandleExpiredRequest(q) ==
  /\ lock = None
  /\ q \in receipts
  /\ receipts' = receipts \ {q}
  /\ Archive(q)
  /\ owed' = owed \ {<<q.msg, q.dev>>}
  /\ \/ /\ q.msg \in Fallback
        /\ \E sealed \in BOOLEAN :
             /\ skdm' = IF sealed THEN skdm \cup {None} ELSE skdm
             /\ Respond(q, None, TRUE, sealed)
     \/ /\ sess[q.dev].chain = q.chain
        /\ Respond(q, None, FALSE, TRUE)
        /\ UNCHANGED skdm
     \/ /\ sess[q.dev].chain # q.chain
        /\ UNCHANGED <<lock, go, skdm>>
  /\ UNCHANGED <<dev, marked, incoming, events>>

----------------------------------------------------------------------------
(* Other members, the devices and the receive path.                        *)

Event == events < MaxEvents /\ events' = events + 1

\* handleRetryRequest for another member of the group: it changes the same content.
AnswerOther(m) ==
  /\ Event
  /\ m \in Fallback /\ go[m].at \notin {"idle", "done"}
  /\ lock = None
  /\ \/ skdm' = skdm \cup {m}
     \/ skdm' = skdm \ {m}
  /\ UNCHANGED <<dev, sess, marked, lock, go, receipts, incoming, owed>>

\* A device loses its sessions.
Forget(d) ==
  /\ Event
  /\ d \in Linked
  /\ dev' = [dev EXCEPT ![d].lost = dev[d].last]
  /\ UNCHANGED <<sess, marked, lock, go, receipts, skdm, incoming, owed>>

\* A device is unlinked, or registers (again); it no longer wants what it could not decrypt before.
ChangeDevice(d) ==
  /\ Event
  /\ \E linked \in BOOLEAN :
       dev' = [dev EXCEPT ![d] = [@ EXCEPT !.linked = linked, !.floor = dev[d].last,
                                           !.lost = dev[d].last]]
  /\ owed' = {o \in owed : o[2] # d}
  /\ UNCHANGED <<sess, marked, lock, go, receipts, skdm, incoming>>

\* The receive path decrypts a message of d: it loads the session ...
LoadIncoming(d) ==
  /\ Event
  /\ incoming = None
  /\ d \in Linked
  /\ incoming' = [dev |-> d, row |-> sess[d], lost |-> dev[d].lost]
  /\ UNCHANGED <<dev, sess, marked, lock, go, receipts, skdm, owed>>

\* ... and stores it: with the chain it had, or with a new one if the message brings a new
\* ratchet key (a device that has changed meanwhile does not know the chain that follows).
\* A message that cannot be decrypted stores nothing.
StoreIncoming ==
  LET d == incoming.dev
      r == incoming.row
  IN
  /\ incoming # None
  /\ \/ /\ r.chain # 0
        /\ sess' = [sess EXCEPT ![d] = [r EXCEPT !.raced = r.raced \/ Races(None, d, r)]]
        /\ UNCHANGED dev
     \/ /\ dev[d].lost = incoming.lost
        /\ Renew({d})
     \/ UNCHANGED <<dev, sess>>
  /\ marked' = FALSE
  /\ incoming' = None
  /\ UNCHANGED <<lock, go, receipts, skdm, owed, events>>

----------------------------------------------------------------------------
Next ==
  \/ \E p \in Sends : Start(p)
  \/ \E p \in Goroutines : Lock(p) \/ SendStep(p)
  \/ \E q \in receipts : HandleRetryRequest(q) \/ HandleExpiredRequest(q)
  \/ \E m \in Sends : AnswerOther(m)
  \/ \E d \in Devices : Forget(d) \/ ChangeDevice(d) \/ LoadIncoming(d)
  \/ StoreIncoming

(***************************************************************************)
(* Requests are answered, devices fetch their messages, and of the         *)
(* goroutines that can go on one always does. No more is assumed of the    *)
(* scheduler or of the lock, and nothing of the devices' changes.          *)
(***************************************************************************)
Progress ==
  \/ \E p \in Goroutines : Lock(p) \/ SendStep(p)
  \/ \E q \in receipts : HandleRetryRequest(q) \/ HandleExpiredRequest(q)
  \/ StoreIncoming

Fairness == WF_vars(Progress)

Spec == Init /\ [][Next]_vars /\ Fairness

----------------------------------------------------------------------------
(* Properties.                                                             *)

\* Types. At most MaxRetries retries are under way, and only who takes encryptionLock holds it.
TypeOK ==
  /\ dev \in [Devices -> Device]
  /\ sess \in [Devices -> Row]
  /\ marked \in BOOLEAN
  /\ lock \in Locking \cup {Handler, None}
  /\ go \in [Goroutines -> Call]
  /\ \A q \in receipts : q \in [msg : Sends \cup {None}, dev : Devices, chain : Nat]
  /\ skdm \subseteq Sends \cup {None}
  /\ incoming = None \/ incoming \in [dev : Devices, row : Row, lost : Nat]
  /\ owed \subseteq (Sends \cup {None}) \X Devices
  /\ events \in 0..MaxEvents

\* Two ciphertexts of goroutines that encrypt under encryptionLock never have the same chain and
\* the same counter (the recipient would drop the second), although the session is renewed,
\* removed, archived and overwritten outside of the lock. The only way to a reuse is a session
\* that somebody without the lock (the fallback of a group send, the receive path) has stored
\* over a newer one.
CountersUnique ==
  \A p, q \in {g \in Goroutines : Locks(g) /\ go[g].at \in {"store", "request"}} :
    p # q =>
      \A d \in Sent(p) \cap Sent(q) :
        LET a == go[p].out[d]
            b == go[q].out[d]
        IN  a.chain = b.chain /\ a.next = b.next => a.raced \/ b.raced

\* The answer to a retry receipt archives a session only if its device can no longer use it:
\* a receipt that is handled after the session was renewed does not destroy the new one.
FreshSessionsSurvive ==
  [][\A d \in Devices : sess[d].chain # 0 /\ sess'[d].exists /\ sess'[d].chain = 0
       => sess[d].chain <= dev[d].lost]_vars

\* The exchange of unreadable messages, retry receipts and answers ends: what the server took
\* for a device and the device could not decrypt is read in the end, unless the bridge has
\* given up on it (the content has left the cache, or sending the answer failed).
OwedIsRead == <>[](owed = {})

\* encryptionLock is released and every send returns: sendContent calls itself and
\* buildMessagesToSend twice, with and without the lock, and never waits for itself.
SendsReturn == <>[](lock = None /\ \A p \in Goroutines : go[p].at \in {"idle", "done"})

\* What the error in sendContent says: no distribution message without sealed sender.
KeysStaySealed == \A p \in Goroutines : go[p].carries => go[p].sealed
=============================================================================

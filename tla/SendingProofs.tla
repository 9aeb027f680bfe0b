--------------------------- MODULE SendingProofs ---------------------------
(* Proofs about Sending. *)
EXTENDS Sending, TLAPS

\* What the answers to retry receipts rest on: a receipt names a chain that its device has lost
\* for good, and no chain is newer than the newest.
ChainsKnown ==
  /\ \A d \in Devices : dev[d].lost <= dev[d].last /\ sess[d].chain <= dev[d].last
  /\ \A p \in Goroutines, d \in Devices :
       /\ go[p].out[d].chain <= dev[d].last
       /\ go[p].at = "store" /\ go[p].out[d].exists => go[p].out[d].chain # 0
  /\ incoming # None => incoming.row.chain <= dev[incoming.dev].last
  /\ \A q \in receipts : q.chain <= dev[q.dev].lost

\* Who encrypts under encryptionLock holds it from the first look at the sessions until the last
\* one is stored; the answer to a retry receipt holds it until it returns.
LockHeld ==
  \A p \in Goroutines :
    /\ p \in Locking /\ go[p].at \in {"sessions", "encrypt", "store"} => lock = p
    /\ p = Handler /\ go[p].at # "idle" => lock = p
    /\ go[p].at = "lock" => p \in Locking

Encrypted(p) == Locks(p) /\ go[p].at \in {"store", "request"}

\* a and b are sessions with the same chain that nobody has overwritten.
Comparable(a, b) == ~a.raced /\ ~b.raced /\ a.chain = b.chain /\ a.chain # 0

\* The counter in the store is ahead of all that were used, and the one about to be used too.
CountersAhead ==
  /\ \A p \in Goroutines, d \in Devices :
       Encrypted(p) /\ go[p].out[d].exists =>
         /\ go[p].out[d].chain # 0
         /\ Comparable(go[p].out[d], sess[d]) =>
              /\ go[p].out[d].next <= sess[d].next
              /\ go[p].at = "request" => go[p].out[d].next < sess[d].next
  /\ \A p, q \in Goroutines, d \in Devices :
       /\ p # q /\ Encrypted(p) /\ Encrypted(q) /\ go[p].at = "request"
       /\ go[p].out[d].exists /\ go[q].out[d].exists
       /\ Comparable(go[p].out[d], go[q].out[d])
       => /\ go[p].out[d].next # go[q].out[d].next
          /\ go[q].at = "store" => go[p].out[d].next < go[q].out[d].next

IInv == TypeOK /\ ChainsKnown /\ LockHeld /\ CountersAhead

----------------------------------------------------------------------------
(* What most steps have in common.                                         *)

\* No goroutine comes to hold a ciphertext that it did not hold before.
Quiet ==
  \A g \in Goroutines :
    \/ go'[g] = go[g]
    \/ /\ go'[g].at \notin {"store", "request"}
       /\ \A d \in Devices : go'[g].out[d] = go[g].out[d] \/ go'[g].out[d] = NoRow

\* A session stays, is archived or removed, is replaced by one that nobody has used, or is marked.
Renewed ==
  \A d \in Devices :
    sess'[d] = sess[d] \/ sess'[d].chain = 0 \/ sess'[d].chain > dev[d].last \/ sess'[d].raced

DevicesGrow ==
  \A d \in Devices :
    /\ dev[d].last <= dev'[d].last /\ dev[d].lost <= dev'[d].lost /\ dev'[d].lost <= dev'[d].last
    /\ sess'[d].chain <= dev'[d].last

\* The counters stay ahead in a step that encrypts nothing and overwrites no session.
LEMMA QuietKeepsCounters ==
  ASSUME IInv, TypeOK', Quiet, Renewed
  PROVE  CountersAhead'
<1>. USE DEF Comparable
<1>0. /\ go \in [Goroutines -> Call] /\ sess \in [Devices -> Row] /\ dev \in [Devices -> Device]
      /\ go' \in [Goroutines -> Call] /\ sess' \in [Devices -> Row]
  BY DEF IInv, TypeOK
<1>1. \A p \in Goroutines : Encrypted(p)' => go'[p] = go[p] /\ Encrypted(p)
  BY DEF Quiet, Encrypted
<1>2. ASSUME NEW p \in Goroutines, NEW d \in Devices, Encrypted(p)', go'[p].out[d].exists
      PROVE  /\ go'[p].out[d].chain # 0
             /\ Comparable(go'[p].out[d], sess'[d]) =>
                  /\ go'[p].out[d].next <= sess'[d].next
                  /\ go'[p].at = "request" => go'[p].out[d].next < sess'[d].next
  <2>1. go'[p] = go[p] /\ Encrypted(p)
    BY <1>1, <1>2
  <2>2. /\ go[p].out[d].chain # 0
        /\ Comparable(go[p].out[d], sess[d]) =>
             /\ go[p].out[d].next <= sess[d].next
             /\ go[p].at = "request" => go[p].out[d].next < sess[d].next
    BY <1>2, <2>1 DEF IInv, CountersAhead
  <2>3. go[p].out[d].chain <= dev[d].last
    BY DEF IInv, ChainsKnown
  <2>4. go[p].out[d] \in Row /\ sess'[d] \in Row /\ dev[d] \in Device
    BY <1>0 DEF Call
  <2>5. sess'[d] = sess[d] \/ sess'[d].chain # go[p].out[d].chain \/ sess'[d].raced
    BY <2>2, <2>3, <2>4 DEF Renewed, Row, Device
  <2>. QED
    BY <2>1, <2>2, <2>5
<1>3. ASSUME NEW p \in Goroutines, NEW q \in Goroutines, NEW d \in Devices,
             p # q, Encrypted(p)', Encrypted(q)', go'[p].at = "request",
             go'[p].out[d].exists, go'[q].out[d].exists, Comparable(go'[p].out[d], go'[q].out[d])
      PROVE  /\ go'[p].out[d].next # go'[q].out[d].next
             /\ go'[q].at = "store" => go'[p].out[d].next < go'[q].out[d].next
  BY <1>1, <1>3 DEF IInv, CountersAhead
<1>. QED
  BY <1>2, <1>3 DEF CountersAhead, Encrypted, Comparable

\* Chains stay known in a step that encrypts nothing.
LEMMA QuietKeepsChains ==
  ASSUME IInv, TypeOK', Quiet, DevicesGrow,
         incoming' # None => incoming'.row.chain <= dev'[incoming'.dev].last,
         \A q \in receipts' : q \in receipts \/ q.chain <= dev'[q.dev].lost
  PROVE  ChainsKnown'
<1>0. /\ go \in [Goroutines -> Call] /\ dev \in [Devices -> Device] /\ dev' \in [Devices -> Device]
      /\ go' \in [Goroutines -> Call] /\ \A q \in receipts : q.dev \in Devices /\ q.chain \in Nat
  BY DEF IInv, TypeOK
<1>1. ASSUME NEW p \in Goroutines, NEW d \in Devices
      PROVE  /\ go'[p].out[d].chain <= dev'[d].last
             /\ go'[p].at = "store" /\ go'[p].out[d].exists => go'[p].out[d].chain # 0
  <2>1. go[p].out[d] \in Row /\ dev[d] \in Device /\ dev'[d] \in Device
    BY <1>0 DEF Call
  <2>2. go[p].out[d].chain <= dev[d].last /\ dev[d].last <= dev'[d].last
    BY DEF IInv, ChainsKnown, DevicesGrow
  <2>3. go'[p].out[d] = go[p].out[d] \/ go'[p].out[d] = NoRow
    BY DEF Quiet
  <2>4. go'[p].at = "store" => go'[p] = go[p]
    BY DEF Quiet
  <2>5. go[p].at = "store" /\ go[p].out[d].exists => go[p].out[d].chain # 0
    BY DEF IInv, ChainsKnown
  <2>6. go'[p].out[d].chain <= dev'[d].last
    BY <2>1, <2>2, <2>3 DEF Row, Device, NoRow
  <2>. QED
    BY <2>4, <2>5, <2>6
<1>2. ASSUME NEW q \in receipts'
      PROVE  q.chain <= dev'[q.dev].lost
  <2>1. CASE q \in receipts
    <3>1. q.dev \in Devices /\ q.chain \in Nat /\ q.chain <= dev[q.dev].lost
      BY <1>0, <2>1 DEF IInv, ChainsKnown
    <3>2. dev[q.dev] \in Device /\ dev'[q.dev] \in Device /\ dev[q.dev].lost <= dev'[q.dev].lost
      BY <1>0, <3>1 DEF DevicesGrow
    <3>. QED
      BY <3>1, <3>2 DEF Device
  <2>. QED
    BY <2>1
<1>. QED
  BY <1>1, <1>2 DEF ChainsKnown, DevicesGrow

LEMMA BeginIsCall ==
  ASSUME NEW at \in Places, NEW msg \in Sends \cup {None}, NEW tries \in Nat, tries <= MaxRetries,
         NEW sealed \in BOOLEAN, NEW asker \in Devices \cup {None}
  PROVE  /\ Begin(at, msg, tries, sealed, asker) \in Call
         /\ Begin(at, msg, tries, sealed, asker).at = at
         /\ \A d \in Devices : Begin(at, msg, tries, sealed, asker).out[d] = NoRow
<1>1. NoRow \in Row
  BY DEF NoRow, Row
<1>2. [d \in Devices |-> NoRow] \in [Devices -> Row]
  BY <1>1
<1>3. tries \in 0..MaxRetries
  BY BoundsAreNumbers
<1>. QED
  BY <1>2, <1>3 DEF Begin, Call

\* The part of the state that Leave and Enter change.
CallsTyped ==
  /\ go \in [Goroutines -> Call]
  /\ lock \in Locking \cup {Handler, None}
  /\ skdm \subseteq Sends \cup {None}

LEMMA LeaveStep ==
  ASSUME IInv, NEW p \in Goroutines, Leave(p)
  PROVE  CallsTyped' /\ Quiet /\ LockHeld'
<1>0. go \in [Goroutines -> Call] /\ lock \in Locking \cup {Handler, None}
      /\ skdm \subseteq Sends \cup {None}
  BY DEF IInv, TypeOK
<1>. DEFINE c == AtRest(IF p = Handler THEN "idle" ELSE "done")
<1>1. c \in Call /\ c.at = (IF p = Handler THEN "idle" ELSE "done")
      /\ \A d \in Devices : c.out[d] = NoRow
  <2>. DEFINE at == IF p = Handler THEN "idle" ELSE "done"
  <2>1. /\ at \in Places /\ 0 \in Nat /\ 0 <= MaxRetries /\ TRUE \in BOOLEAN
        /\ None \in Sends \cup {None} /\ None \in Devices \cup {None}
    BY BoundsAreNumbers DEF Places
  <2>2. c = Begin(at, None, 0, TRUE, None)
    BY DEF AtRest
  <2>. HIDE DEF at
  <2>3. /\ Begin(at, None, 0, TRUE, None) \in Call /\ Begin(at, None, 0, TRUE, None).at = at
        /\ \A d \in Devices : Begin(at, None, 0, TRUE, None).out[d] = NoRow
    <3>1. [d \in Devices |-> NoRow] \in [Devices -> Row] /\ 0 \in 0..MaxRetries
      BY BoundsAreNumbers DEF NoRow, Row
    <3>. QED
      BY <2>1, <3>1 DEF Begin, Call
  <2>. QED
    BY <2>2, <2>3, Zenon DEF at
<1>2. go' = [go EXCEPT ![p] = c]
  BY DEF Leave
<1>. HIDE DEF c
<1>3. go'[p] = c /\ \A g \in Goroutines : g # p => go'[g] = go[g]
  BY <1>0, <1>2
<1>4. CallsTyped'
  BY <1>0, <1>1, <1>2 DEF Leave, CallsTyped
<1>5. Quiet
  BY <1>1, <1>3 DEF Quiet
<1>6. LockHeld'
  <2>. SUFFICES ASSUME NEW g \in Goroutines
                PROVE  /\ g \in Locking /\ go'[g].at \in {"sessions", "encrypt", "store"} => lock' = g
                       /\ g = Handler /\ go'[g].at # "idle" => lock' = g
                       /\ go'[g].at = "lock" => g \in Locking
    BY DEF LockHeld
  <2>1. CASE g = p
    BY <1>1, <1>3, <2>1
  <2>2. CASE g # p
    BY <1>3, <2>2 DEF Leave, IInv, LockHeld
  <2>. QED
    BY <2>1, <2>2
<1>. QED
  BY <1>4, <1>5, <1>6

LEMMA EnterStep ==
  ASSUME IInv, NEW p \in Goroutines, NEW tries \in Nat, NEW sealed \in BOOLEAN,
         p = Handler => lock = Handler,
         Enter(p, tries, sealed)
  PROVE  CallsTyped' /\ Quiet /\ LockHeld' /\ owed' \subseteq owed
<1>0. go \in [Goroutines -> Call] /\ lock \in Locking \cup {Handler, None}
      /\ skdm \subseteq Sends \cup {None}
  BY DEF IInv, TypeOK
<1>1. CASE Fail(p)
  BY <1>1, LeaveStep DEF Fail
<1>2. CASE ~(tries > MaxRetries \/ (~sealed /\ Content(p) \in skdm))
  <2>. DEFINE c == Begin(First(p), Content(p), tries, sealed, go[p].asker)
  <2>1. First(p) \in Places /\ tries <= MaxRetries
    BY <1>2, BoundsAreNumbers DEF First, Places
  <2>2. Content(p) \in Sends \cup {None} /\ go[p].asker \in Devices \cup {None}
    BY <1>0 DEF Content, Call
  <2>3. c \in Call /\ c.at = First(p) /\ \A d \in Devices : c.out[d] = NoRow
    BY <2>1, <2>2, BeginIsCall
  <2>4. go' = [go EXCEPT ![p] = c] /\ UNCHANGED <<lock, owed, skdm>>
    BY <1>2 DEF Enter
  <2>. HIDE DEF c
  <2>5. go'[p] = c /\ \A g \in Goroutines : g # p => go'[g] = go[g]
    BY <1>0, <2>4
  <2>6. CallsTyped'
    BY <1>0, <2>3, <2>4 DEF CallsTyped
  <2>7. Quiet
    BY <2>3, <2>5 DEF Quiet, First
  <2>8. LockHeld'
    BY <2>3, <2>4, <2>5, HandlerIsNoSend DEF IInv, LockHeld, First
  <2>. QED
    BY <2>4, <2>6, <2>7, <2>8
<1>. QED
  BY <1>1, <1>2 DEF Enter

\* The rest of the type invariant.
OthersTyped ==
  /\ dev \in [Devices -> Device]
  /\ sess \in [Devices -> Row]
  /\ marked \in BOOLEAN
  /\ \A q \in receipts : q \in [msg : Sends \cup {None}, dev : Devices, chain : Nat]
  /\ incoming = None \/ incoming \in [dev : Devices, row : Row, lost : Nat]
  /\ owed \subseteq (Sends \cup {None}) \X Devices
  /\ events \in 0..MaxEvents

LEMMA TypeParts == TypeOK <=> CallsTyped /\ OthersTyped
BY DEF TypeOK, CallsTyped, OthersTyped

\* Steps that only leave or enter sendContent.
LEMMA QuietStep ==
  ASSUME IInv, CallsTyped', Quiet, LockHeld', OthersTyped', Renewed, DevicesGrow,
         incoming' # None => incoming'.row.chain <= dev'[incoming'.dev].last,
         \A q \in receipts' : q \in receipts \/ q.chain <= dev'[q.dev].lost
  PROVE  IInv'
<1>1. TypeOK'
  BY DEF TypeOK, CallsTyped, OthersTyped
<1>2. ChainsKnown' /\ CountersAhead'
  BY <1>1, QuietKeepsChains, QuietKeepsCounters
<1>. QED
  BY <1>1, <1>2 DEF IInv

LEMMA IncomingStays ==
  ASSUME IInv, DevicesGrow, dev' \in [Devices -> Device], incoming' = incoming
  PROVE  incoming' # None => incoming'.row.chain <= dev'[incoming'.dev].last
<1>. SUFFICES ASSUME incoming # None
              PROVE  incoming.row.chain <= dev'[incoming.dev].last
  OBVIOUS
<1>1. incoming.dev \in Devices /\ incoming.row \in Row /\ dev[incoming.dev] \in Device
  BY DEF IInv, TypeOK
<1>2. incoming.row.chain <= dev[incoming.dev].last /\ dev[incoming.dev].last <= dev'[incoming.dev].last
  BY <1>1 DEF IInv, ChainsKnown, DevicesGrow
<1>3. dev'[incoming.dev] \in Device
  BY <1>1
<1>. QED
  BY <1>1, <1>2, <1>3 DEF Row, Device

LEMMA NothingStored ==
  ASSUME IInv, UNCHANGED <<dev, sess>>
  PROVE  Renewed /\ DevicesGrow
<1>1. ASSUME NEW d \in Devices
      PROVE  dev[d].last \in Nat /\ dev[d].lost \in Nat
  BY DEF IInv, TypeOK, Device
<1>. QED
  BY <1>1 DEF IInv, ChainsKnown, Renewed, DevicesGrow

----------------------------------------------------------------------------
(* One lemma per step.                                                     *)

\* The steps that change nothing but the calls (and who is owed what, and the mark).
LEMMA CallsOnly ==
  ASSUME IInv, CallsTyped', Quiet, LockHeld', owed' \subseteq owed, marked' \in BOOLEAN,
         UNCHANGED <<dev, sess, receipts, incoming, events>>
  PROVE  IInv'
<1>1. OthersTyped'
  BY TypeParts DEF IInv, OthersTyped
<1>2. Renewed /\ DevicesGrow
  BY NothingStored
<1>3. /\ incoming' # None => incoming'.row.chain <= dev'[incoming'.dev].last
      /\ \A q \in receipts' : q \in receipts \/ q.chain <= dev'[q.dev].lost
  BY DEF IInv, ChainsKnown
<1>. QED
  BY <1>1, <1>2, <1>3, QuietStep

LEMMA StartStep ==
  ASSUME IInv, NEW p \in Goroutines, Start(p)
  PROVE  IInv'
<1>1. PICK sealed \in BOOLEAN : Enter(p, 0, sealed)
  BY Zenon DEF Start, Sealing
<1>2. p # Handler
  BY HandlerIsNoSend DEF Start, Sends
<1>3. CallsTyped' /\ Quiet /\ LockHeld' /\ owed' \subseteq owed
  BY <1>1, <1>2, EnterStep
<1>4. marked' \in BOOLEAN /\ UNCHANGED <<dev, sess, receipts, incoming, events>>
  BY DEF Start, IInv, TypeOK
<1>. QED
  BY <1>3, <1>4, CallsOnly

LEMMA LockStep ==
  ASSUME IInv, NEW p \in Goroutines, Lock(p)
  PROVE  IInv'
<1>0. /\ go \in [Goroutines -> Call] /\ lock \in Locking \cup {Handler, None}
      /\ skdm \subseteq Sends \cup {None} /\ marked \in BOOLEAN
  BY DEF IInv, TypeOK
<1>1. p \in Locking /\ lock = None
  BY DEF Lock, IInv, LockHeld
<1>2. [go[p] EXCEPT !.at = "sessions"] \in Call
  BY <1>0 DEF Call, Places
<1>3. /\ go' = [go EXCEPT ![p] = [go[p] EXCEPT !.at = "sessions"]]
      /\ go'[p] = [go[p] EXCEPT !.at = "sessions"]
      /\ \A g \in Goroutines : g # p => go'[g] = go[g]
  BY <1>0 DEF Lock
<1>4. go'[p].at = "sessions" /\ go'[p].out = go[p].out
  BY <1>0, <1>3 DEF Call
<1>5. CallsTyped'
  BY <1>0, <1>1, <1>2, <1>3 DEF CallsTyped, Lock
<1>6. Quiet
  BY <1>3, <1>4 DEF Quiet
<1>7. \A g \in Goroutines : lock # g
  BY <1>1, NoneIsNoGoroutine DEF Goroutines, Sends
<1>8. LockHeld'
  BY <1>1, <1>3, <1>4, <1>7, HandlerIsNoSend DEF LockHeld, Lock, IInv
<1>9. owed' \subseteq owed /\ marked' \in BOOLEAN /\ UNCHANGED <<dev, sess, receipts, incoming, events>>
  BY <1>0 DEF Lock
<1>. QED
  BY <1>5, <1>6, <1>8, <1>9, CallsOnly

LEMMA RetrySteps ==
  ASSUME IInv, NEW p \in Goroutines, Unauthorized(p) \/ ServerError(p) \/ RequestFails(p)
  PROVE  IInv'
<1>0. /\ go[p] \in Call /\ go[p].at = "request" /\ marked' \in BOOLEAN
      /\ UNCHANGED <<dev, sess, receipts, incoming, events>>
  BY DEF IInv, TypeOK, Unauthorized, ServerError, RequestFails
<1>1. go[p].tries + 1 \in Nat /\ go[p].sealed \in BOOLEAN /\ (p \notin Fallback) \in BOOLEAN
  BY <1>0 DEF Call
<1>2. p = Handler => lock = Handler
  BY <1>0 DEF IInv, LockHeld
<1>3. CASE Fail(p)
  BY <1>0, <1>3, LeaveStep, CallsOnly DEF Fail
<1>4. CASE Enter(p, go[p].tries + 1, go[p].sealed)
  BY <1>0, <1>1, <1>2, <1>4, EnterStep, CallsOnly
<1>5. CASE Enter(p, go[p].tries + 1, p \notin Fallback)
  BY <1>0, <1>1, <1>2, <1>5, EnterStep, CallsOnly, Zenon
<1>. QED
  BY <1>3, <1>4, <1>5 DEF Unauthorized, ServerError, RequestFails

\* FetchAll, FetchOne and a ratchet step.
LEMMA RenewStep ==
  ASSUME IInv, NEW ds \in SUBSET Devices, Renew(ds)
  PROVE  /\ dev' \in [Devices -> Device] /\ sess' \in [Devices -> Row]
         /\ Renewed /\ DevicesGrow
<1>0. dev \in [Devices -> Device] /\ sess \in [Devices -> Row]
  BY DEF IInv, TypeOK
<1>. DEFINE new(d) == [dev[d] EXCEPT !.last = dev[d].last + 1]
            row(d) == [exists |-> TRUE, chain |-> dev[d].last + 1, next |-> 0, raced |-> FALSE]
<1>1. ASSUME NEW d \in Devices
      PROVE  /\ new(d) \in Device /\ new(d).last = dev[d].last + 1 /\ new(d).lost = dev[d].lost
             /\ row(d) \in Row /\ row(d).chain = dev[d].last + 1
             /\ dev[d].last \in Nat /\ dev[d].lost \in Nat
  <2>1. dev[d] \in Device
    BY <1>0
  <2>. QED
    BY <2>1 DEF Device, Row
<1>2. ASSUME NEW d \in Devices
      PROVE  /\ dev'[d] = IF d \in ds THEN new(d) ELSE dev[d]
             /\ sess'[d] = IF d \in ds THEN row(d) ELSE sess[d]
  BY DEF Renew
<1>3. dev' = [d \in Devices |-> IF d \in ds THEN new(d) ELSE dev[d]]
      /\ sess' = [d \in Devices |-> IF d \in ds THEN row(d) ELSE sess[d]]
  BY DEF Renew
<1>4. ASSUME NEW d \in Devices
      PROVE  dev[d].lost <= dev[d].last /\ sess[d].chain <= dev[d].last
  BY DEF IInv, ChainsKnown
<1>. HIDE DEF new, row
<1>5. dev' \in [Devices -> Device] /\ sess' \in [Devices -> Row]
  BY <1>0, <1>1, <1>3
<1>6. Renewed
  BY <1>1, <1>2 DEF Renewed
<1>7. DevicesGrow
  <2>. SUFFICES ASSUME NEW d \in Devices
                PROVE  /\ dev[d].last <= dev'[d].last /\ dev[d].lost <= dev'[d].lost
                       /\ dev'[d].lost <= dev'[d].last /\ sess'[d].chain <= dev'[d].last
    BY DEF DevicesGrow
  <2>1. sess[d].chain \in Nat
    BY <1>0 DEF Row
  <2>. QED
    BY <1>1, <1>2, <1>4, <2>1
<1>. QED
  BY <1>5, <1>6, <1>7

\* A goroutine goes on to another place, and does not come to hold a ciphertext.
LEMMA MoveStep ==
  ASSUME IInv, NEW p \in Goroutines, NEW c \in Call, go' = [go EXCEPT ![p] = c],
         c.at \notin {"store", "request"}, c.out = go[p].out,
         lock' \in Locking \cup {Handler, None}, skdm' = skdm
  PROVE  CallsTyped' /\ Quiet /\ go'[p] = c /\ \A g \in Goroutines : g # p => go'[g] = go[g]
<1>0. go \in [Goroutines -> Call] /\ skdm \subseteq Sends \cup {None}
  BY DEF IInv, TypeOK
<1>1. go'[p] = c /\ \A g \in Goroutines : g # p => go'[g] = go[g]
  BY <1>0
<1>. QED
  BY <1>0, <1>1 DEF CallsTyped, Quiet

LEMMA FetchAllStep ==
  ASSUME IInv, NEW p \in Goroutines, FetchAll(p)
  PROVE  IInv'
<1>0. /\ go \in [Goroutines -> Call] /\ lock \in Locking \cup {Handler, None}
      /\ marked \in BOOLEAN /\ marked' \in BOOLEAN
      /\ UNCHANGED <<receipts, incoming, events>>
  BY Zenon DEF IInv, TypeOK, FetchAll
<1>1. CASE Renew(Linked) /\ go' = [go EXCEPT ![p].at = "encrypt"] /\ UNCHANGED <<marked, lock, owed, skdm>>
  <2>. DEFINE c == [go[p] EXCEPT !.at = "encrypt"]
  <2>1. c \in Call /\ c.at = "encrypt" /\ c.out = go[p].out
    BY <1>0 DEF Call, Places
  <2>2. go' = [go EXCEPT ![p] = c]
    BY <1>1
  <2>. HIDE DEF c
  <2>3. CallsTyped' /\ Quiet /\ go'[p] = c /\ \A g \in Goroutines : g # p => go'[g] = go[g]
    BY <1>0, <1>1, <2>1, <2>2, MoveStep, Zenon
  <2>4. LockHeld'
    BY <1>1, <2>1, <2>3 DEF FetchAll, LockHeld, IInv
  <2>5. Linked \in SUBSET Devices
    BY DEF Linked
  <2>6. /\ dev' \in [Devices -> Device] /\ sess' \in [Devices -> Row]
        /\ Renewed /\ DevicesGrow
    BY <1>1, <2>5, RenewStep
  <2>7. OthersTyped'
    BY <1>0, <1>1, <2>6 DEF OthersTyped, IInv, TypeOK
  <2>8. incoming' # None => incoming'.row.chain <= dev'[incoming'.dev].last
    BY <1>0, <2>6, IncomingStays
  <2>9. \A q \in receipts' : q \in receipts
    BY <1>0
  <2>. QED
    BY <2>3, <2>4, <2>6, <2>7, <2>8, <2>9, QuietStep
<1>2. CASE Fail(p) /\ UNCHANGED <<dev, sess>>
  BY <1>0, <1>2, LeaveStep, CallsOnly DEF Fail
<1>. QED
  BY <1>1, <1>2 DEF FetchAll

\* Load takes the counters from the store, under the lock or beside it.
LEMMA LoadStep ==
  ASSUME IInv, NEW p \in Goroutines, Load(p)
  PROVE  IInv'
<1>0. /\ go \in [Goroutines -> Call] /\ lock \in Locking \cup {Handler, None}
      /\ sess \in [Devices -> Row] /\ dev \in [Devices -> Device]
      /\ skdm \subseteq Sends \cup {None} /\ marked' \in BOOLEAN
      /\ UNCHANGED <<dev, sess, marked, receipts, incoming, events>>
  BY DEF IInv, TypeOK, Load
<1>1. CASE Fail(p)
  BY <1>0, <1>1, LeaveStep, CallsOnly DEF Fail
<1>2. CASE /\ go' = [go EXCEPT ![p] = [@ EXCEPT !.forced = TRUE, !.at = First(p)]]
           /\ lock' = (IF p \in Locking THEN None ELSE lock)
           /\ UNCHANGED <<owed, skdm>>
  <2>. DEFINE b == [go[p] EXCEPT !.forced = TRUE]
              c == [b EXCEPT !.at = First(p)]
  <2>1. b \in Call /\ b.out = go[p].out /\ First(p) \in Places
    BY <1>0, ZenonT(30) DEF Call, Places, First
  <2>2. go' = [go EXCEPT ![p] = c]
    BY <1>0, <1>2
  <2>. HIDE DEF b
  <2>3. c \in Call /\ c.at = First(p) /\ c.out = go[p].out
    BY <2>1 DEF Call
  <2>. HIDE DEF c
  <2>0. c.at \notin {"store", "request"} /\ lock' \in Locking \cup {Handler, None} /\ skdm' = skdm
    BY <1>0, <1>2, <2>3 DEF First
  <2>4. CallsTyped' /\ Quiet /\ go'[p] = c /\ \A g \in Goroutines : g # p => go'[g] = go[g]
    BY <2>0, <2>2, <2>3, MoveStep, Zenon
  <2>5. LockHeld'
    BY <1>2, <2>3, <2>4, HandlerIsNoSend DEF Load, LockHeld, IInv, First
  <2>6. owed' \subseteq owed
    BY <1>2
  <2>. QED
    BY <1>0, <2>4, <2>5, <2>6, CallsOnly
<1>3. CASE /\ \A d \in Rows : sess[d].chain # 0
           /\ go' = [go EXCEPT ![p] = [@ EXCEPT !.at = "store", !.out = sess,
                                                !.carries = go[p].msg \in skdm]]
           /\ UNCHANGED <<lock, owed, skdm>>
  <2>. DEFINE a == [go[p] EXCEPT !.at = "store"]
              b == [a EXCEPT !.out = sess]
              carries == go[p].msg \in skdm
              c == [b EXCEPT !.carries = carries]
  <2>1. a \in Call /\ a.at = "store"
    BY <1>0, SMTT(30) DEF Call, Places
  <2>2. go' = [go EXCEPT ![p] = c]
    BY <1>0, <1>3
  <2>. HIDE DEF a
  <2>3. b \in Call /\ b.at = "store" /\ b.out = sess
    BY <1>0, <2>1, Zenon DEF Call
  <2>. HIDE DEF b
  <2>c. carries \in BOOLEAN
    OBVIOUS
  <2>. HIDE DEF carries
  <2>4. c \in Call /\ c.at = "store" /\ c.out = sess
    BY <2>3, <2>c DEF Call
  <2>. HIDE DEF c
  <2>5. go'[p] = c /\ \A g \in Goroutines : g # p => go'[g] = go[g]
    BY <1>0, <2>2
  <2>6. CallsTyped'
    BY <1>0, <1>3, <2>2, <2>4 DEF CallsTyped
  <2>7. OthersTyped'
    BY <1>0, <1>3 DEF OthersTyped, IInv, TypeOK
  <2>8. LockHeld'
    BY <1>3, <2>4, <2>5 DEF Load, LockHeld, IInv
  <2>9. ChainsKnown'
    BY <1>0, <1>3, <2>4, <2>5 DEF IInv, ChainsKnown, Rows
  <2>10. CountersAhead'
    <3>. USE DEF Comparable
    <3>1. ASSUME NEW g \in Goroutines, NEW d \in Devices, Encrypted(g)', go'[g].out[d].exists
          PROVE  /\ go'[g].out[d].chain # 0
                 /\ Comparable(go'[g].out[d], sess'[d]) =>
                      /\ go'[g].out[d].next <= sess'[d].next
                      /\ go'[g].at = "request" => go'[g].out[d].next < sess'[d].next
      <4>1. CASE g = p
        <5>1. go'[g].out[d] = sess[d] /\ go'[g].at = "store"
          BY <2>4, <2>5, <4>1
        <5>2. sess[d].next \in Nat
          BY <1>0 DEF Row
        <5>3. sess[d].chain # 0
          BY <1>3, <3>1, <5>1, SMTT(30) DEF Rows
        <5>. QED
          BY <1>0, <5>1, <5>2, <5>3
      <4>2. CASE g # p
        BY <1>0, <2>5, <3>1, <4>2 DEF IInv, CountersAhead, Encrypted
      <4>. QED
        BY <4>1, <4>2
    <3>2. ASSUME NEW g \in Goroutines, NEW q \in Goroutines, NEW d \in Devices,
                 g # q, Encrypted(g)', Encrypted(q)', go'[g].at = "request",
                 go'[g].out[d].exists, go'[q].out[d].exists, Comparable(go'[g].out[d], go'[q].out[d])
          PROVE  /\ go'[g].out[d].next # go'[q].out[d].next
                 /\ go'[q].at = "store" => go'[g].out[d].next < go'[q].out[d].next
      <4>1. g # p
        BY <2>4, <2>5, <3>2
      <4>2. go'[g] = go[g] /\ Encrypted(g)
        BY <2>5, <3>2, <4>1 DEF Encrypted
      <4>3. CASE q = p
        <5>1. go'[q].out[d] = sess[d]
          BY <2>4, <2>5, <4>3, SMTT(30)
        <5>2. go[g].out[d].next < sess[d].next
          BY <3>2, <4>2, <5>1 DEF IInv, CountersAhead
        <5>3. sess[d].next \in Nat /\ go[g].out[d].next \in Nat
          BY <1>0, SMTT(30) DEF Row, Call
        <5>. QED
          BY <4>2, <5>1, <5>2, <5>3
      <4>4. CASE q # p
        BY <2>5, <3>2, <4>2, <4>4 DEF IInv, CountersAhead, Encrypted
      <4>. QED
        BY <4>3, <4>4
    <3>. QED
      BY <3>1, <3>2 DEF CountersAhead, Encrypted, Comparable
  <2>. QED
    BY <2>6, <2>7, <2>8, <2>9, <2>10 DEF IInv, TypeOK, CallsTyped, OthersTyped
<1>. QED
  BY <1>1, <1>2, <1>3, Zenon DEF Load

\* Two who encrypt under the lock are not both about to store.
LEMMA OneStores ==
  ASSUME IInv, NEW p \in Goroutines, NEW q \in Goroutines, Locks(p), Locks(q),
         go[p].at = "store", go[q].at = "store"
  PROVE  p = q
<1>1. \A g \in Goroutines : Locks(g) => g \in Locking \/ g = Handler
  BY DEF Locks, Goroutines, Sends
<1>. QED
  BY <1>1 DEF IInv, LockHeld

\* Store writes a counter that is ahead of all that were used with the chain, or marks the row.
LEMMA StoreStep ==
  ASSUME IInv, NEW p \in Goroutines, Store(p)
  PROVE  IInv'
<1>0. /\ go \in [Goroutines -> Call] /\ lock \in Locking \cup {Handler, None}
      /\ sess \in [Devices -> Row] /\ dev \in [Devices -> Device]
      /\ skdm \subseteq Sends \cup {None} /\ go[p].at = "store"
      /\ UNCHANGED <<dev, marked, receipts, skdm, incoming, owed, events>>
  BY DEF IInv, TypeOK, Store
<1>. DEFINE out == go[p].out
            raced(d) == out[d].raced \/ (~Locks(p) /\ Races(p, d, out[d]))
            row(d) == [exists |-> TRUE, chain |-> out[d].chain, next |-> out[d].next + 1,
                       raced |-> raced(d)]
<1>1. \A d \in Devices : out[d] \in Row
  BY <1>0 DEF Call
<1>2. ASSUME NEW d \in Devices
      PROVE  /\ row(d) \in Row /\ row(d).chain = out[d].chain /\ row(d).next = out[d].next + 1
             /\ row(d).raced = raced(d) /\ out[d].next \in Nat
  <2>. DEFINE k == raced(d)
  <2>1. k \in BOOLEAN
    BY <1>1 DEF Row
  <2>. HIDE DEF k
  <2>2. [exists |-> TRUE, chain |-> out[d].chain, next |-> out[d].next + 1, raced |-> k] \in Row
        /\ out[d].next \in Nat
    BY <1>1, <2>1 DEF Row
  <2>. QED
    BY <2>2 DEF k
<1>3. sess' = [d \in Devices |-> IF d \in Sent(p) THEN row(d) ELSE sess[d]]
  BY DEF Store
<1>4. \A d \in Devices : sess'[d] = IF out[d].exists THEN row(d) ELSE sess[d]
  BY <1>3 DEF Sent
<1>. DEFINE c == [go[p] EXCEPT !.at = "request"]
<1>p. go[p] \in Call
  BY <1>0
<1>5. c \in Call /\ c.at = "request" /\ c.out = out
  BY <1>p DEF Call, Places
<1>6. go' = [go EXCEPT ![p] = c]
  BY DEF Store
<1>. HIDE DEF c
<1>7. go'[p] = c /\ \A g \in Goroutines : g # p => go'[g] = go[g]
  BY <1>0, <1>6
<1>. HIDE DEF row, raced
<1>8. CallsTyped'
  BY <1>0, <1>5, <1>6 DEF CallsTyped, Store
<1>9. OthersTyped'
  <2>1. sess' \in [Devices -> Row]
    BY <1>0, <1>2, <1>3
  <2>. QED
    BY <1>0, <2>1 DEF OthersTyped, IInv, TypeOK
<1>10. LockHeld'
  BY <1>0, <1>5, <1>7, HandlerIsNoSend, SMTT(30) DEF Store, LockHeld, IInv
<1>11. ChainsKnown'
  <2>1. \A g \in Goroutines, d \in Devices :
          /\ go'[g].out[d].chain <= dev[d].last
          /\ go'[g].at = "store" /\ go'[g].out[d].exists => go'[g].out[d].chain # 0
    BY <1>5, <1>7 DEF IInv, ChainsKnown
  <2>2. \A d \in Devices : sess'[d].chain <= dev[d].last
    BY <1>2, <1>4 DEF IInv, ChainsKnown
  <2>. QED
    BY <1>0, <2>1, <2>2 DEF IInv, ChainsKnown
<1>12. CountersAhead'
  <2>. USE DEF Comparable
  <2>0. \A g \in Goroutines : go'[g].out = go[g].out /\ (Encrypted(g)' => Encrypted(g))
    BY <1>0, <1>5, <1>7, SMTT(30) DEF Encrypted
  <2>1. ASSUME NEW g \in Goroutines, NEW d \in Devices, Encrypted(g)', go'[g].out[d].exists
        PROVE  /\ go'[g].out[d].chain # 0
               /\ Comparable(go'[g].out[d], sess'[d]) =>
                    /\ go'[g].out[d].next <= sess'[d].next
                    /\ go'[g].at = "request" => go'[g].out[d].next < sess'[d].next
    <3>1. Encrypted(g) /\ go[g].out[d].exists /\ go'[g].out[d] = go[g].out[d]
      BY <2>0, <2>1
    <3>2. /\ go[g].out[d].chain # 0
          /\ Comparable(go[g].out[d], sess[d]) =>
               /\ go[g].out[d].next <= sess[d].next
               /\ go[g].at = "request" => go[g].out[d].next < sess[d].next
      BY <3>1 DEF IInv, CountersAhead
    <3>3. go[g].out[d].next \in Nat
      BY <1>0 DEF Call, Row
    <3>4. CASE ~out[d].exists
      BY <1>4, <1>7, <3>1, <3>2, <3>4, SMTT(30)
    <3>5. CASE out[d].exists /\ g = p
      BY <1>2, <1>4, <3>1, <3>2, <3>3, <3>5, SMTT(30)
    <3>6. CASE out[d].exists /\ g # p /\ Locks(p)
      <4>1. go[g].at = "request"
        BY <1>0, <3>1, <3>6, OneStores DEF Encrypted
      <4>2. Encrypted(p)
        BY <1>0, <3>6 DEF Encrypted
      <4>3. raced(d) = out[d].raced
        BY <1>1, <3>6, SMTT(30) DEF raced, Row
      <4>4. Comparable(go[g].out[d], out[d]) => go[g].out[d].next < out[d].next
        BY <1>0, <3>1, <3>6, <4>1, <4>2, SMTT(30) DEF IInv, CountersAhead
      <4>. QED
        BY <1>2, <1>4, <3>1, <3>2, <3>3, <3>6, <4>3, <4>4
    <3>7. CASE out[d].exists /\ g # p /\ ~Locks(p)
      <4>1. CASE raced(d)
        BY <1>2, <1>4, <3>2, <3>1, <3>7, <4>1, SMTT(30)
      <4>2. CASE ~raced(d)
        <5>1. sess[d] = out[d] /\ go[g].at # "store"
          BY <3>1, <3>7, <4>2 DEF raced, Races
        <5>2. go[g].at = "request"
          BY <3>1, <5>1 DEF Encrypted
        <5>3. ~out[d].raced
          BY <4>2 DEF raced
        <5>. QED
          BY <1>2, <1>4, <3>1, <3>2, <3>3, <3>7, <5>1, <5>2, <5>3, SMTT(30)
      <4>. QED
        BY <4>1, <4>2, SMTT(30)
    <3>. QED
      BY <3>4, <3>5, <3>6, <3>7
  <2>2. ASSUME NEW g \in Goroutines, NEW q \in Goroutines, NEW d \in Devices,
               g # q, Encrypted(g)', Encrypted(q)', go'[g].at = "request",
               go'[g].out[d].exists, go'[q].out[d].exists, Comparable(go'[g].out[d], go'[q].out[d])
        PROVE  /\ go'[g].out[d].next # go'[q].out[d].next
               /\ go'[q].at = "store" => go'[g].out[d].next < go'[q].out[d].next
    <3>1. Encrypted(g) /\ Encrypted(q) /\ go'[g].out[d] = go[g].out[d] /\ go'[q].out[d] = go[q].out[d]
      BY <2>0, <2>2
    <3>2. CASE g = p
      <4>1. go[q].at = "request" /\ go'[q] = go[q]
        BY <1>0, <1>7, <2>2, <3>1, <3>2, OneStores, SMTT(30) DEF Encrypted
      <4>2. go[q].out[d].next # go[g].out[d].next
        BY <2>2, <3>1, <4>1 DEF IInv, CountersAhead
      <4>. QED
        BY <3>1, <4>1, <4>2
    <3>3. CASE g # p
      <4>1. go[g].at = "request"
        BY <1>7, <2>2, <3>3, SMTT(30)
      <4>2. go[g].out[d].next # go[q].out[d].next
            /\ (go[q].at = "store" => go[g].out[d].next < go[q].out[d].next)
        BY <2>2, <3>1, <4>1 DEF IInv, CountersAhead
      <4>3. go'[q].at = "store" => go[q].at = "store"
        BY <1>5, <1>7
      <4>. QED
        BY <3>1, <4>2, <4>3
    <3>. QED
      BY <3>2, <3>3
  <2>. QED
    BY <2>1, <2>2 DEF CountersAhead, Encrypted, Comparable
<1>. QED
  BY <1>8, <1>9, <1>10, <1>11, <1>12 DEF IInv, TypeOK, CallsTyped, OthersTyped

\* A receipt that is sent names a chain that its device has lost.
LEMMA AcceptedStep ==
  ASSUME IInv, NEW p \in Goroutines, Accepted(p)
  PROVE  IInv'
<1>0. /\ go[p] \in Call /\ marked \in BOOLEAN /\ UNCHANGED <<dev, sess, incoming, events>>
      /\ Leave(p) /\ owed \subseteq (Sends \cup {None}) \X Devices
      /\ \A q \in receipts : q \in [msg : Sends \cup {None}, dev : Devices, chain : Nat]
  BY DEF IInv, TypeOK, Accepted
<1>. DEFINE unread == {d \in Sent(p) : go[p].out[d].chain <= dev[d].lost}
            new(d) == [msg |-> go[p].msg, dev |-> d, chain |-> go[p].out[d].chain]
<1>1. unread \subseteq Devices /\ Sent(p) \subseteq Devices
  BY DEF Sent
<1>2. go[p].msg \in Sends \cup {None} /\ \A d \in Devices : go[p].out[d].chain \in Nat
  BY <1>0 DEF Call, Row
<1>3. /\ receipts' = receipts \cup {new(d) : d \in unread}
      /\ owed' = (owed \ {<<go[p].msg, d>> : d \in Sent(p)}) \cup {<<go[p].msg, d>> : d \in unread}
      /\ marked' = (marked /\ unread = {})
  BY DEF Accepted
<1>4. \A q \in receipts' : q \in receipts \/ \E d \in unread : q = new(d)
  BY <1>3
<1>5. \A q \in receipts' : q \in receipts \/ q.chain <= dev'[q.dev].lost
  BY <1>0, <1>4
<1>6. \A q \in receipts' : q \in [msg : Sends \cup {None}, dev : Devices, chain : Nat]
  BY <1>0, <1>1, <1>2, <1>4, SMTT(30)
<1>7. owed' \subseteq (Sends \cup {None}) \X Devices
  BY <1>0, <1>1, <1>2, <1>3, SMTT(30)
<1>8. OthersTyped'
  BY <1>0, <1>3, <1>6, <1>7 DEF OthersTyped, IInv, TypeOK
<1>9. CallsTyped' /\ Quiet /\ LockHeld'
  BY <1>0, LeaveStep
<1>10. Renewed /\ DevicesGrow
  BY <1>0, NothingStored
<1>11. incoming' # None => incoming'.row.chain <= dev'[incoming'.dev].last
  BY <1>0 DEF IInv, ChainsKnown
<1>. QED
  BY <1>5, <1>8, <1>9, <1>10, <1>11, QuietStep, SMTT(30)

LEMMA MismatchStep ==
  ASSUME IInv, NEW p \in Goroutines, Mismatch(p)
  PROVE  IInv'
<1>0. /\ go \in [Goroutines -> Call] /\ lock' \in Locking \cup {Handler, None}
      /\ go[p].at = "request" /\ marked' \in BOOLEAN
      /\ UNCHANGED <<dev, sess, marked, lock, receipts, skdm, incoming, owed, events>>
  BY DEF IInv, TypeOK, Mismatch
<1>p. go[p] \in Call
  BY <1>0
<1>1. PICK stale \in SUBSET Devices, missing \in SUBSET Devices, extra \in SUBSET Devices :
        go' = [go EXCEPT ![p] = [@ EXCEPT !.at = "repair", !.stale = stale,
                                          !.missing = missing, !.extra = extra]]
  <2>1. Stale(p) \subseteq Devices /\ Sent(p) \subseteq Devices /\ Linked \subseteq Devices
    BY DEF Stale, Sent, Linked
  <2>. QED
    BY <2>1, Zenon DEF Mismatch
<1>. DEFINE c == [go[p] EXCEPT !.at = "repair", !.stale = stale, !.missing = missing, !.extra = extra]
<1>2. c \in Call /\ c.at = "repair" /\ c.out = go[p].out
  BY <1>p, Zenon DEF Call, Places
<1>3. go' = [go EXCEPT ![p] = c]
  BY <1>1
<1>. HIDE DEF c
<1>4. CallsTyped' /\ Quiet /\ go'[p] = c /\ \A g \in Goroutines : g # p => go'[g] = go[g]
  BY <1>0, <1>2, <1>3, MoveStep, Zenon
<1>5. LockHeld'
  BY <1>0, <1>2, <1>4 DEF LockHeld, IInv
<1>6. owed' \subseteq owed
  BY <1>0
<1>. QED
  BY <1>0, <1>4, <1>5, <1>6, CallsOnly

\* Rows that are removed.
LEMMA RemoveRows ==
  ASSUME IInv, NEW ds \in SUBSET Devices, UNCHANGED dev,
         sess' = [d \in Devices |-> IF d \in ds THEN NoRow ELSE sess[d]]
  PROVE  sess' \in [Devices -> Row] /\ Renewed /\ DevicesGrow
<1>0. /\ dev \in [Devices -> Device] /\ sess \in [Devices -> Row]
      /\ NoRow \in Row /\ NoRow.chain = 0
  BY DEF IInv, TypeOK, NoRow, Row
<1>1. \A d \in Devices : sess'[d] = sess[d] \/ sess'[d].chain = 0
  BY <1>0
<1>2. \A d \in Devices : dev[d].last \in Nat /\ dev[d].lost \in Nat
  BY <1>0 DEF Device
<1>. QED
  BY <1>0, <1>1, <1>2 DEF Renewed, DevicesGrow, IInv, ChainsKnown

\* A step that removes rows, beside what it does to the calls.
LEMMA RemovalStep ==
  ASSUME IInv, NEW ds \in SUBSET Devices,
         sess' = [d \in Devices |-> IF d \in ds THEN NoRow ELSE sess[d]],
         CallsTyped', Quiet, LockHeld', owed' \subseteq owed, marked' \in BOOLEAN,
         UNCHANGED <<dev, receipts, incoming, events>>
  PROVE  IInv'
<1>1. sess' \in [Devices -> Row] /\ Renewed /\ DevicesGrow
  BY RemoveRows
<1>2. OthersTyped'
  BY <1>1 DEF OthersTyped, IInv, TypeOK
<1>3. /\ incoming' # None => incoming'.row.chain <= dev'[incoming'.dev].last
      /\ \A q \in receipts' : q \in receipts \/ q.chain <= dev'[q.dev].lost
  BY DEF IInv, ChainsKnown
<1>. QED
  BY <1>1, <1>2, <1>3, QuietStep

LEMMA GoneStep ==
  ASSUME IInv, NEW p \in Goroutines, Gone(p)
  PROVE  IInv'
<1>1. sess' = [d \in Devices |-> IF d \in Devices THEN NoRow ELSE sess[d]]
  BY DEF Gone
<1>2. CallsTyped' /\ Quiet /\ LockHeld' /\ owed' \subseteq owed
  BY LeaveStep DEF Gone, Fail
<1>3. marked' \in BOOLEAN /\ UNCHANGED <<dev, receipts, incoming, events>>
  BY DEF Gone
<1>. QED
  BY <1>1, <1>2, <1>3, RemovalStep

LEMMA RemoveStaleStep ==
  ASSUME IInv, NEW p \in Goroutines, RemoveStale(p)
  PROVE  IInv'
<1>0. /\ go \in [Goroutines -> Call] /\ lock' \in Locking \cup {Handler, None}
      /\ sess \in [Devices -> Row] /\ go[p].at = "repair" /\ marked' \in BOOLEAN
      /\ UNCHANGED <<dev, marked, lock, receipts, skdm, incoming, owed, events>>
  BY DEF IInv, TypeOK, RemoveStale
<1>p. go[p] \in Call
  BY <1>0
<1>1. PICK d \in go[p].stale :
        /\ sess' = [sess EXCEPT ![d] = NoRow]
        /\ go' = [go EXCEPT ![p] = [@ EXCEPT !.stale = go[p].stale \ {d}, !.missing = {d}]]
  BY Zenon DEF RemoveStale
<1>2. d \in Devices /\ go[p].stale \ {d} \in SUBSET Devices /\ {d} \in SUBSET Devices
  BY <1>p DEF Call
<1>. DEFINE c == [go[p] EXCEPT !.stale = go[p].stale \ {d}, !.missing = {d}]
<1>3. c \in Call /\ c.at = "repair" /\ c.out = go[p].out
  BY <1>0, <1>p, <1>2, Zenon DEF Call
<1>4. go' = [go EXCEPT ![p] = c]
  BY <1>1
<1>. HIDE DEF c
<1>5. CallsTyped' /\ Quiet /\ go'[p] = c /\ \A g \in Goroutines : g # p => go'[g] = go[g]
  BY <1>0, <1>3, <1>4, MoveStep, Zenon
<1>6. LockHeld'
  BY <1>0, <1>3, <1>5 DEF LockHeld, IInv
<1>7. sess' = [e \in Devices |-> IF e \in {d} THEN NoRow ELSE sess[e]]
  BY <1>0, <1>1, <1>2, Zenon
<1>8. owed' \subseteq owed
  BY <1>0
<1>. QED
  BY <1>0, <1>2, <1>5, <1>6, <1>7, <1>8, RemovalStep, Zenon

LEMMA FetchOneStep ==
  ASSUME IInv, NEW p \in Goroutines, FetchOne(p)
  PROVE  IInv'
<1>0. /\ go \in [Goroutines -> Call] /\ lock \in Locking \cup {Handler, None}
      /\ go[p].at = "repair" /\ marked \in BOOLEAN /\ UNCHANGED <<receipts, incoming, events>>
  BY DEF IInv, TypeOK, FetchOne
<1>p. go[p] \in Call
  BY <1>0
<1>1. PICK d \in go[p].missing :
        \/ /\ Renew({d}) /\ go' = [go EXCEPT ![p].missing = @ \ {d}]
           /\ UNCHANGED <<marked, lock, owed, skdm>>
        \/ /\ marked' \in {marked, marked \/ d \notin Linked}
           /\ Fail(p) /\ UNCHANGED <<dev, sess>>
  BY Zenon DEF FetchOne
<1>2. CASE /\ Renew({d}) /\ go' = [go EXCEPT ![p].missing = @ \ {d}]
           /\ UNCHANGED <<marked, lock, owed, skdm>>
  <2>0. {d} \in SUBSET Devices /\ go[p].missing \ {d} \in SUBSET Devices
    BY <1>p DEF Call
  <2>. DEFINE c == [go[p] EXCEPT !.missing = go[p].missing \ {d}]
  <2>1. c \in Call /\ c.at = "repair" /\ c.out = go[p].out
    BY <1>0, <1>p, <2>0 DEF Call
  <2>2. go' = [go EXCEPT ![p] = c]
    BY <1>2
  <2>. HIDE DEF c
  <2>3. CallsTyped' /\ Quiet /\ go'[p] = c /\ \A g \in Goroutines : g # p => go'[g] = go[g]
    BY <1>0, <1>2, <2>1, <2>2, MoveStep, Zenon
  <2>4. LockHeld'
    BY <1>0, <1>2, <2>1, <2>3 DEF LockHeld, IInv
  <2>6. /\ dev' \in [Devices -> Device] /\ sess' \in [Devices -> Row]
        /\ Renewed /\ DevicesGrow
    BY <1>2, <2>0, RenewStep
  <2>7. OthersTyped'
    BY <1>0, <1>2, <2>6 DEF OthersTyped, IInv, TypeOK
  <2>8. incoming' # None => incoming'.row.chain <= dev'[incoming'.dev].last
    BY <1>0, <2>6, IncomingStays
  <2>9. \A q \in receipts' : q \in receipts
    BY <1>0
  <2>. QED
    BY <2>3, <2>4, <2>6, <2>7, <2>8, <2>9, QuietStep
<1>3. CASE /\ marked' \in {marked, marked \/ d \notin Linked}
           /\ Fail(p) /\ UNCHANGED <<dev, sess>>
  <2>1. marked' \in BOOLEAN
    BY <1>0, <1>3, Zenon
  <2>. QED
    BY <1>0, <1>3, <2>1, LeaveStep, CallsOnly DEF Fail
<1>. QED
  BY <1>1, <1>2, <1>3

LEMMA ResendStep ==
  ASSUME IInv, NEW p \in Goroutines, Resend(p)
  PROVE  IInv'
<1>0. /\ go[p] \in Call /\ go[p].at = "repair" /\ marked' \in BOOLEAN
      /\ UNCHANGED <<dev, receipts, incoming, events>>
      /\ sess' = [d \in Devices |-> IF d \in go[p].extra THEN NoRow ELSE sess[d]]
  BY DEF IInv, TypeOK, Resend
<1>1. go[p].tries + 1 \in Nat /\ go[p].sealed \in BOOLEAN /\ go[p].extra \in SUBSET Devices
  BY <1>0 DEF Call
<1>2. p = Handler => lock = Handler
  BY <1>0 DEF IInv, LockHeld
<1>3. CallsTyped' /\ Quiet /\ LockHeld' /\ owed' \subseteq owed
  <2>1. CASE Fail(p)
    BY <2>1, LeaveStep DEF Fail
  <2>2. CASE Enter(p, go[p].tries + 1, go[p].sealed)
    BY <1>1, <1>2, <2>2, EnterStep
  <2>. QED
    BY <2>1, <2>2 DEF Resend
<1>. QED
  BY <1>0, <1>1, <1>3, RemovalStep

\* An answer to a retry receipt archives at most the session that the receipt names.
LEMMA ArchiveStep ==
  ASSUME IInv, NEW q \in receipts, Archive(q), UNCHANGED dev
  PROVE  sess' \in [Devices -> Row] /\ Renewed /\ DevicesGrow
<1>0. /\ dev \in [Devices -> Device] /\ sess \in [Devices -> Row] /\ q.dev \in Devices
  BY DEF IInv, TypeOK
<1>1. CASE sess' = sess
  BY <1>0, <1>1, NothingStored, SMTT(30)
<1>2. CASE sess' = [sess EXCEPT ![q.dev].chain = 0]
  <2>. DEFINE r == [sess[q.dev] EXCEPT !.chain = 0]
  <2>1. r \in Row /\ r.chain = 0
    BY <1>0 DEF Row
  <2>2. sess' = [sess EXCEPT ![q.dev] = r]
    BY <1>2
  <2>. HIDE DEF r
  <2>3. sess' \in [Devices -> Row] /\ \A d \in Devices : sess'[d] = sess[d] \/ sess'[d].chain = 0
    BY <1>0, <2>1, <2>2
  <2>4. \A d \in Devices : dev[d].last \in Nat /\ dev[d].lost \in Nat
    BY <1>0 DEF Device
  <2>. QED
    BY <1>0, <2>3, <2>4 DEF Renewed, DevicesGrow, IInv, ChainsKnown
<1>. QED
  BY <1>1, <1>2 DEF Archive

LEMMA RespondStep ==
  ASSUME IInv, NEW q \in receipts, NEW m \in Sends \cup {None}, NEW shared \in BOOLEAN,
         NEW sealed \in BOOLEAN, lock = None, Respond(q, m, shared, sealed),
         skdm' \subseteq Sends \cup {None}
  PROVE  CallsTyped' /\ Quiet /\ LockHeld'
<1>0. go \in [Goroutines -> Call] /\ q.dev \in Devices /\ Handler \in Goroutines
  BY DEF IInv, TypeOK, Goroutines
<1>1. CASE UNCHANGED <<lock, go>>
  BY <1>0, <1>1 DEF CallsTyped, Quiet, LockHeld, IInv, TypeOK
<1>2. CASE lock' = Handler /\ go' = [go EXCEPT ![Handler] = Begin("sessions", m, 0, sealed, q.dev)]
  <2>. DEFINE c == Begin("sessions", m, 0, sealed, q.dev)
  <2>0. "sessions" \in Places
    BY DEF Places
  <2>1. "sessions" \in Places /\ 0 \in Nat /\ 0 <= MaxRetries /\ q.dev \in Devices \cup {None}
    BY <1>0, <2>0, BoundsAreNumbers
  <2>2. c \in Call /\ c.at = "sessions" /\ \A d \in Devices : c.out[d] = NoRow
    BY <2>1, BeginIsCall
  <2>3. go' = [go EXCEPT ![Handler] = c]
    BY <1>2
  <2>. HIDE DEF c
  <2>4. go'[Handler] = c /\ \A g \in Goroutines : g # Handler => go'[g] = go[g]
    BY <1>0, <2>3
  <2>5. CallsTyped'
    BY <1>0, <1>2, <2>2, <2>3 DEF CallsTyped
  <2>6. Quiet
    BY <2>2, <2>4 DEF Quiet
  <2>7. \A g \in Goroutines : lock # g
    BY NoneIsNoGoroutine DEF Goroutines, Sends
  <2>8. LockHeld'
    BY <1>2, <2>2, <2>4, <2>7, HandlerIsNoSend DEF LockHeld, IInv
  <2>. QED
    BY <2>5, <2>6, <2>8
<1>. QED
  BY <1>1, <1>2 DEF Respond

\* Both answers to a retry receipt.
LEMMA AnswerStep ==
  ASSUME IInv, NEW q \in receipts, Archive(q), CallsTyped', Quiet, LockHeld', owed' \subseteq owed,
         receipts' \subseteq receipts, UNCHANGED <<dev, marked, incoming, events>>
  PROVE  IInv'
<1>1. sess' \in [Devices -> Row] /\ Renewed /\ DevicesGrow
  BY ArchiveStep
<1>2. OthersTyped'
  BY <1>1 DEF OthersTyped, IInv, TypeOK
<1>3. /\ incoming' # None => incoming'.row.chain <= dev'[incoming'.dev].last
      /\ \A r \in receipts' : r \in receipts
  BY DEF IInv, ChainsKnown
<1>. QED
  BY <1>1, <1>2, <1>3, QuietStep

LEMMA HandleRetryRequestStep ==
  ASSUME IInv, NEW q \in receipts, HandleRetryRequest(q)
  PROVE  IInv'
<1>0. q.msg \in Sends \cup {None} /\ skdm \subseteq Sends \cup {None}
  BY DEF IInv, TypeOK
<1>1. PICK shared \in BOOLEAN, sealed \in BOOLEAN :
        /\ skdm' = IF shared THEN skdm \cup {q.msg} ELSE skdm \ {q.msg}
        /\ Respond(q, q.msg, shared, sealed)
        /\ owed' = IF shared /\ ~sealed THEN owed \ {<<q.msg, q.dev>>} ELSE owed
  BY Zenon DEF HandleRetryRequest, Sealing
<1>2. skdm' \subseteq Sends \cup {None} /\ owed' \subseteq owed
  BY <1>0, <1>1
<1>3. lock = None /\ Archive(q) /\ receipts' \subseteq receipts /\ UNCHANGED <<dev, marked, incoming, events>>
  BY DEF HandleRetryRequest
<1>4. CallsTyped' /\ Quiet /\ LockHeld'
  BY <1>0, <1>1, <1>2, <1>3, RespondStep
<1>. QED
  BY <1>2, <1>3, <1>4, AnswerStep

LEMMA HandleExpiredRequestStep ==
  ASSUME IInv, NEW q \in receipts, HandleExpiredRequest(q)
  PROVE  IInv'
<1>0. skdm \subseteq Sends \cup {None} /\ None \in Sends \cup {None}
  BY DEF IInv, TypeOK
<1>1. /\ lock = None /\ Archive(q) /\ receipts' \subseteq receipts /\ owed' \subseteq owed
      /\ UNCHANGED <<dev, marked, incoming, events>>
  BY DEF HandleExpiredRequest
<1>2. CallsTyped' /\ Quiet /\ LockHeld'
  <2>1. ASSUME NEW sealed \in BOOLEAN, Respond(q, None, TRUE, sealed),
               skdm' = IF sealed THEN skdm \cup {None} ELSE skdm
        PROVE  CallsTyped' /\ Quiet /\ LockHeld'
    <3>1. skdm' \subseteq Sends \cup {None} /\ TRUE \in BOOLEAN
      BY <1>0, <2>1
    <3>. QED
      BY <1>0, <1>1, <2>1, <3>1, RespondStep, Zenon
  <2>2. CASE Respond(q, None, FALSE, TRUE) /\ UNCHANGED skdm
    <3>1. skdm' \subseteq Sends \cup {None} /\ TRUE \in BOOLEAN /\ FALSE \in BOOLEAN
      BY <1>0, <2>2
    <3>. QED
      BY <1>0, <1>1, <2>2, <3>1, RespondStep, Zenon
  <2>3. CASE UNCHANGED <<lock, go, skdm>>
    BY <2>3 DEF CallsTyped, Quiet, LockHeld, IInv, TypeOK
  <2>. QED
    BY <2>1, <2>2, <2>3, Zenon DEF HandleExpiredRequest
<1>. QED
  BY <1>1, <1>2, AnswerStep

\* The steps that leave the calls and the lock alone.
LEMMA CallsStay ==
  ASSUME IInv, UNCHANGED <<go, lock>>, skdm' \subseteq Sends \cup {None}
  PROVE  CallsTyped' /\ Quiet /\ LockHeld'
BY DEF IInv, TypeOK, CallsTyped, Quiet, LockHeld

LEMMA AnswerOtherStep ==
  ASSUME IInv, NEW m \in Sends, AnswerOther(m)
  PROVE  IInv'
<1>0. skdm \subseteq Sends \cup {None} /\ events \in Nat /\ dev \in [Devices -> Device]
  BY BoundsAreNumbers DEF IInv, TypeOK
<1>1. /\ skdm' \subseteq Sends \cup {None} /\ events' \in 0..MaxEvents
      /\ UNCHANGED <<dev, sess, marked, lock, go, receipts, incoming, owed>>
  BY <1>0, BoundsAreNumbers DEF AnswerOther, Event
<1>2. CallsTyped' /\ Quiet /\ LockHeld'
  BY <1>1, CallsStay
<1>3. OthersTyped'
  BY <1>1 DEF OthersTyped, IInv, TypeOK
<1>4. Renewed /\ DevicesGrow
  BY <1>1, NothingStored
<1>5. incoming' # None => incoming'.row.chain <= dev'[incoming'.dev].last
  BY <1>1 DEF IInv, ChainsKnown
<1>. QED
  BY <1>1, <1>2, <1>3, <1>4, <1>5, QuietStep

\* A device that changes knows no chain that it did not know before.
LEMMA DeviceStep ==
  ASSUME IInv, NEW d \in Devices, Forget(d) \/ ChangeDevice(d)
  PROVE  IInv'
<1>0. /\ dev \in [Devices -> Device] /\ events \in Nat /\ dev[d] \in Device
      /\ skdm \subseteq Sends \cup {None}
  BY BoundsAreNumbers DEF IInv, TypeOK
<1>1. /\ UNCHANGED <<sess, marked, lock, go, receipts, skdm, incoming>> /\ owed' \subseteq owed
      /\ events' \in 0..MaxEvents
  <2>1. CASE Forget(d)
    BY <1>0, <2>1, BoundsAreNumbers DEF Forget, Event
  <2>2. CASE ChangeDevice(d)
    <3>1. owed' \subseteq owed
      BY <2>2, Zenon DEF ChangeDevice
    <3>2. Event /\ UNCHANGED <<sess, marked, lock, go, receipts, skdm, incoming>>
      BY <2>2, Zenon DEF ChangeDevice
    <3>3. events' \in 0..MaxEvents
      BY <1>0, <3>2, BoundsAreNumbers DEF Event
    <3>. QED
      BY <3>1, <3>2, <3>3
  <2>. QED
    BY <2>1, <2>2
<1>2. PICK n \in Device : dev' = [dev EXCEPT ![d] = n] /\ n.last = dev[d].last /\ n.lost = dev[d].last
  <2>1. CASE Forget(d)
    <3>. DEFINE n == [dev[d] EXCEPT !.lost = dev[d].last]
    <3>1. n \in Device /\ n.last = dev[d].last /\ n.lost = dev[d].last
      BY <1>0 DEF Device
    <3>2. dev' = [dev EXCEPT ![d] = n]
      BY <2>1 DEF Forget
    <3>. QED
      BY <3>1, <3>2, Zenon
  <2>2. CASE ChangeDevice(d)
    <3>1. PICK linked \in BOOLEAN :
            dev' = [dev EXCEPT ![d] = [@ EXCEPT !.linked = linked, !.floor = dev[d].last,
                                                !.lost = dev[d].last]]
      BY <2>2, Zenon DEF ChangeDevice
    <3>. DEFINE n == [dev[d] EXCEPT !.linked = linked, !.floor = dev[d].last, !.lost = dev[d].last]
    <3>2. n \in Device /\ n.last = dev[d].last /\ n.lost = dev[d].last
      BY <1>0, Zenon DEF Device
    <3>3. dev' = [dev EXCEPT ![d] = n]
      BY <3>1
    <3>. QED
      BY <3>2, <3>3, Zenon
  <2>. QED
    BY <2>1, <2>2
<1>3. /\ dev' \in [Devices -> Device]
      /\ \A e \in Devices : dev'[e] = IF e = d THEN n ELSE dev[e]
  BY <1>0, <1>2
<1>4. \A e \in Devices : /\ dev[e].last \in Nat /\ dev[e].lost \in Nat
                        /\ dev[e].lost <= dev[e].last /\ sess[e].chain <= dev[e].last
  BY <1>0, SMTT(30) DEF Device, IInv, ChainsKnown
<1>5. DevicesGrow
  BY <1>1, <1>2, <1>3, <1>4 DEF DevicesGrow
<1>6. Renewed
  BY <1>1 DEF Renewed
<1>7. CallsTyped' /\ Quiet /\ LockHeld'
  BY <1>0, <1>1, CallsStay
<1>8. OthersTyped'
  BY <1>1, <1>3 DEF OthersTyped, IInv, TypeOK
<1>9. incoming' # None => incoming'.row.chain <= dev'[incoming'.dev].last
  BY <1>1, <1>3, <1>5, IncomingStays
<1>10. \A q \in receipts' : q \in receipts
  BY <1>1
<1>. QED
  BY <1>5, <1>6, <1>7, <1>8, <1>9, <1>10, QuietStep

LEMMA LoadIncomingStep ==
  ASSUME IInv, NEW d \in Devices, LoadIncoming(d)
  PROVE  IInv'
<1>0. /\ dev \in [Devices -> Device] /\ sess \in [Devices -> Row] /\ events \in Nat
      /\ skdm \subseteq Sends \cup {None}
  BY BoundsAreNumbers DEF IInv, TypeOK
<1>1. /\ UNCHANGED <<dev, sess, marked, lock, go, receipts, skdm, owed>>
      /\ events' \in 0..MaxEvents
      /\ incoming' = [dev |-> d, row |-> sess[d], lost |-> dev[d].lost]
  BY <1>0, BoundsAreNumbers DEF LoadIncoming, Event
<1>2. incoming' \in [dev : Devices, row : Row, lost : Nat]
  BY <1>0, <1>1 DEF Device
<1>3. CallsTyped' /\ Quiet /\ LockHeld'
  BY <1>0, <1>1, CallsStay
<1>4. OthersTyped'
  BY <1>1, <1>2 DEF OthersTyped, IInv, TypeOK
<1>5. Renewed /\ DevicesGrow
  BY <1>1, NothingStored
<1>6. incoming'.row.chain <= dev'[incoming'.dev].last
  BY <1>1 DEF IInv, ChainsKnown
<1>. QED
  BY <1>1, <1>3, <1>4, <1>5, <1>6, QuietStep

\* The receive path stores what it loaded, and marks the row if that was overwritten.
LEMMA StoreIncomingStep ==
  ASSUME IInv, StoreIncoming
  PROVE  IInv'
<1>0. /\ dev \in [Devices -> Device] /\ sess \in [Devices -> Row]
      /\ incoming.dev \in Devices /\ incoming.row \in Row
      /\ incoming.row.chain <= dev[incoming.dev].last
      /\ skdm \subseteq Sends \cup {None}
      /\ incoming' = None /\ marked' = FALSE
      /\ UNCHANGED <<lock, go, receipts, skdm, owed, events>>
  BY DEF IInv, TypeOK, StoreIncoming, ChainsKnown
<1>. DEFINE d == incoming.dev
            r == incoming.row
<1>1. dev' \in [Devices -> Device] /\ sess' \in [Devices -> Row] /\ Renewed /\ DevicesGrow
  <2>1. CASE sess' = [sess EXCEPT ![d] = [r EXCEPT !.raced = r.raced \/ Races(None, d, r)]] /\ UNCHANGED dev
    <3>. DEFINE k == r.raced \/ Races(None, d, r)
                n == [r EXCEPT !.raced = k]
    <3>1. k \in BOOLEAN
      BY <1>0 DEF Row
    <3>2. ~k => sess[d] = r /\ r.raced = FALSE
      BY <1>0 DEF Races, Row
    <3>3. sess' = [sess EXCEPT ![d] = n]
      BY <2>1
    <3>. HIDE DEF k
    <3>4. n \in Row /\ n.chain = r.chain /\ n.raced = k
      BY <1>0, <3>1 DEF Row
    <3>5. ~k => n = sess[d]
      <4>1. ASSUME k = FALSE, r.raced = FALSE
            PROVE  n = r
        BY <1>0, <4>1, Zenon DEF Row
      <4>. QED
        BY <3>1, <3>2, <4>1, Zenon
    <3>. HIDE DEF n
    <3>6. /\ sess' \in [Devices -> Row] /\ sess'[d] = n
          /\ \A e \in Devices : e # d => sess'[e] = sess[e]
      BY <1>0, <3>3, <3>4
    <3>7. Renewed
      BY <3>4, <3>5, <3>6, <3>1, SMTT(30) DEF Renewed
    <3>8. \A e \in Devices : sess'[e].chain <= dev[e].last
      BY <1>0, <3>4, <3>6 DEF IInv, ChainsKnown
    <3>9. \A e \in Devices : dev[e].last \in Nat /\ dev[e].lost \in Nat
      BY <1>0 DEF Device
    <3>10. DevicesGrow
      BY <2>1, <3>8, <3>9 DEF DevicesGrow, IInv, ChainsKnown
    <3>. QED
      BY <1>0, <2>1, <3>6, <3>7, <3>10
  <2>2. CASE Renew({d})
    <3>1. {d} \in SUBSET Devices
      BY <1>0
    <3>. QED
      BY <2>2, <3>1, RenewStep
  <2>3. CASE UNCHANGED <<dev, sess>>
    BY <1>0, <2>3, NothingStored
  <2>. QED
    BY <2>1, <2>2, <2>3 DEF StoreIncoming
<1>2. CallsTyped' /\ Quiet /\ LockHeld'
  BY <1>0, CallsStay
<1>3. OthersTyped'
  BY <1>0, <1>1, Zenon DEF OthersTyped, IInv, TypeOK
<1>4. \A q \in receipts' : q \in receipts
  BY <1>0
<1>. QED
  BY <1>0, <1>1, <1>2, <1>3, <1>4, QuietStep

----------------------------------------------------------------------------
(* The theorems.                                                           *)

LEMMA InvInit == Init => IInv
<1>. SUFFICES ASSUME Init PROVE IInv
  OBVIOUS
<1>1. NoRow \in Row /\ NoRow.chain = 0
  BY SMTT(30) DEF NoRow, Row
<1>. DEFINE idle == AtRest("idle")
<1>2. idle \in Call /\ idle.at = "idle" /\ \A d \in Devices : idle.out[d] = NoRow
  <2>1. [d \in Devices |-> NoRow] \in [Devices -> Row] /\ 0 \in 0..MaxRetries
    BY <1>1, BoundsAreNumbers
  <2>. QED
    BY <2>1 DEF AtRest, Begin, Call, Places
<1>. HIDE DEF idle
<1>3. go = [p \in Goroutines |-> idle]
  BY DEF Init, idle
<1>4. /\ dev \in [Devices -> Device] /\ sess \in [Devices -> Row]
      /\ \A d \in Devices : dev[d].lost <= dev[d].last /\ sess[d].chain <= dev[d].last /\ 0 <= dev[d].last
  <2>1. PICK linked \in SUBSET Devices, known \in SUBSET Devices, anew \in SUBSET Devices :
          /\ dev = [d \in Devices |-> [linked |-> d \in linked, last |-> 1,
                                       floor |-> IF d \in anew THEN 1 ELSE 0,
                                       lost |-> IF d \in anew THEN 1 ELSE 0]]
          /\ sess = [d \in Devices |-> IF d \in known
                                       THEN [NoRow EXCEPT !.exists = TRUE, !.chain = 1]
                                       ELSE NoRow]
    BY Zenon DEF Init
  <2>. DEFINE n(d) == [linked |-> d \in linked, last |-> 1, floor |-> IF d \in anew THEN 1 ELSE 0,
                       lost |-> IF d \in anew THEN 1 ELSE 0]
              r == [NoRow EXCEPT !.exists = TRUE, !.chain = 1]
  <2>2. \A d \in Devices : n(d) \in Device /\ n(d).lost <= n(d).last /\ n(d).last = 1
    BY DEF Device
  <2>3. r \in Row /\ r.chain = 1
    BY Zenon DEF NoRow, Row
  <2>4. /\ dev = [d \in Devices |-> n(d)]
        /\ sess = [d \in Devices |-> IF d \in known THEN r ELSE NoRow]
    BY <2>1
  <2>. HIDE DEF n, r
  <2>. QED
    BY <1>1, <2>2, <2>3, <2>4
<1>5. /\ marked = FALSE /\ lock = None /\ receipts = {} /\ skdm = {} /\ incoming = None
      /\ owed = {} /\ events = 0 /\ 0 \in 0..MaxEvents
  BY BoundsAreNumbers DEF Init
<1>6. TypeOK
  BY <1>2, <1>3, <1>4, <1>5, Zenon DEF TypeOK
<1>7. ChainsKnown
  BY <1>1, <1>2, <1>3, <1>4, <1>5 DEF ChainsKnown
<1>8. LockHeld
  BY <1>2, <1>3, SMTT(30) DEF LockHeld
<1>9. CountersAhead
  BY <1>2, <1>3 DEF CountersAhead, Encrypted
<1>. QED
  BY <1>6, <1>7, <1>8, <1>9 DEF IInv

LEMMA InvNext == IInv /\ [Next]_vars => IInv'
<1>. SUFFICES ASSUME IInv, [Next]_vars PROVE IInv'
  OBVIOUS
<1>1. CASE UNCHANGED vars
  <2>0. UNCHANGED <<dev, sess, marked, lock, go, receipts, skdm, incoming, owed, events>>
    BY <1>1 DEF vars
  <2>1. Quiet /\ Renewed /\ DevicesGrow
    BY <2>0, NothingStored DEF Quiet
  <2>2. CallsTyped' /\ OthersTyped' /\ LockHeld'
    BY <2>0 DEF IInv, TypeOK, CallsTyped, OthersTyped, LockHeld
  <2>3. incoming' # None => incoming'.row.chain <= dev'[incoming'.dev].last
    BY <2>0, Zenon DEF IInv, ChainsKnown
  <2>. QED
    BY <2>0, <2>1, <2>2, <2>3, QuietStep
<1>2. ASSUME NEW p \in Sends, Start(p) PROVE IInv'
  BY <1>2, StartStep DEF Goroutines
<1>3. ASSUME NEW p \in Goroutines, Lock(p) \/ SendStep(p) PROVE IInv'
  BY <1>3, LockStep, FetchAllStep, LoadStep, StoreStep, AcceptedStep, MismatchStep, GoneStep,
     RetrySteps, RemoveStaleStep, FetchOneStep, ResendStep DEF SendStep, Request
<1>4. ASSUME NEW q \in receipts, HandleRetryRequest(q) \/ HandleExpiredRequest(q) PROVE IInv'
  BY <1>4, HandleRetryRequestStep, HandleExpiredRequestStep
<1>5. ASSUME NEW m \in Sends, AnswerOther(m) PROVE IInv'
  BY <1>5, AnswerOtherStep
<1>6. ASSUME NEW d \in Devices, Forget(d) \/ ChangeDevice(d) \/ LoadIncoming(d) PROVE IInv'
  BY <1>6, DeviceStep, LoadIncomingStep
<1>7. CASE StoreIncoming
  BY <1>7, StoreIncomingStep
<1>. QED
  BY <1>1, <1>2, <1>3, <1>4, <1>5, <1>6, <1>7 DEF Next

\* For any number of devices and sends: the types, and that the inductive invariant holds.
THEOREM SendingInvariant == Spec => []IInv
BY InvInit, InvNext, PTL DEF Spec

\* Types, and at most MaxRetries retries of a send under way.
THEOREM SendingTypes == Spec => []TypeOK
<1>1. IInv => TypeOK
  BY DEF IInv
<1>. QED
  BY <1>1, SendingInvariant, PTL

\* Goroutines that encrypt under encryptionLock do not use a counter twice, whatever is done to
\* the sessions outside of it, except with a session that was stored over a newer one.
THEOREM CountersNotReused == Spec => []CountersUnique
<1>1. IInv => CountersUnique
  <2>. SUFFICES ASSUME IInv, NEW p \in Goroutines, NEW q \in Goroutines, Encrypted(p), Encrypted(q),
                       p # q, NEW d \in Sent(p) \cap Sent(q),
                       go[p].out[d].chain = go[q].out[d].chain,
                       go[p].out[d].next = go[q].out[d].next,
                       ~go[p].out[d].raced, ~go[q].out[d].raced
                PROVE  FALSE
    BY DEF CountersUnique, Encrypted
  <2>1. d \in Devices /\ go[p].out[d].exists /\ go[q].out[d].exists
    BY DEF Sent
  <2>2. Comparable(go[p].out[d], go[q].out[d]) /\ Comparable(go[q].out[d], go[p].out[d])
    BY <2>1, Zenon DEF Comparable, IInv, CountersAhead
  <2>3. go[p].at = "request" \/ go[q].at = "request"
    BY OneStores DEF Encrypted
  <2>. QED
    BY <2>1, <2>2, <2>3, Zenon DEF IInv, CountersAhead
<1>. QED
  BY <1>1, SendingInvariant, PTL

\* A retry receipt, however late it is handled, costs no session that its device can still use.
THEOREM FreshSessionsKept == Spec => FreshSessionsSurvive
<1>. DEFINE Kept == \A d \in Devices : sess[d].chain # 0 /\ sess'[d].exists /\ sess'[d].chain = 0
                                         => sess[d].chain <= dev[d].lost
<1>1. IInv /\ [Next]_vars => [Kept]_vars
  <2>. SUFFICES ASSUME IInv, Next, NEW d \in Devices,
                       sess[d].chain # 0, sess'[d].exists, sess'[d].chain = 0
                PROVE  sess[d].chain <= dev[d].lost
    OBVIOUS
  <2>0. /\ dev \in [Devices -> Device] /\ sess \in [Devices -> Row] /\ go \in [Goroutines -> Call]
        /\ ~NoRow.exists /\ dev[d].last + 1 # 0
    BY DEF IInv, TypeOK, NoRow, Device
  <2>. DEFINE Same == sess'[d] = sess[d]
  <2>1. ASSUME NEW ds, Renew(ds) PROVE FALSE
    <3>1. sess'[d].chain = (IF d \in ds THEN dev[d].last + 1 ELSE sess[d].chain)
      BY <2>1 DEF Renew
    <3>. QED
      BY <2>0, <3>1
  <2>2. ASSUME NEW p \in Goroutines, Store(p) PROVE FALSE
    <3>1. go[p].at = "store" /\ ((sess'[d].chain = go[p].out[d].chain /\ go[p].out[d].exists) \/ Same)
      BY <2>2 DEF Store, Sent
    <3>. QED
      BY <3>1 DEF IInv, ChainsKnown
  <2>3. ASSUME NEW q \in receipts, Archive(q) PROVE sess[d].chain <= dev[d].lost
    <3>1. q.dev \in Devices /\ q.chain <= dev[q.dev].lost
      BY DEF IInv, TypeOK, ChainsKnown
    <3>2. CASE q.dev = d
      BY <2>3, <3>1, <3>2 DEF Archive
    <3>3. CASE q.dev # d
      BY <2>0, <2>3, <3>1, <3>3 DEF Archive
    <3>. QED
      BY <3>2, <3>3
  <2>4. CASE StoreIncoming
    <3>1. incoming.dev \in Devices /\ incoming.row \in Row
      BY <2>4 DEF StoreIncoming, IInv, TypeOK
    <3>. DEFINE e == incoming.dev
                r == incoming.row
                k == r.raced \/ Races(None, e, r)
    <3>2. CASE r.chain # 0 /\ sess' = [sess EXCEPT ![e] = [r EXCEPT !.raced = k]]
      <4>. HIDE DEF k
      <4>1. [r EXCEPT !.raced = k].chain = r.chain
        BY <3>1 DEF Row
      <4>. QED
        BY <2>0, <3>1, <3>2, <4>1
    <3>3. CASE UNCHANGED sess
      BY <3>3
    <3>. QED
      BY <2>1, <2>4, <3>2, <3>3 DEF StoreIncoming
  <2>5. ASSUME NEW p \in Goroutines, SendStep(p) \/ Lock(p) PROVE FALSE
    <3>1. CASE \/ UNCHANGED sess
               \/ \E ds : Renew(ds)
               \/ Store(p)
      BY <2>1, <2>2, <3>1
    <3>2. CASE Gone(p)
      BY <2>0, <3>2 DEF Gone
    <3>3. CASE RemoveStale(p)
      BY <2>0, <3>3 DEF RemoveStale
    <3>4. CASE Resend(p)
      BY <2>0, <3>4 DEF Resend
    <3>5. CASE FetchAll(p)
      BY <3>1, <3>5 DEF FetchAll
    <3>6. CASE FetchOne(p)
      BY <3>1, <3>6 DEF FetchOne
    <3>7. CASE Load(p) \/ Lock(p) \/ Accepted(p) \/ Mismatch(p)
      BY <3>1, <3>7 DEF Load, Lock, Accepted, Mismatch
    <3>8. CASE Unauthorized(p) \/ ServerError(p) \/ RequestFails(p)
      BY <3>1, <3>8 DEF Unauthorized, ServerError, RequestFails
    <3>. QED
      BY <2>5, <3>1, <3>2, <3>3, <3>4, <3>5, <3>6, <3>7, <3>8 DEF SendStep, Request
  <2>6. ASSUME NEW q \in receipts, HandleRetryRequest(q) \/ HandleExpiredRequest(q)
        PROVE  sess[d].chain <= dev[d].lost
    BY <2>3, <2>6, Zenon DEF HandleRetryRequest, HandleExpiredRequest
  <2>7. ASSUME \/ \E p \in Sends : Start(p) \/ AnswerOther(p)
               \/ \E e \in Devices : Forget(e) \/ ChangeDevice(e) \/ LoadIncoming(e)
        PROVE  FALSE
    BY <2>7, Zenon DEF Start, AnswerOther, Forget, ChangeDevice, LoadIncoming
  <2>. QED
    BY <2>4, <2>5, <2>6, <2>7 DEF Next
<1>. QED
  BY <1>1, SendingInvariant, PTL DEF Spec, FreshSessionsSurvive
=============================================================================

------------------------ MODULE StorageServiceProofs ------------------------
(***************************************************************************)
(* Proofs about StorageService for any chats, any number of updates, any   *)
(* limit on the pinned chats and on the attempts, and any number of writes *)
(* of other devices: type correctness, that the list of pinned chats stays *)
(* legal, that a write of the bridge touches its own change only, that no  *)
(* change of the server is missed, and that an update as a whole is one    *)
(* atomic change of the settings (AtomicUpdates).                          *)
(***************************************************************************)
EXTENDS StorageService, SequenceTheorems, WellFoundedInduction, TLAPS

\* A set of numbers that is not empty has a least element: the induction that the
\* lemma on Kept needs.
LEMMA LeastElement ==
  ASSUME NEW T \in SUBSET Nat, T # {}
  PROVE  \E x \in T : \A y \in T : x <= y
  <1>1. PICK x \in T : \A y \in T : ~(<<y, x>> \in OpToRel(<, Nat))
    BY WFMin, NatLessThanWellFounded
  <1>2. \A y \in T : ~(y < x)
    BY <1>1, Zenon DEF OpToRel
  <1> QED BY <1>2

\* The loop of applyPinChange on a list that has the chat once: the list without
\* that position.
LEMMA KeptIsRest ==
  ASSUME NEW S, NEW pins \in Seq(S), NEW k \in 1..Len(pins), NEW chat, pins[k] = chat,
         \A i \in 1..Len(pins) : pins[i] = chat => i = k
  PROVE  Kept(pins, chat) = SubSeq(pins, 1, k - 1) \o SubSeq(pins, k + 1, Len(pins))
  <1> DEFINE n == Len(pins)
             Step(f, i) == IF i = 0 THEN <<>>
                           ELSE IF pins[i] = chat THEN f[i - 1]
                           ELSE Append(f[i - 1], pins[i])
             Upto(i) == IF i < k THEN SubSeq(pins, 1, i)
                                 ELSE SubSeq(pins, 1, k - 1) \o SubSeq(pins, k + 1, i)
             g == [i \in 0..n |-> Upto(i)]
             f == CHOOSE h : h = [i \in 0..n |-> Step(h, i)]
  <1>0. n \in Nat /\ \A i \in 1..n : pins[i] \in S
    BY LenProperties, ElementOfSeq
  <1> HIDE DEF n
  <1>1. ASSUME NEW i \in 1..n PROVE Upto(i) = IF pins[i] = chat THEN Upto(i - 1) ELSE Append(Upto(i - 1), pins[i])
    <2>1. CASE i < k
      <3>1. SubSeq(pins, 1, i) = Append(SubSeq(pins, 1, i - 1), pins[i])
        BY <1>0 DEF n
      <3> QED BY <2>1, <3>1, <1>0
    <2>2. CASE i = k
      <3>1. SubSeq(pins, k + 1, k) = <<>>
        BY <1>0
      <3>2. SubSeq(pins, 1, k - 1) \in Seq(S)
        BY <1>0 DEF n
      <3>3. SubSeq(pins, 1, k - 1) \o <<>> = SubSeq(pins, 1, k - 1)
        BY <3>2, ConcatEmptySeq
      <3>4. Upto(k) = SubSeq(pins, 1, k - 1) \o SubSeq(pins, k + 1, k)
        OBVIOUS
      <3>5. Upto(k - 1) = SubSeq(pins, 1, k - 1)
        OBVIOUS
      <3> HIDE DEF Upto
      <3> QED BY <2>2, <3>1, <3>3, <3>4, <3>5
    <2>3. CASE i > k
      <3>1. SubSeq(pins, k + 1, i) = Append(SubSeq(pins, k + 1, i - 1), pins[i])
        BY <1>0, <2>3 DEF n
      <3>2. /\ SubSeq(pins, 1, k - 1) \in Seq(S)
            /\ SubSeq(pins, k + 1, i - 1) \in Seq(S)
        BY <1>0, <2>3 DEF n
      <3>3. \A s, t \in Seq(S) : s \o Append(t, pins[i]) = Append(s \o t, pins[i])
        BY <1>0
      <3>4. Upto(i) = SubSeq(pins, 1, k - 1) \o SubSeq(pins, k + 1, i)
        BY <1>0, <2>3
      <3>5. Upto(i - 1) = SubSeq(pins, 1, k - 1) \o SubSeq(pins, k + 1, i - 1)
        BY <1>0, <2>3
      <3>6. pins[i] # chat
        BY <1>0, <2>3 DEF n
      <3> HIDE DEF Upto
      <3> QED BY <3>1, <3>2, <3>3, <3>4, <3>5, <3>6, Zenon
    <2> QED BY <2>1, <2>2, <2>3, <1>0
  <1>2. Upto(0) = <<>>
    BY <1>0
  <1> HIDE DEF Upto
  <1>3. g = [i \in 0..n |-> Step(g, i)]
    BY <1>0, <1>1, <1>2
  <1>4. f = [i \in 0..n |-> Step(f, i)]
    <2> HIDE DEF Step, g
    <2> QED BY <1>3, Zenon
  <1> HIDE DEF f
  <1>5. \A i \in 0..n : f[i] = g[i]
    <2> DEFINE T == {i \in 0..n : f[i] # g[i]}
    <2>1. SUFFICES ASSUME T # {} PROVE FALSE
      OBVIOUS
    <2>2. PICK x \in T : \A y \in T : x <= y
      <3>1. T \in SUBSET Nat
        BY <1>0
      <3> HIDE DEF T
      <3> QED BY <2>1, <3>1, LeastElement
    <2>3. x # 0
      BY <1>3, <1>4, <1>0, <2>2, Zenon
    <2>4. f[x - 1] = g[x - 1]
      BY <1>0, <2>2, <2>3
    <2>5. f[x] = Step(f, x) /\ g[x] = Step(g, x)
      <3> HIDE DEF Step, g
      <3> QED BY <1>3, <1>4, <2>2, Zenon
    <2> QED BY <2>2, <2>4, <2>5, Zenon
  <1>6. Kept(pins, chat) = f[n]
    BY DEF Kept, f, n
  <1>7. Kept(pins, chat) = Upto(n)
    BY <1>0, <1>5, <1>6
  <1>8. Upto(n) = SubSeq(pins, 1, k - 1) \o SubSeq(pins, k + 1, n)
    <2>1. ~(n < k)
      BY <1>0 DEF n
    <2> QED BY <2>1, Zenon DEF Upto
  <1> QED BY <1>7, <1>8 DEF n

\* A chat is pinned if it has a place in the list.
LEMMA PinnedAt ==
  ASSUME NEW S, NEW pins \in Seq(S), NEW c
  PROVE  Pinned(pins, c) <=> \E i \in 1..Len(pins) : pins[i] = c
  <1>1. DOMAIN pins = 1..Len(pins)
    BY LenProperties
  <1> QED BY <1>1 DEF Pinned, Range

\* What applyPinChange relies on: the list without the chat is shorter, has no chat twice, and
\* has lost nothing else.
LEMMA KeptProperties ==
  ASSUME NEW S, NEW pins \in Seq(S), IsInjective(pins), NEW chat, Pinned(pins, chat)
  PROVE  /\ Kept(pins, chat) \in Seq(S)
         /\ Len(Kept(pins, chat)) = Len(pins) - 1
         /\ IsInjective(Kept(pins, chat))
         /\ \A c : Pinned(Kept(pins, chat), c) <=> Pinned(pins, c) /\ c # chat
  <1>1. PICK k \in 1..Len(pins) : pins[k] = chat
    BY PinnedAt
  <1>2. /\ Len(pins) \in Nat /\ DOMAIN pins = 1..Len(pins)
        /\ \A i \in 1..Len(pins) : pins[i] \in S
    BY LenProperties, ElementOfSeq
  <1>3. \A i, j \in 1..Len(pins) : pins[i] = pins[j] => i = j
    BY <1>2 DEF IsInjective
  <1> DEFINE r == SubSeq(pins, 1, k - 1) \o SubSeq(pins, k + 1, Len(pins))
             n == Len(pins)
  <1>0. n \in Nat /\ k \in 1..n
    BY <1>2
  <1>4. Kept(pins, chat) = r
    BY <1>1, <1>3, KeptIsRest, Zenon
  <1>5. /\ r \in Seq(S) /\ Len(r) = n - 1
        /\ \A i \in 1..(n - 1) : r[i] = IF i < k THEN pins[i] ELSE pins[i + 1]
    <2>1. /\ SubSeq(pins, 1, k - 1) \in Seq(S)
          /\ Len(SubSeq(pins, 1, k - 1)) = k - 1
          /\ \A i \in 1..(k - 1) : SubSeq(pins, 1, k - 1)[i] = pins[i]
      BY <1>2
    <2>2. /\ SubSeq(pins, k + 1, n) \in Seq(S)
          /\ Len(SubSeq(pins, k + 1, n)) = n - k
          /\ \A i \in 1..(n - k) : SubSeq(pins, k + 1, n)[i] = pins[k + i]
      <3>1. \A i \in (k + 1)..n : pins[i] \in S
        BY <1>2
      <3>2. /\ SubSeq(pins, k + 1, n) \in Seq(S)
            /\ Len(SubSeq(pins, k + 1, n)) = IF k + 1 <= n THEN n - (k + 1) + 1 ELSE 0
            /\ \A i \in 1..(n - (k + 1) + 1) : SubSeq(pins, k + 1, n)[i] = pins[k + 1 + i - 1]
        BY <1>2, <3>1, SubSeqProperties
      <3>3. n - (k + 1) + 1 = n - k /\ (IF k + 1 <= n THEN n - (k + 1) + 1 ELSE 0) = n - k
        <4> HIDE DEF n
        <4> QED BY <1>0
      <3>4. ASSUME NEW i \in 1..(n - k) PROVE SubSeq(pins, k + 1, n)[i] = pins[k + i]
        <4>1. k + 1 + i - 1 = k + i
          BY <1>2
        <4> QED BY <3>2, <3>3, <4>1, Zenon
      <3> QED BY <3>2, <3>3, <3>4, Zenon
    <2> DEFINE a == SubSeq(pins, 1, k - 1)
               b == SubSeq(pins, k + 1, n)
    <2>3. /\ a \in Seq(S) /\ b \in Seq(S) /\ Len(a) = k - 1 /\ Len(b) = n - k
          /\ \A i \in 1..(k - 1) : a[i] = pins[i]
          /\ \A i \in 1..(n - k) : b[i] = pins[k + i]
      BY <2>1, <2>2, Zenon
    <2> HIDE DEF a, b
    <2>4. a \o b \in Seq(S) /\ Len(a \o b) = n - 1
      <3>1. a \o b \in Seq(S) /\ Len(a \o b) = Len(a) + Len(b)
        BY <2>3, ConcatProperties, Zenon
      <3> HIDE DEF n
      <3> QED BY <1>0, <2>3, <3>1
    <2>5. ASSUME NEW i \in 1..(n - 1) PROVE (a \o b)[i] = IF i < k THEN pins[i] ELSE pins[i + 1]
      <3>1. (a \o b)[i] = IF i <= k - 1 THEN a[i] ELSE b[i - (k - 1)]
        <4>1. i \in 1..(Len(a) + Len(b))
          BY <1>2, <2>3
        <4> QED BY <2>3, <4>1, ConcatProperties
      <3>2. CASE i < k
        BY <1>2, <2>3, <3>1, <3>2
      <3>3. CASE i >= k
        <4>1. i - (k - 1) \in 1..(n - k) /\ k + (i - (k - 1)) = i + 1 /\ ~(i <= k - 1) /\ ~(i < k)
          BY <1>2, <3>3
        <4> QED BY <2>3, <3>1, <4>1
      <3>4. i < k \/ i >= k
        BY <1>0
      <3> QED BY <3>2, <3>3, <3>4, Zenon
    <2> QED BY <2>4, <2>5, Zenon DEF a, b
  <1> HIDE DEF r
  <1>6. IsInjective(r)
    <2> SUFFICES ASSUME NEW i \in 1..(n - 1), NEW j \in 1..(n - 1), r[i] = r[j] PROVE i = j
      BY <1>2, <1>5 DEF IsInjective
    <2> DEFINE at(x) == IF x < k THEN x ELSE x + 1
    <2>1. at(i) \in 1..n /\ at(j) \in 1..n /\ (at(i) = at(j) => i = j)
      <3> HIDE DEF n
      <3> QED BY <1>0
    <2>2. r[i] = pins[at(i)] /\ r[j] = pins[at(j)]
      BY <1>5
    <2> HIDE DEF at
    <2> QED BY <1>3, <2>1, <2>2, Zenon
  <1>7. ASSUME NEW c PROVE Pinned(r, c) <=> Pinned(pins, c) /\ c # chat
    <2>1. ASSUME NEW i \in 1..(n - 1), r[i] = c PROVE Pinned(pins, c) /\ c # chat
      <3>1. PICK j \in 1..n : j # k /\ pins[j] = c
        BY <1>2, <1>5, <2>1
      <3> QED BY <1>1, <1>3, <3>1, PinnedAt
    <2>2. ASSUME NEW j \in 1..n, pins[j] = c, c # chat PROVE Pinned(r, c)
      <3>1. CASE j < k
        BY <1>2, <1>5, <2>2, <3>1, PinnedAt
      <3>2. CASE j > k
        <4>1. j - 1 \in 1..(n - 1) /\ r[j - 1] = c
          BY <1>2, <1>5, <2>2, <3>2
        <4> QED BY <1>5, <4>1, PinnedAt
      <3> QED BY <1>1, <2>2, <3>1, <3>2
    <2> QED BY <1>5, <2>1, <2>2, PinnedAt
  <1> QED BY <1>4, <1>5, <1>6, <1>7

\* Pinning a chat at the end of the list.
LEMMA AppendPins ==
  ASSUME NEW S, NEW pins \in Seq(S), IsInjective(pins), NEW chat \in S, ~Pinned(pins, chat)
  PROVE  /\ Append(pins, chat) \in Seq(S)
         /\ Len(Append(pins, chat)) = Len(pins) + 1
         /\ IsInjective(Append(pins, chat))
         /\ \A c : Pinned(Append(pins, chat), c) <=> Pinned(pins, c) \/ c = chat
  <1> DEFINE r == Append(pins, chat)
             n == Len(pins)
  <1>1. n \in Nat /\ DOMAIN pins = 1..n
    BY LenProperties
  <1>2. /\ r \in Seq(S) /\ Len(r) = n + 1 /\ DOMAIN r = 1..(n + 1)
        /\ \A i \in 1..n : r[i] = pins[i]
        /\ r[n + 1] = chat
    BY <1>1, AppendProperties, LenProperties
  <1> HIDE DEF r
  <1>3. IsInjective(r)
    BY <1>1, <1>2, PinnedAt DEF IsInjective
  <1>4. ASSUME NEW c PROVE Pinned(r, c) <=> Pinned(pins, c) \/ c = chat
    <2>1. Pinned(r, c) <=> \E i \in 1..(n + 1) : r[i] = c
      BY <1>2, PinnedAt
    <2>2. (\E i \in 1..(n + 1) : r[i] = c) <=> (\E i \in 1..n : r[i] = c) \/ r[n + 1] = c
      BY <1>1
    <2> QED BY <1>2, <2>1, <2>2, PinnedAt
  <1> QED BY <1>2, <1>3, <1>4 DEF r
-----------------------------------------------------------------------------
(* The inductive invariant.                                                *)

Busy == {"locked", "records", "write", "process"}

\* storageSyncLock: who is between Lock and Unlock has it.
Locked ==
    /\ syncPc # "idle" <=> lock = "sync"
    /\ \A u \in Updates : pc[u] \in Busy <=> lock = u

\* Ids are not used again: everything known carries an id up to the version at hand.
Versions ==
    /\ version # 0 /\ acct.id # 0
    /\ \A u \in Updates : base[u].version <= version

\* modifyStorage: an update that is still at work has attempts left.
Retries == \A u \in Updates : pc[u] \in Busy \cup {"idle"} => attempt[u] < MaxAttempts

\* What the update would write, given what the server holds now.
Edits(ch, archived, pins) ==
    [archived |-> IF ch.archived = "keep" THEN {} ELSE ChatEdit(ch, archived),
     pins |-> IF ch.pinned = "keep" THEN {} ELSE PinEdit(ch, pins)]

\* applyPinChange has checked that there is room.
HasRoom(ch, pins) == ch.pinned = "on" /\ ~Pinned(pins, ch.chat) => Len(pins) < MaxPins

\* An update whose write would be accepted has computed it from what is there.
Fresh ==
    \A u \in Updates : pc[u] = "write" /\ Accepts(u) =>
        /\ plan[u] = Edits(change[u], rec[change[u].chat].archived, acct.pins)
        /\ HasRoom(change[u], acct.pins)

\* Somebody is going to read a manifest that has everything.
Coming == notices > 0 \/ queued \/ syncPc = "manifest"

\* What an update is about to record is what it wrote, unless another device was
\* faster, whose notice is then still to be followed.
Recording ==
    \A u \in Updates : pc[u] = "process" =>
        /\ plan[u].pins = {} \/ plan[u].pins = {acct.pins} \/ notices > 0 \/ queued
        /\ \/ plan[u].archived = {} \/ notices > 0 \/ queued
           \/ plan[u].archived = {rec[change[u].chat].archived}

\* Whatever the bridge does not know is on its way to it: a notice, a sync that has yet
\* to read or has read the current id, or an update that is about to record its write.
PinsKnown ==
    \/ local.pins = Range(acct.pins) \/ Coming
    \/ syncPc = "records" /\ syncIds.acct = acct.id
    \/ \E u \in Updates : pc[u] = "process" /\ plan[u].pins # {}

ChatKnown(c) ==
    \/ rec[c].id = NoId
    \/ local.archived[c] = rec[c].archived \/ Coming
    \/ syncPc = "records" /\ syncIds.recs[c] = rec[c].id
    \/ \E u \in Updates : pc[u] = "process" /\ plan[u].archived # {} /\ change[u].chat = c

Known == ~faulty => PinsKnown /\ \A c \in Chats : ChatKnown(c)

IInv == TypeOK /\ PinsLegal /\ Locked /\ Retries /\ Versions /\ Fresh /\ Recording /\ Known

-----------------------------------------------------------------------------
(* Records that were fetched or written, and what is made of them.         *)

\* Only picks an element of a set that has one,
LEMMA OnlyIn == ASSUME NEW S, S # {} PROVE Only(S) \in S
  BY Zenon DEF Only

\* and the element of a set that has exactly one.
LEMMA OnlyOne == ASSUME NEW x PROVE Only({x}) = x
  BY Zenon DEF Only

Got == [archived : [Chats -> SUBSET Setting], pins : SUBSET Seq(Chats)]

\* What fetchStorageRecords returns is typed,
LEMMA FetchedIn ==
  ASSUME TypeOK, NEW ids
  PROVE  Fetched(ids) \in Got
  <1>1. rec \in [Chats -> [id : Nat, archived : Setting]] /\ acct \in [id : Nat, pins : Seq(Chats)]
    BY Zenon DEF TypeOK
  <1> QED BY <1>1 DEF Fetched, Got

\* and has a record exactly where the id that was asked for is still the one of the server.
LEMMA FetchedOne ==
  ASSUME TypeOK, NEW ids
  PROVE  /\ \A c \in Chats : Fetched(ids).archived[c] = IF ids.recs[c] # NoId /\ rec[c].id = ids.recs[c]
                                                       THEN {rec[c].archived} ELSE {}
         /\ Fetched(ids).pins = IF acct.id = ids.acct THEN {acct.pins} ELSE {}
  BY Zenon DEF Fetched

\* What a transaction recorded before it failed is typed.
LEMMA PartsIn ==
  ASSUME NEW got \in Got, NEW part \in Parts(got)
  PROVE  part \in Got
  <1>1. PICK some \in SUBSET Chats, pins \in {{}, got.pins} :
           part = [archived |-> [c \in Chats |-> IF c \in some THEN got.archived[c] ELSE {}], pins |-> pins]
    BY DEF Parts
  <1>2. got.archived \in [Chats -> SUBSET Setting] /\ got.pins \in SUBSET Seq(Chats)
    BY Zenon DEF Got
  <1> QED BY <1>1, <1>2, Zenon DEF Got

\* What an update wrote is typed.
LEMMA WrittenIn ==
  ASSUME TypeOK, NEW u \in Updates
  PROVE  Written(u) \in Got
  <1>1. plan[u] \in [archived : SUBSET Setting, pins : SUBSET Seq(Chats)]
    BY Zenon DEF TypeOK
  <1> QED BY <1>1, Zenon DEF Written, Got

\* The pinned chats as a set.
LEMMA RangeIn ==
  ASSUME NEW pins \in Seq(Chats)
  PROVE  /\ Range(pins) \in SUBSET Chats
         /\ \A c : c \in Range(pins) <=> Pinned(pins, c)
  <1>1. DOMAIN pins = 1..Len(pins) /\ \A i \in 1..Len(pins) : pins[i] \in Chats
    BY LenProperties, ElementOfSeq, Zenon
  <1> QED BY <1>1, Zenon DEF Range, Pinned

\* processStorageInTxn leaves typed settings behind.
LEMMA RecordedIn ==
  ASSUME TypeOK, NEW got \in Got
  PROVE  Recorded(got) \in [archived : [Chats -> Setting], pins : SUBSET Chats]
  <1>1. local.archived \in [Chats -> Setting] /\ local.pins \in SUBSET Chats
    BY Zenon DEF TypeOK
  <1>2. got.archived \in [Chats -> SUBSET Setting] /\ got.pins \in SUBSET Seq(Chats)
    BY Zenon DEF Got
  <1>3. ASSUME NEW c \in Chats, got.archived[c] # {} PROVE Only(got.archived[c]) \in Setting
    BY <1>2, <1>3, OnlyIn, Zenon
  <1>4. got.pins # {} => Range(Only(got.pins)) \in SUBSET Chats
    <2> SUFFICES ASSUME got.pins # {} PROVE Range(Only(got.pins)) \in SUBSET Chats
      OBVIOUS
    <2>1. Only(got.pins) \in Seq(Chats)
      BY <1>2, OnlyIn, Zenon
    <2> QED BY <2>1, RangeIn, Zenon
  <1> QED BY <1>1, <1>3, <1>4, Zenon DEF Recorded

\* UpdateReadsRecords, in terms of what the server holds at that moment: the records an update
\* gets are the current ones.
LEMMA ReadsRecords ==
  ASSUME TypeOK, NEW u \in Updates, UpdateReadsRecords(u)
  PROVE  /\ pc[u] = "records"
         /\ UNCHANGED <<server, notices, queued, syncing, change, attempt, local, faulty>>
         /\ \/ \E result \in {"noRecord", "tooManyPins", "done"} :
                  /\ Return(u, result)
                  /\ result = "done" =>
                        Edits(change[u], rec[change[u].chat].archived, acct.pins) = NoPlan
            \/ /\ plan' = [plan EXCEPT ![u] = Edits(change[u], rec[change[u].chat].archived, acct.pins)]
               /\ HasRoom(change[u], acct.pins)
               /\ Goto(u, "write")
               /\ UNCHANGED <<lock, base>>
  <1> DEFINE ch == change[u]
             got == Fetched(base[u])
             chat == got.archived[ch.chat]
             noRecord == \/ ch.archived # "keep" /\ chat = {}
                         \/ ch.pinned # "keep" /\ got.pins = {}
             tooMany == /\ ch.pinned = "on"
                        /\ ~Pinned(Only(got.pins), ch.chat)
                        /\ PinsFull(Only(got.pins))
             edits == [archived |-> IF ch.archived = "keep" THEN {}
                                    ELSE ChatEdit(ch, Only(chat)),
                       pins |-> IF ch.pinned = "keep" THEN {}
                                ELSE PinEdit(ch, Only(got.pins))]
  <1>1. /\ pc[u] = "records"
        /\ \/ noRecord /\ Return(u, "noRecord")
           \/ ~noRecord /\ tooMany /\ Return(u, "tooManyPins")
           \/ ~noRecord /\ ~tooMany /\ edits = NoPlan /\ Return(u, "done")
           \/ /\ ~noRecord /\ ~tooMany /\ edits # NoPlan
              /\ plan' = [plan EXCEPT ![u] = edits]
              /\ Goto(u, "write")
              /\ UNCHANGED <<lock, base>>
        /\ UNCHANGED <<server, notices, queued, syncing, change, attempt, local, faulty>>
    BY Zenon DEF UpdateReadsRecords
  <1>2. ch.chat \in Chats /\ ch.pinned \in Choice
    BY Zenon DEF TypeOK, Change
  <1>3. ~noRecord => /\ ch.archived # "keep" => Only(chat) = rec[ch.chat].archived
                     /\ ch.pinned # "keep" => Only(got.pins) = acct.pins
    BY <1>2, FetchedOne, OnlyOne, Zenon
  <1>4. ~noRecord => edits = Edits(ch, rec[ch.chat].archived, acct.pins)
    <2> SUFFICES ASSUME ~noRecord PROVE edits = Edits(ch, rec[ch.chat].archived, acct.pins)
      OBVIOUS
    <2> HIDE DEF noRecord, chat, got, ch
    <2> QED BY <1>3, Zenon DEF Edits
  <1>5. ~noRecord /\ ~tooMany => HasRoom(ch, acct.pins)
    <2> SUFFICES ASSUME ~noRecord, ~tooMany, ch.pinned = "on", ~Pinned(acct.pins, ch.chat)
                 PROVE  Len(acct.pins) < MaxPins
      BY Zenon DEF HasRoom
    <2>1. Only(got.pins) = acct.pins
      BY <1>3, Zenon
    <2>2. ~PinsFull(acct.pins)
      BY <2>1, Zenon
    <2>3. Len(acct.pins) \in Nat
      BY LenProperties, Zenon DEF TypeOK
    <2> QED BY <2>2, <2>3, ConstantsAssumption DEF PinsFull
  <1> HIDE DEF noRecord, tooMany, edits, ch
  <1>6. CASE ~noRecord /\ ~tooMany /\ plan' = [plan EXCEPT ![u] = edits]
             /\ Goto(u, "write") /\ UNCHANGED <<lock, base>>
    BY <1>1, <1>4, <1>5, <1>6, Zenon DEF ch
  <1>7. CASE \/ noRecord /\ Return(u, "noRecord")
             \/ ~noRecord /\ tooMany /\ Return(u, "tooManyPins")
    BY <1>1, <1>7, Zenon
  <1>8. CASE ~noRecord /\ edits = NoPlan /\ Return(u, "done")
    BY <1>1, <1>4, <1>8, Zenon DEF ch
  <1> QED BY <1>1, <1>6, <1>7, <1>8, Zenon

Legal(pins) == Len(pins) <= MaxPins /\ IsInjective(pins)

\* The new list of pins is as long as it may be, has no chat twice, and differs in the chat of
\* the change only.
LEMMA PinEditLegal ==
  ASSUME NEW ch \in Change, NEW pins \in Seq(Chats), Legal(pins), HasRoom(ch, pins), ch.pinned # "keep"
  PROVE  \/ PinEdit(ch, pins) = {}
         \/ \E new \in Seq(Chats) :
               /\ PinEdit(ch, pins) = {new}
               /\ Legal(new)
               /\ \A c \in Chats : c # ch.chat => (Pinned(new, c) <=> Pinned(pins, c))
  <1>1. ch.pinned \in {"on", "off"} /\ ch.chat \in Chats
    BY Zenon DEF Change, Choice, Setting
  <1>2. Len(pins) \in Nat /\ MaxPins \in Nat
    BY LenProperties, ConstantsAssumption, Zenon
  <1>3. CASE ch.pinned = "off" /\ Pinned(pins, ch.chat)
    <2> DEFINE new == Kept(pins, ch.chat)
    <2>1. PinEdit(ch, pins) = {new}
      BY <1>3, Zenon DEF PinEdit, Chosen, OnOff
    <2>2. /\ new \in Seq(Chats) /\ Len(new) = Len(pins) - 1 /\ IsInjective(new)
          /\ \A c : Pinned(new, c) <=> Pinned(pins, c) /\ c # ch.chat
      BY <1>3, KeptProperties, Zenon DEF Legal
    <2> HIDE DEF new
    <2>3. Legal(new)
      BY <1>2, <2>2 DEF Legal
    <2> QED BY <2>1, <2>2, <2>3, Zenon
  <1>4. CASE ch.pinned = "on" /\ ~Pinned(pins, ch.chat)
    <2> DEFINE new == Append(pins, ch.chat)
    <2>1. PinEdit(ch, pins) = {new}
      BY <1>4, Zenon DEF PinEdit, Chosen, OnOff
    <2>2. /\ new \in Seq(Chats) /\ Len(new) = Len(pins) + 1 /\ IsInjective(new)
          /\ \A c : Pinned(new, c) <=> Pinned(pins, c) \/ c = ch.chat
      BY <1>1, <1>4, AppendPins, Zenon DEF Legal
    <2> HIDE DEF new
    <2>3. Legal(new)
      BY <1>2, <1>4, <2>2 DEF Legal, HasRoom
    <2> QED BY <2>1, <2>2, <2>3, Zenon
  <1>5. CASE ch.pinned = OnOff(Pinned(pins, ch.chat))
    BY <1>5, Zenon DEF PinEdit, Chosen, OnOff
  <1> QED BY <1>1, <1>3, <1>4, <1>5, Zenon DEF OnOff

\* The new value of a chat's record is the one that was asked for.
LEMMA ChatEditChosen ==
  ASSUME NEW ch \in Change, NEW old \in Setting, ch.archived # "keep"
  PROVE  \/ ChatEdit(ch, old) = {}
         \/ \E new \in Setting : ChatEdit(ch, old) = {new} /\ new = Chosen(ch.archived, old)
  BY Zenon DEF Change, Choice, Setting, ChatEdit, Chosen, Flipped

\* A write that is accepted: what it does to the server, whose settings it was computed from.
LEMMA WriteEffect ==
  ASSUME TypeOK, PinsLegal, Fresh, NEW u \in Updates, pc[u] = "write", Accepts(u), ApplyWrite(u)
  PROVE  /\ version' = version + 1
         /\ \/ plan[u].pins = {} /\ acct' = acct
            \/ \E new \in Seq(Chats) :
                  /\ plan[u].pins = {new} /\ acct' = [id |-> version + 1, pins |-> new]
                  /\ Legal(new)
                  /\ \A c \in Chats : c # change[u].chat => (Pinned(new, c) <=> Pinned(acct.pins, c))
         /\ \/ plan[u].archived = {} /\ rec' = rec
            \/ \E new \in Setting :
                  /\ plan[u].archived = {new}
                  /\ rec' = [rec EXCEPT ![change[u].chat] = [id |-> version + 1, archived |-> new]]
                  /\ new = Chosen(change[u].archived, rec[change[u].chat].archived)
  <1> DEFINE ch == change[u]
  <1>1. /\ ch \in Change /\ acct.pins \in Seq(Chats) /\ Legal(acct.pins)
        /\ rec[ch.chat].archived \in Setting
    BY Zenon DEF TypeOK, PinsLegal, Legal, Change
  <1>2. /\ plan[u] = Edits(ch, rec[ch.chat].archived, acct.pins) /\ HasRoom(ch, acct.pins)
    BY Zenon DEF Fresh
  <1>3. /\ version' = version + 1
        /\ rec' = IF plan[u].archived = {} THEN rec
                  ELSE [rec EXCEPT ![ch.chat] = [id |-> version + 1, archived |-> Only(plan[u].archived)]]
        /\ acct' = IF plan[u].pins = {} THEN acct
                   ELSE [id |-> version + 1, pins |-> Only(plan[u].pins)]
    BY Zenon DEF ApplyWrite
  <1>4. /\ plan[u].archived = IF ch.archived = "keep" THEN {} ELSE ChatEdit(ch, rec[ch.chat].archived)
        /\ plan[u].pins = IF ch.pinned = "keep" THEN {} ELSE PinEdit(ch, acct.pins)
    BY <1>2 DEF Edits
  <1> HIDE DEF ch
  <1>5. ASSUME plan[u].pins # {}
        PROVE  \E new \in Seq(Chats) :
                  /\ plan[u].pins = {new} /\ acct' = [id |-> version + 1, pins |-> new]
                  /\ Legal(new)
                  /\ \A c \in Chats : c # ch.chat => (Pinned(new, c) <=> Pinned(acct.pins, c))
    <2>1. ch.pinned # "keep" /\ plan[u].pins = PinEdit(ch, acct.pins)
      BY <1>4, <1>5, Zenon
    <2>2. PICK new \in Seq(Chats) :
                  /\ plan[u].pins = {new} /\ Legal(new)
                  /\ \A c \in Chats : c # ch.chat => (Pinned(new, c) <=> Pinned(acct.pins, c))
      BY <1>1, <1>2, <1>5, <2>1, PinEditLegal
    <2>3. acct' = [id |-> version + 1, pins |-> new]
      BY <1>3, <1>5, <2>2, OnlyOne, Zenon
    <2> QED BY <2>2, <2>3, Zenon
  <1>6. ASSUME plan[u].archived # {}
        PROVE  \E new \in Setting :
                  /\ plan[u].archived = {new}
                  /\ rec' = [rec EXCEPT ![ch.chat] = [id |-> version + 1, archived |-> new]]
                  /\ new = Chosen(ch.archived, rec[ch.chat].archived)
    <2>1. ch.archived # "keep" /\ plan[u].archived = ChatEdit(ch, rec[ch.chat].archived)
      BY <1>4, <1>6, Zenon
    <2>2. PICK new \in Setting : plan[u].archived = {new} /\ new = Chosen(ch.archived, rec[ch.chat].archived)
      BY <1>1, <1>6, <2>1, ChatEditChosen, Zenon
    <2>3. rec' = [rec EXCEPT ![ch.chat] = [id |-> version + 1, archived |-> new]]
      BY <1>3, <1>6, <2>2, OnlyOne, Zenon
    <2> QED BY <2>2, <2>3, Zenon
  <1> QED BY <1>3, <1>5, <1>6, Zenon DEF ch

\* The same write in terms of what the server holds after it.
LEMMA WriteResult ==
  ASSUME TypeOK, PinsLegal, Fresh, NEW u \in Updates, pc[u] = "write", Accepts(u), ApplyWrite(u)
  PROVE  /\ version' = version + 1
         /\ acct' = acct \/ (acct'.id = version + 1 /\ Legal(acct'.pins))
         /\ plan[u].pins = {} \/ plan[u].pins = {acct'.pins}
         /\ plan[u].archived = {} \/ plan[u].archived = {rec'[change[u].chat].archived}
  <1>1. rec \in [Chats -> [id : Nat, archived : Setting]] /\ change[u].chat \in Chats
    BY Zenon DEF TypeOK, Change
  <1>2. version' = version + 1
    BY WriteEffect, Zenon
  <1>3. \/ plan[u].pins = {} /\ acct' = acct
        \/ \E new : /\ plan[u].pins = {new} /\ acct' = [id |-> version + 1, pins |-> new]
                    /\ Legal(new)
    BY WriteEffect, Zenon
  <1>4. \/ plan[u].archived = {}
        \/ \E new : /\ plan[u].archived = {new}
                    /\ rec' = [rec EXCEPT ![change[u].chat] = [id |-> version + 1, archived |-> new]]
    BY WriteEffect, Zenon
  <1>5. \A new : rec' = [rec EXCEPT ![change[u].chat] = [id |-> version + 1, archived |-> new]]
                 => rec'[change[u].chat].archived = new
    BY <1>1
  <1>6. plan[u].archived = {} \/ plan[u].archived = {rec'[change[u].chat].archived}
    BY <1>4, <1>5, Zenon
  <1>7. /\ acct' = acct \/ (acct'.id = version + 1 /\ Legal(acct'.pins))
        /\ plan[u].pins = {} \/ plan[u].pins = {acct'.pins}
    <2>1. CASE plan[u].pins = {} /\ acct' = acct
      BY <2>1, Zenon
    <2>2. ASSUME NEW new, plan[u].pins = {new}, acct' = [id |-> version + 1, pins |-> new], Legal(new)
          PROVE  /\ acct'.id = version + 1 /\ Legal(acct'.pins)
                 /\ plan[u].pins = {acct'.pins}
      <3>1. acct'.id = version + 1 /\ acct'.pins = new
        BY <2>2, Zenon
      <3> QED BY <2>2, <3>1, Zenon
    <2> QED BY <1>3, <2>1, <2>2, Zenon
  <1> QED BY <1>2, <1>6, <1>7, Zenon

\* A call that has no manifest has version 0.
LEMMA NoIdsVersion ==
  ASSUME TypeOK
  PROVE  NoIds.version = 0 /\ NoIds.version <= version /\ version <= version
  <1>1. version \in Nat
    BY Zenon DEF TypeOK
  <1>2. NoIds.version = 0
    BY Zenon DEF NoIds
  <1> QED BY <1>1, <1>2

\* After a write every manifest that was fetched before is outdated.
LEMMA NewVersion ==
  ASSUME TypeOK, Versions, version' = version + 1
  PROVE  /\ version' # 0
         /\ NoIds.version <= version'
         /\ \A v \in Updates : base[v].version <= version' /\ base[v].version # version'
  <1>1. version \in Nat /\ \A v \in Updates : base[v].version \in Nat
    BY Zenon DEF TypeOK, Manifest
  <1>2. \A v \in Updates : base[v].version <= version
    BY Zenon DEF Versions
  <1> QED BY <1>1, <1>2, NoIdsVersion

\* Another device keeps the list of pins legal too, and its notice is on its way.
LEMMA OtherEffect ==
  ASSUME TypeOK, PinsLegal, OtherDeviceWrites
  PROVE  /\ version' = version + 1 /\ notices' = notices + 1 /\ notices' > 0
         /\ UNCHANGED <<queued, lock, syncing, updating, local, faulty>>
         /\ acct' \in [id : Nat, pins : Seq(Chats)] /\ Legal(acct'.pins)
         /\ acct' = acct \/ acct'.id = version + 1
         /\ rec' \in [Chats -> [id : Nat, archived : Setting]]
  <1>1. /\ version \in Nat /\ acct \in [id : Nat, pins : Seq(Chats)] /\ Legal(acct.pins)
        /\ rec \in [Chats -> [id : Nat, archived : Setting]] /\ notices \in Nat
    BY Zenon DEF TypeOK, PinsLegal, Legal
  <1>2. /\ version' = version + 1 /\ notices' = notices + 1
        /\ UNCHANGED <<queued, lock, syncing, updating, local, faulty>>
    BY Zenon DEF OtherDeviceWrites
  <1>3. CASE \E c \in Chats :
               /\ rec' = [rec EXCEPT ![c] = [id |-> version + 1, archived |-> Flipped(@.archived)]]
               /\ UNCHANGED acct
    BY <1>1, <1>2, <1>3 DEF Flipped, Setting
  <1>4. CASE \E c \in Chats :
               /\ \/ ~Pinned(acct.pins, c) /\ Len(acct.pins) < MaxPins
                     /\ acct' = [id |-> version + 1, pins |-> Append(acct.pins, c)]
                  \/ Pinned(acct.pins, c)
                     /\ acct' = [id |-> version + 1, pins |-> Kept(acct.pins, c)]
               /\ UNCHANGED rec
    <2>1. PICK c \in Chats :
               /\ \/ ~Pinned(acct.pins, c) /\ Len(acct.pins) < MaxPins
                     /\ acct' = [id |-> version + 1, pins |-> Append(acct.pins, c)]
                  \/ Pinned(acct.pins, c)
                     /\ acct' = [id |-> version + 1, pins |-> Kept(acct.pins, c)]
               /\ UNCHANGED rec
      BY <1>4, Zenon
    <2>2. Len(acct.pins) \in Nat /\ MaxPins \in Nat
      BY <1>1, LenProperties, ConstantsAssumption, Zenon
    <2>3. \E new \in Seq(Chats) : acct' = [id |-> version + 1, pins |-> new] /\ Legal(new)
      <3>1. CASE Pinned(acct.pins, c)
        <4> DEFINE new == Kept(acct.pins, c)
        <4>1. new \in Seq(Chats) /\ Len(new) = Len(acct.pins) - 1 /\ IsInjective(new)
          BY <1>1, <3>1, KeptProperties, Zenon DEF Legal
        <4>2. acct' = [id |-> version + 1, pins |-> new]
          BY <2>1, <3>1, Zenon
        <4> HIDE DEF new
        <4> QED BY <1>1, <2>2, <4>1, <4>2 DEF Legal
      <3>2. CASE ~Pinned(acct.pins, c)
        <4> DEFINE new == Append(acct.pins, c)
        <4>1. new \in Seq(Chats) /\ Len(new) = Len(acct.pins) + 1 /\ IsInjective(new)
          BY <1>1, <3>2, AppendPins, Zenon DEF Legal
        <4>2. acct' = [id |-> version + 1, pins |-> new] /\ Len(acct.pins) < MaxPins
          BY <2>1, <3>2, Zenon
        <4> HIDE DEF new
        <4> QED BY <1>1, <2>2, <4>1, <4>2 DEF Legal
      <3> QED BY <3>1, <3>2, Zenon
    <2> QED BY <1>1, <1>2, <2>1, <2>3
  <1>5. notices' > 0
    BY <1>1, <1>2
  <1> QED BY <1>2, <1>3, <1>4, <1>5, Zenon DEF OtherDeviceWrites

-----------------------------------------------------------------------------
(* Every step keeps the invariant.                                         *)

\* TypeOK in two parts, for provers that do not like to reason of both at once.
Flags == queued \in BOOLEAN /\ faulty \in BOOLEAN

Rest ==
    /\ version \in Nat
    /\ rec \in [Chats -> [id : Nat, archived : Setting]]
    /\ acct \in [id : Nat, pins : Seq(Chats)]
    /\ notices \in Nat
    /\ lock \in {"free", "sync"} \cup Updates
    /\ syncPc \in {"idle", "manifest", "records"}
    /\ syncIds \in Manifest
    /\ pc \in [Updates -> Pcs]
    /\ change \in [Updates -> Change]
    /\ attempt \in [Updates -> 0..MaxAttempts]
    /\ base \in [Updates -> Manifest]
    /\ plan \in [Updates -> [archived : SUBSET Setting, pins : SUBSET Seq(Chats)]]
    /\ local \in [archived : [Chats -> Setting], pins : SUBSET Chats]

\* The two Booleans.
LEMMA FlagsKept == TypeOK /\ [Next]_vars => Flags'
  <1> SUFFICES ASSUME TypeOK, [Next]_vars PROVE Flags'
    OBVIOUS
  <1>1. Flags
    BY Zenon DEF TypeOK, Flags
  <1> QED
    BY <1>1, Zenon DEF Flags, Next, vars, OtherDeviceWrites, ReceiveNotice, Sync, SyncLocks,
       SyncFetchesManifest, SyncProcesses, SyncFails, Update, UpdateLocks, UpdateFetchesManifest,
       UpdateReadsRecords, WriteSucceeds, WriteConflicts, UpdateFails, UpdateProcesses

\* What the server sends is a manifest, and so is what a call starts from.
LEMMA IdsIn ==
  ASSUME TypeOK
  PROVE  Ids(version, rec, acct) \in Manifest /\ NoIds \in Manifest
  <1>1. /\ version \in Nat /\ rec \in [Chats -> [id : Nat, archived : Setting]]
        /\ acct \in [id : Nat, pins : Seq(Chats)]
    BY DEF TypeOK
  <1> QED BY <1>1 DEF Ids, NoIds, NoId, Manifest

\* An update that returns leaves typed variables behind.
LEMMA ReturnTypes ==
  ASSUME TypeOK, NEW u \in Updates, NEW result \in Pcs, Return(u, result)
  PROVE  /\ pc' \in [Updates -> Pcs] /\ lock' \in {"free", "sync"} \cup Updates
         /\ base' \in [Updates -> Manifest]
         /\ plan' \in [Updates -> [archived : SUBSET Setting, pins : SUBSET Seq(Chats)]]
  <1>1. NoPlan \in [archived : SUBSET Setting, pins : SUBSET Seq(Chats)]
    BY Zenon DEF NoPlan
  <1> QED BY <1>1, IdsIn, Zenon DEF TypeOK, Return, Goto

\* A record replaced by another.
LEMMA RecordPut ==
  ASSUME NEW records \in [Chats -> [id : Nat, archived : Setting]], NEW chat \in Chats,
         NEW id \in Nat, NEW archived \in Setting
  PROVE  [records EXCEPT ![chat] = [id |-> id, archived |-> archived]]
            \in [Chats -> [id : Nat, archived : Setting]]
  <1>1. [id |-> id, archived |-> archived] \in [id : Nat, archived : Setting]
    OBVIOUS
  <1> QED BY <1>1, Zenon

\* Everything else is typed: what is written is what applyChatSettingsChange made of typed records,
\* and an attempt is counted only while there is one left.
LEMMA RestKept == TypeOK /\ PinsLegal /\ Retries /\ Fresh /\ [Next]_vars => Rest'
  <1> SUFFICES ASSUME TypeOK, PinsLegal, Retries, Fresh, [Next]_vars PROVE Rest'
    OBVIOUS
  <1>0. Rest
    BY Zenon DEF TypeOK, Rest
  <1> USE DEF server, syncing, updating
  <1>1. CASE OtherDeviceWrites
    BY <1>0, <1>1, OtherEffect DEF Rest
  <1>2. CASE ReceiveNotice
    BY <1>0, <1>2 DEF Rest, ReceiveNotice
  <1>3. CASE SyncLocks
    BY <1>0, <1>3, Zenon DEF Rest, SyncLocks
  <1>4. CASE SyncFetchesManifest
    BY <1>0, <1>4, IdsIn, Zenon DEF Rest, SyncFetchesManifest
  <1>5. CASE SyncProcesses
    <2>1. Recorded(Fetched(syncIds)) \in [archived : [Chats -> Setting], pins : SUBSET Chats]
      BY FetchedIn, RecordedIn, Zenon
    <2> QED BY <1>0, <1>5, <2>1, IdsIn, Zenon DEF Rest, SyncProcesses
  <1>6. CASE SyncFails
    <2>1. PICK got \in Parts(Fetched(syncIds)) : local' = Recorded(got)
      BY <1>6, Zenon DEF SyncFails
    <2>2. local' \in [archived : [Chats -> Setting], pins : SUBSET Chats]
      BY <2>1, FetchedIn, PartsIn, RecordedIn, Zenon
    <2> QED BY <1>0, <1>6, <2>2, IdsIn, Zenon DEF Rest, SyncFails
  <1>7. ASSUME NEW u \in Updates, UpdateLocks(u) PROVE Rest'
    BY <1>0, <1>7, Zenon DEF Rest, UpdateLocks, Goto, Pcs
  <1>8. ASSUME NEW u \in Updates, UpdateFetchesManifest(u) PROVE Rest'
    BY <1>0, <1>8, IdsIn, Zenon DEF Rest, UpdateFetchesManifest, Goto, Pcs
  <1>9. ASSUME NEW u \in Updates, UpdateReadsRecords(u) PROVE Rest'
    <2>0. UNCHANGED <<server, notices, queued, syncing, change, attempt, local, faulty>>
      BY <1>9, ReadsRecords, Zenon
    <2>1. CASE \E result \in {"noRecord", "tooManyPins", "done"} : Return(u, result)
      <3>1. PICK result \in Pcs : Return(u, result)
        BY <2>1, Zenon DEF Pcs
      <3> QED BY <1>0, <2>0, <3>1, ReturnTypes, Zenon DEF Rest
    <2>2. CASE /\ plan' = [plan EXCEPT ![u] = Edits(change[u], rec[change[u].chat].archived, acct.pins)]
               /\ HasRoom(change[u], acct.pins)
               /\ Goto(u, "write")
               /\ UNCHANGED <<lock, base>>
      <3> DEFINE ch == change[u]
      <3>1. /\ ch \in Change /\ acct.pins \in Seq(Chats) /\ Legal(acct.pins)
            /\ rec[ch.chat].archived \in Setting
        BY Zenon DEF TypeOK, PinsLegal, Legal, Change
      <3>2. ch.pinned # "keep" => PinEdit(ch, acct.pins) \in SUBSET Seq(Chats)
        BY <2>2, <3>1, PinEditLegal
      <3>3. ch.archived # "keep" => ChatEdit(ch, rec[ch.chat].archived) \in SUBSET Setting
        BY <3>1, ChatEditChosen, Zenon
      <3>4. Edits(ch, rec[ch.chat].archived, acct.pins) \in [archived : SUBSET Setting, pins : SUBSET Seq(Chats)]
        BY <3>2, <3>3, Zenon DEF Edits
      <3>5. plan' \in [Updates -> [archived : SUBSET Setting, pins : SUBSET Seq(Chats)]]
        BY <1>0, <2>2, <3>4, Zenon DEF Rest
      <3>6. pc' \in [Updates -> Pcs]
        BY <1>0, <2>2, Zenon DEF Rest, Goto, Pcs
      <3> QED BY <1>0, <2>0, <2>2, <3>5, <3>6, Zenon DEF Rest
    <2> QED BY <1>9, <2>1, <2>2, ReadsRecords, Zenon
  <1>10. ASSUME NEW u \in Updates, pc[u] = "write", Accepts(u), ApplyWrite(u)
         PROVE  /\ version' \in Nat /\ rec' \in [Chats -> [id : Nat, archived : Setting]]
                /\ acct' \in [id : Nat, pins : Seq(Chats)]
    <2>1. change[u].chat \in Chats
      BY Zenon DEF TypeOK, Change
    <2>2. /\ version \in Nat /\ rec \in [Chats -> [id : Nat, archived : Setting]]
          /\ acct \in [id : Nat, pins : Seq(Chats)]
      BY Zenon DEF TypeOK
    <2>3. version' = version + 1
      BY <1>10, WriteEffect, Zenon
    <2>4. acct' \in [id : Nat, pins : Seq(Chats)]
      <3>1. acct' = acct \/ \E new \in Seq(Chats) : acct' = [id |-> version + 1, pins |-> new]
        BY <1>10, WriteEffect, Zenon
      <3> QED BY <2>2, <3>1
    <2>5. rec' \in [Chats -> [id : Nat, archived : Setting]]
      <3>1. \/ rec' = rec
            \/ \E new \in Setting : rec' = [rec EXCEPT ![change[u].chat] = [id |-> version + 1, archived |-> new]]
        BY <1>10, WriteEffect, Zenon
      <3>2. CASE rec' = rec
        BY <2>2, <3>2, Zenon
      <3>3. ASSUME NEW new \in Setting,
                   rec' = [rec EXCEPT ![change[u].chat] = [id |-> version + 1, archived |-> new]]
            PROVE  rec' \in [Chats -> [id : Nat, archived : Setting]]
        <4>1. version + 1 \in Nat
          BY <2>2
        <4> QED BY <2>1, <2>2, <3>3, <4>1, RecordPut, Zenon
      <3> QED BY <3>1, <3>2, <3>3, Zenon
    <2> QED BY <2>2, <2>3, <2>4, <2>5
  <1>11. ASSUME NEW u \in Updates, WriteSucceeds(u) PROVE Rest'
    <2>1. /\ version' \in Nat /\ rec' \in [Chats -> [id : Nat, archived : Setting]]
          /\ acct' \in [id : Nat, pins : Seq(Chats)]
      BY <1>10, <1>11, Zenon DEF WriteSucceeds
    <2> QED BY <1>0, <1>11, <2>1, Zenon DEF Rest, WriteSucceeds, Goto, Pcs
  <1>12. ASSUME NEW u \in Updates, WriteConflicts(u) PROVE Rest'
    <2>0. /\ UNCHANGED <<server, notices, queued, syncing, change, local, faulty>>
          /\ attempt' = [attempt EXCEPT ![u] = @ + 1]
      BY <1>12, Zenon DEF WriteConflicts
    <2>1. CASE /\ attempt[u] + 1 < MaxAttempts /\ Goto(u, "locked")
               /\ base' = [base EXCEPT ![u] = NoIds]
               /\ plan' = [plan EXCEPT ![u] = NoPlan]
               /\ UNCHANGED lock
      <3>1. attempt' \in [Updates -> 0..MaxAttempts]
        BY <1>0, <2>0, <2>1, ConstantsAssumption DEF Rest
      <3> QED BY <1>0, <2>0, <2>1, <3>1, IdsIn, Zenon DEF Rest, Goto, Pcs, NoPlan
    <2>2. CASE attempt[u] + 1 >= MaxAttempts /\ Return(u, "conflict")
      <3>1. attempt[u] < MaxAttempts
        BY <1>12, Zenon DEF Retries, Busy, WriteConflicts
      <3>2. attempt' \in [Updates -> 0..MaxAttempts]
        BY <1>0, <2>0, <3>1, ConstantsAssumption DEF Rest
      <3>3. "conflict" \in Pcs
        BY Zenon DEF Pcs
      <3> QED BY <1>0, <2>0, <2>2, <3>2, <3>3, ReturnTypes, Zenon DEF Rest
    <2> QED BY <1>12, <2>1, <2>2, Zenon DEF WriteConflicts
  <1>13. ASSUME NEW u \in Updates, UpdateFails(u) PROVE Rest'
    <2>1. /\ version' \in Nat /\ rec' \in [Chats -> [id : Nat, archived : Setting]]
          /\ acct' \in [id : Nat, pins : Seq(Chats)]
      BY <1>0, <1>10, <1>13, Zenon DEF UpdateFails, Rest
    <2>2. Return(u, "failed") /\ UNCHANGED <<notices, queued, syncing, change, attempt, local>>
      BY <1>13, Zenon DEF UpdateFails
    <2>3. "failed" \in Pcs
      BY Zenon DEF Pcs
    <2> QED BY <1>0, <2>1, <2>2, <2>3, ReturnTypes, Zenon DEF Rest
  <1>14. ASSUME NEW u \in Updates, UpdateProcesses(u) PROVE Rest'
    <2>1. local' \in [archived : [Chats -> Setting], pins : SUBSET Chats]
      BY <1>14, WrittenIn, PartsIn, RecordedIn, Zenon DEF UpdateProcesses
    <2>2. Return(u, "done") /\ UNCHANGED <<server, notices, queued, syncing, change, attempt>>
      BY <1>14, Zenon DEF UpdateProcesses
    <2>3. "done" \in Pcs
      BY Zenon DEF Pcs
    <2> QED BY <1>0, <2>1, <2>2, <2>3, ReturnTypes, Zenon DEF Rest
  <1>15. CASE UNCHANGED vars
    BY <1>0, <1>15, Zenon DEF Rest, vars
  <1> QED
    BY <1>1, <1>2, <1>3, <1>4, <1>5, <1>6, <1>7, <1>8, <1>9, <1>11, <1>12, <1>13, <1>14, <1>15, Zenon
    DEF Next, Sync, Update

\* Only a sync or an update that found the lock free takes it, and its holder gives it up on every
\* way out.
LEMMA LockedKept == TypeOK /\ Locked /\ [Next]_vars => Locked'
  <1> SUFFICES ASSUME TypeOK, Locked, [Next]_vars PROVE Locked'
    OBVIOUS
  <1> USE ConstantsAssumption DEF server, syncing, updating
  <1>0. Rest
    BY Zenon DEF TypeOK, Rest
  <1>1. CASE OtherDeviceWrites
    BY <1>1, Zenon DEF Locked, Busy, OtherDeviceWrites
  <1>2. CASE ReceiveNotice
    BY <1>2, Zenon DEF Locked, Busy, ReceiveNotice
  <1>3. CASE SyncLocks
    BY <1>3, Zenon DEF Locked, Busy, SyncLocks
  <1>4. CASE SyncFetchesManifest
    BY <1>4, Zenon DEF Locked, Busy, SyncFetchesManifest
  <1>5. CASE SyncProcesses
    BY <1>5, Zenon DEF Locked, Busy, SyncProcesses
  <1>6. CASE SyncFails
    BY <1>6, Zenon DEF Locked, Busy, SyncFails
  <1>7. ASSUME NEW u \in Updates, UpdateLocks(u) PROVE Locked'
    BY <1>0, <1>7, Zenon DEF Rest, Locked, Busy, Pcs, UpdateLocks, Return, Goto
  <1>8. ASSUME NEW u \in Updates, UpdateFetchesManifest(u) PROVE Locked'
    BY <1>0, <1>8, Zenon DEF Rest, Locked, Busy, Pcs, UpdateFetchesManifest, Return, Goto
  <1>9. ASSUME NEW u \in Updates, UpdateReadsRecords(u) PROVE Locked'
    <2>1. pc[u] = "records" /\ syncPc' = syncPc
      BY <1>9, ReadsRecords, Zenon
    <2>2. \/ \E result \in {"noRecord", "tooManyPins", "done"} :
                pc' = [pc EXCEPT ![u] = result] /\ lock' = "free"
          \/ pc' = [pc EXCEPT ![u] = "write"] /\ lock' = lock
      BY <1>9, ReadsRecords, Zenon DEF Return, Goto
    <2> QED BY <1>0, <2>1, <2>2, Zenon DEF Rest, Locked, Busy, Pcs
  <1>10. ASSUME NEW u \in Updates, WriteSucceeds(u) PROVE Locked'
    BY <1>0, <1>10, Zenon DEF Rest, Locked, Busy, Pcs, WriteSucceeds, Return, Goto
  <1>11. ASSUME NEW u \in Updates, WriteConflicts(u) PROVE Locked'
    BY <1>0, <1>11, ZenonT(60) DEF Rest, Locked, Busy, Pcs, WriteConflicts, Return, Goto
  <1>12. ASSUME NEW u \in Updates, UpdateFails(u) PROVE Locked'
    BY <1>0, <1>12, Zenon DEF Rest, Locked, Busy, Pcs, UpdateFails, Return, Goto
  <1>13. ASSUME NEW u \in Updates, UpdateProcesses(u) PROVE Locked'
    BY <1>0, <1>13, Zenon DEF Rest, Locked, Busy, Pcs, UpdateProcesses, Return, Goto
  <1>14. CASE UNCHANGED vars
    BY <1>14, Zenon DEF Locked, Busy, vars
  <1> QED
    BY <1>1, <1>2, <1>3, <1>4, <1>5, <1>6, <1>7, <1>8, <1>9, <1>10, <1>11, <1>12, <1>13, <1>14, Zenon
    DEF Next, Sync, Update

\* modifyStorage starts over only while attempts are left.
LEMMA RetriesKept == TypeOK /\ Retries /\ [Next]_vars => Retries'
  <1> SUFFICES ASSUME TypeOK, Retries, [Next]_vars PROVE Retries'
    OBVIOUS
  <1> USE ConstantsAssumption DEF server, syncing, updating
  <1>0. Rest
    BY Zenon DEF TypeOK, Rest
  <1>1. CASE OtherDeviceWrites
    BY <1>1, Zenon DEF Retries, Busy, OtherDeviceWrites
  <1>2. CASE ReceiveNotice
    BY <1>2, Zenon DEF Retries, Busy, ReceiveNotice
  <1>3. CASE SyncLocks
    BY <1>3, Zenon DEF Retries, Busy, SyncLocks
  <1>4. CASE SyncFetchesManifest
    BY <1>4, Zenon DEF Retries, Busy, SyncFetchesManifest
  <1>5. CASE SyncProcesses
    BY <1>5, Zenon DEF Retries, Busy, SyncProcesses
  <1>6. CASE SyncFails
    BY <1>6, Zenon DEF Retries, Busy, SyncFails
  <1>7. ASSUME NEW u \in Updates, UpdateLocks(u) PROVE Retries'
    BY <1>0, <1>7, Zenon DEF Rest, Retries, Busy, Pcs, UpdateLocks, Return, Goto
  <1>8. ASSUME NEW u \in Updates, UpdateFetchesManifest(u) PROVE Retries'
    BY <1>0, <1>8, Zenon DEF Rest, Retries, Busy, Pcs, UpdateFetchesManifest, Return, Goto
  <1>9. ASSUME NEW u \in Updates, UpdateReadsRecords(u) PROVE Retries'
    BY <1>0, <1>9, ReadsRecords, ZenonT(60) DEF Rest, Retries, Busy, Pcs, Return, Goto
  <1>10. ASSUME NEW u \in Updates, WriteSucceeds(u) PROVE Retries'
    BY <1>0, <1>10, Zenon DEF Rest, Retries, Busy, Pcs, WriteSucceeds, Return, Goto
  <1>11. ASSUME NEW u \in Updates, WriteConflicts(u) PROVE Retries'
    BY <1>0, <1>11, Zenon DEF Rest, Retries, Busy, Pcs, WriteConflicts, Return, Goto
  <1>12. ASSUME NEW u \in Updates, UpdateFails(u) PROVE Retries'
    BY <1>0, <1>12, Zenon DEF Rest, Retries, Busy, Pcs, UpdateFails, Return, Goto
  <1>13. ASSUME NEW u \in Updates, UpdateProcesses(u) PROVE Retries'
    BY <1>0, <1>13, Zenon DEF Rest, Retries, Busy, Pcs, UpdateProcesses, Return, Goto
  <1>14. CASE UNCHANGED vars
    BY <1>14, Zenon DEF Retries, Busy, vars
  <1> QED
    BY <1>1, <1>2, <1>3, <1>4, <1>5, <1>6, <1>7, <1>8, <1>9, <1>10, <1>11, <1>12, <1>13, <1>14, Zenon
    DEF Next, Sync, Update

\* Versions only grow, and a manifest carries the version of the moment it was fetched.
LEMMA VersionsKept == TypeOK /\ PinsLegal /\ Fresh /\ Versions /\ [Next]_vars => Versions'
  <1> SUFFICES ASSUME TypeOK, PinsLegal, Fresh, Versions, [Next]_vars PROVE Versions'
    OBVIOUS
  <1> USE ConstantsAssumption DEF server, syncing, updating
  <1>0. Rest
    BY Zenon DEF TypeOK, Rest
  <1>1. CASE OtherDeviceWrites
    BY <1>1, OtherEffect, NewVersion, Zenon DEF Versions
  <1>2. CASE ReceiveNotice
    BY <1>2, Zenon DEF Versions, Manifest, ReceiveNotice
  <1>3. CASE SyncLocks
    BY <1>3, Zenon DEF Versions, Manifest, SyncLocks
  <1>4. CASE SyncFetchesManifest
    BY <1>4, Zenon DEF Versions, Manifest, SyncFetchesManifest
  <1>5. CASE SyncProcesses
    BY <1>5, Zenon DEF Versions, Manifest, SyncProcesses
  <1>6. CASE SyncFails
    BY <1>6, Zenon DEF Versions, Manifest, SyncFails
  <1>7. ASSUME NEW u \in Updates, UpdateLocks(u) PROVE Versions'
    BY <1>7, Zenon DEF Versions, Manifest, UpdateLocks, Return, Goto
  <1>8. ASSUME NEW u \in Updates, UpdateFetchesManifest(u) PROVE Versions'
    <2>1. Ids(version, rec, acct).version = version
      BY Zenon DEF Ids
    <2>2. UNCHANGED <<version, acct>> /\ base' = [base EXCEPT ![u] = Ids(version, rec, acct)]
      BY <1>8, Zenon DEF UpdateFetchesManifest
    <2>3. \A v \in Updates : base'[v] = base[v] \/ base'[v].version = version
      BY <1>0, <2>1, <2>2, Zenon DEF Rest
    <2> QED BY <2>2, <2>3, NoIdsVersion, Zenon DEF Versions
  <1>9. ASSUME NEW u \in Updates, UpdateReadsRecords(u) PROVE Versions'
    <2>1. UNCHANGED <<version, acct>> /\ (base' = base \/ base' = [base EXCEPT ![u] = NoIds])
      BY <1>9, ReadsRecords, Zenon DEF Return
    <2>2. \A v \in Updates : base'[v] = base[v] \/ base'[v] = NoIds
      BY <1>0, <2>1, Zenon DEF Rest
    <2> QED BY <2>1, <2>2, NoIdsVersion, Zenon DEF Versions
  <1>10. ASSUME NEW u \in Updates, WriteSucceeds(u) PROVE Versions'
    <2>1. version' = version + 1 /\ (acct' = acct \/ acct'.id = version + 1) /\ base' = base
      BY <1>10, WriteResult, Zenon DEF WriteSucceeds
    <2> QED BY <2>1, NewVersion, Zenon DEF Versions
  <1>11. ASSUME NEW u \in Updates, WriteConflicts(u) PROVE Versions'
    <2>1. UNCHANGED <<version, acct>> /\ base' = [base EXCEPT ![u] = NoIds]
      BY <1>11, Zenon DEF WriteConflicts, Return
    <2>2. \A v \in Updates : base'[v] = base[v] \/ base'[v] = NoIds
      BY <1>0, <2>1, Zenon DEF Rest
    <2> QED BY <2>1, <2>2, NoIdsVersion, Zenon DEF Versions
  <1>12. ASSUME NEW u \in Updates, UpdateFails(u) PROVE Versions'
    <2>1. base' = [base EXCEPT ![u] = NoIds]
      BY <1>12, Zenon DEF UpdateFails, Return
    <2>2. \A v \in Updates : base'[v] = base[v] \/ base'[v] = NoIds
      BY <1>0, <2>1, Zenon DEF Rest
    <2>4. CASE UNCHANGED <<version, acct>>
      BY <2>2, <2>4, NoIdsVersion, Zenon DEF Versions
    <2>5. CASE pc[u] = "write" /\ Accepts(u) /\ ApplyWrite(u)
      <3>1. version' = version + 1 /\ (acct' = acct \/ acct'.id = version + 1)
        BY <2>5, WriteResult, Zenon
      <3> QED BY <2>2, <3>1, NewVersion, Zenon DEF Versions
    <2> QED BY <1>12, <2>4, <2>5, Zenon DEF UpdateFails
  <1>13. ASSUME NEW u \in Updates, UpdateProcesses(u) PROVE Versions'
    <2>1. UNCHANGED <<version, acct>> /\ base' = [base EXCEPT ![u] = NoIds]
      BY <1>13, Zenon DEF UpdateProcesses, Return
    <2>2. \A v \in Updates : base'[v] = base[v] \/ base'[v] = NoIds
      BY <1>0, <2>1, Zenon DEF Rest
    <2> QED BY <2>1, <2>2, NoIdsVersion, Zenon DEF Versions
  <1>14. CASE UNCHANGED vars
    BY <1>14, Zenon DEF Versions, Manifest, vars
  <1> QED
    BY <1>1, <1>2, <1>3, <1>4, <1>5, <1>6, <1>7, <1>8, <1>9, <1>10, <1>11, <1>12, <1>13, <1>14, Zenon
    DEF Next, Sync, Update

\* The bridge writes a list of pins only if its manifest is still the current one, and then the list
\* was made from the pins that are there.
LEMMA PinsLegalKept == TypeOK /\ PinsLegal /\ Fresh /\ [Next]_vars => PinsLegal'
  <1> SUFFICES ASSUME TypeOK, PinsLegal, Fresh, [Next]_vars PROVE PinsLegal'
    OBVIOUS
  <1> USE ConstantsAssumption DEF server, syncing, updating
  <1>0. Rest
    BY Zenon DEF TypeOK, Rest
  <1>1. CASE OtherDeviceWrites
    BY <1>1, OtherEffect, Zenon DEF PinsLegal, Legal
  <1>2. CASE ReceiveNotice
    BY <1>2, Zenon DEF PinsLegal, ReceiveNotice
  <1>3. CASE SyncLocks
    BY <1>3, Zenon DEF PinsLegal, SyncLocks
  <1>4. CASE SyncFetchesManifest
    BY <1>4, Zenon DEF PinsLegal, SyncFetchesManifest
  <1>5. CASE SyncProcesses
    BY <1>5, Zenon DEF PinsLegal, SyncProcesses
  <1>6. CASE SyncFails
    BY <1>6, Zenon DEF PinsLegal, SyncFails
  <1>7. ASSUME NEW u \in Updates, UpdateLocks(u) PROVE PinsLegal'
    BY <1>7, Zenon DEF PinsLegal, UpdateLocks, Return, Goto
  <1>8. ASSUME NEW u \in Updates, UpdateFetchesManifest(u) PROVE PinsLegal'
    BY <1>8, Zenon DEF PinsLegal, UpdateFetchesManifest, Return, Goto
  <1>9. ASSUME NEW u \in Updates, UpdateReadsRecords(u) PROVE PinsLegal'
    BY <1>9, ReadsRecords, Zenon DEF PinsLegal
  <1>10. ASSUME NEW u \in Updates, WriteSucceeds(u) PROVE PinsLegal'
    <2>1. acct' = acct \/ Legal(acct'.pins)
      BY <1>10, WriteResult, Zenon DEF WriteSucceeds
    <2> QED BY <2>1, Zenon DEF PinsLegal, Legal
  <1>11. ASSUME NEW u \in Updates, WriteConflicts(u) PROVE PinsLegal'
    BY <1>11, Zenon DEF PinsLegal, WriteConflicts, Return, Goto
  <1>12. ASSUME NEW u \in Updates, UpdateFails(u) PROVE PinsLegal'
    <2>1. acct' = acct \/ Legal(acct'.pins)
      BY <1>12, WriteResult, Zenon DEF UpdateFails
    <2> QED BY <2>1, Zenon DEF PinsLegal, Legal
  <1>13. ASSUME NEW u \in Updates, UpdateProcesses(u) PROVE PinsLegal'
    BY <1>13, Zenon DEF PinsLegal, UpdateProcesses, Return, Goto
  <1>14. CASE UNCHANGED vars
    BY <1>14, Zenon DEF PinsLegal, vars
  <1> QED
    BY <1>1, <1>2, <1>3, <1>4, <1>5, <1>6, <1>7, <1>8, <1>9, <1>10, <1>11, <1>12, <1>13, <1>14, Zenon
    DEF Next, Sync, Update

\* An update that would be accepted has seen the last write: every write, of whomever, makes the
\* versions of all manifests fetched before it too old.
LEMMA FreshKept == TypeOK /\ Versions /\ PinsLegal /\ Locked /\ Fresh /\ [Next]_vars => Fresh'
  <1> SUFFICES ASSUME TypeOK, Versions, PinsLegal, Locked, Fresh, [Next]_vars PROVE Fresh'
    OBVIOUS
  <1> USE ConstantsAssumption DEF server, syncing, updating
  <1>0. Rest
    BY Zenon DEF TypeOK, Rest
  <1>1. CASE OtherDeviceWrites
    <2>1. \A v \in Updates : ~Accepts(v)'
      BY <1>1, OtherEffect, NewVersion, Zenon DEF Accepts
    <2> QED BY <2>1, Zenon DEF Fresh
  <1>2. CASE ReceiveNotice
    BY <1>2, Zenon DEF Fresh, Accepts, ReceiveNotice
  <1>3. CASE SyncLocks
    BY <1>3, Zenon DEF Fresh, Accepts, SyncLocks
  <1>4. CASE SyncFetchesManifest
    BY <1>4, Zenon DEF Fresh, Accepts, SyncFetchesManifest
  <1>5. CASE SyncProcesses
    BY <1>5, Zenon DEF Fresh, Accepts, SyncProcesses
  <1>6. CASE SyncFails
    BY <1>6, Zenon DEF Fresh, Accepts, SyncFails
  <1>7. ASSUME NEW u \in Updates, UpdateLocks(u) PROVE Fresh'
    BY <1>0, <1>7, Zenon DEF Rest, Fresh, Accepts, UpdateLocks, Return, Goto
  <1>8. ASSUME NEW u \in Updates, UpdateFetchesManifest(u) PROVE Fresh'
    BY <1>0, <1>8, Zenon DEF Rest, Fresh, Accepts, UpdateFetchesManifest, Return, Goto
  <1>9. ASSUME NEW u \in Updates, UpdateReadsRecords(u) PROVE Fresh'
    <2>1. UNCHANGED <<version, rec, acct, change>> /\ pc[u] = "records"
      BY <1>9, ReadsRecords, Zenon
    <2>2. CASE \E result \in {"noRecord", "tooManyPins", "done"} : Return(u, result)
      BY <1>0, <2>1, <2>2, Zenon DEF Rest, Fresh, Accepts, Return, Goto
    <2>3. CASE /\ plan' = [plan EXCEPT ![u] = Edits(change[u], rec[change[u].chat].archived, acct.pins)]
               /\ HasRoom(change[u], acct.pins)
               /\ Goto(u, "write")
               /\ UNCHANGED <<lock, base>>
      BY <1>0, <2>1, <2>3, Zenon DEF Rest, Fresh, Accepts, Goto
    <2> QED BY <1>9, <2>2, <2>3, ReadsRecords, Zenon
  <1>10. ASSUME NEW u \in Updates, WriteSucceeds(u) PROVE Fresh'
    <2>1. \A v \in Updates : ~Accepts(v)'
      BY <1>10, WriteResult, NewVersion, Zenon DEF WriteSucceeds, Accepts
    <2> QED BY <2>1, Zenon DEF Fresh
  <1>11. ASSUME NEW u \in Updates, WriteConflicts(u) PROVE Fresh'
    BY <1>0, <1>11, Zenon DEF Rest, Fresh, Accepts, WriteConflicts, Return, Goto
  <1>12. ASSUME NEW u \in Updates, UpdateFails(u) PROVE Fresh'
    <2>1. /\ change' = change /\ pc' = [pc EXCEPT ![u] = "failed"]
          /\ base' = [base EXCEPT ![u] = NoIds] /\ plan' = [plan EXCEPT ![u] = NoPlan]
      BY <1>12, Zenon DEF UpdateFails, Return, Goto
    <2>2. CASE UNCHANGED server
      BY <1>0, <2>1, <2>2, Zenon DEF Rest, Fresh, Accepts
    <2>3. CASE pc[u] = "write" /\ Accepts(u) /\ ApplyWrite(u)
      <3>1. version' = version + 1
        BY <2>3, WriteEffect, Zenon
      <3>2. \A v \in Updates : v # u => ~Accepts(v)'
        BY <1>0, <2>1, <3>1, NewVersion, Zenon DEF Rest, Accepts
      <3> QED BY <1>0, <2>1, <3>2, Zenon DEF Rest, Fresh
    <2> QED BY <1>12, <2>2, <2>3, Zenon DEF UpdateFails
  <1>13. ASSUME NEW u \in Updates, UpdateProcesses(u) PROVE Fresh'
    BY <1>0, <1>13, Zenon DEF Rest, Fresh, Accepts, UpdateProcesses, Return, Goto
  <1>14. CASE UNCHANGED vars
    BY <1>14, Zenon DEF Fresh, Accepts, vars
  <1> QED
    BY <1>1, <1>2, <1>3, <1>4, <1>5, <1>6, <1>7, <1>8, <1>9, <1>10, <1>11, <1>12, <1>13, <1>14, Zenon
    DEF Next, Sync, Update

\* A write that was accepted is what the server holds until another device writes.
LEMMA RecordingKept ==
  TypeOK /\ PinsLegal /\ Locked /\ Fresh /\ Recording /\ [Next]_vars => Recording'
  <1> SUFFICES ASSUME TypeOK, PinsLegal, Locked, Fresh, Recording, [Next]_vars PROVE Recording'
    OBVIOUS
  <1> USE ConstantsAssumption DEF server, syncing, updating
  <1>0. Rest
    BY Zenon DEF TypeOK, Rest
  <1>1. CASE OtherDeviceWrites
    <2>1. notices' > 0
      BY <1>1, OtherEffect, Zenon
    <2> QED BY <2>1, ZenonT(60) DEF Recording
  <1>2. CASE ReceiveNotice
    BY <1>2, Zenon DEF Recording, ReceiveNotice
  <1>3. CASE SyncLocks
    <2>1. \A v \in Updates : pc'[v] # "process"
      BY <1>3, Zenon DEF Locked, Busy, SyncLocks
    <2> QED BY <2>1, ZenonT(60) DEF Recording
  <1>4. CASE SyncFetchesManifest
    BY <1>0, <1>4, Zenon DEF Rest, Recording, SyncFetchesManifest
  <1>5. CASE SyncProcesses
    BY <1>0, <1>5, Zenon DEF Rest, Recording, SyncProcesses
  <1>6. CASE SyncFails
    BY <1>0, <1>6, Zenon DEF Rest, Recording, SyncFails
  <1>7. ASSUME NEW u \in Updates, UpdateLocks(u) PROVE Recording'
    BY <1>0, <1>7, Zenon DEF Rest, Recording, UpdateLocks, Return, Goto
  <1>8. ASSUME NEW u \in Updates, UpdateFetchesManifest(u) PROVE Recording'
    BY <1>0, <1>8, Zenon DEF Rest, Recording, UpdateFetchesManifest, Return, Goto
  <1>9. ASSUME NEW u \in Updates, UpdateReadsRecords(u) PROVE Recording'
    <2>1. UNCHANGED <<rec, acct, change, notices, queued>> /\ pc[u] = "records"
      BY <1>9, ReadsRecords, Zenon
    <2>2. \A v \in Updates : pc'[v] = "process" => pc[v] = "process" /\ plan'[v] = plan[v]
      BY <1>0, <1>9, <2>1, ReadsRecords, ZenonT(60) DEF Rest, Return, Goto
    <2> QED BY <2>1, <2>2, Zenon DEF Recording
  <1>10. ASSUME NEW u \in Updates, WriteSucceeds(u) PROVE Recording'
    <2>1. \A v \in Updates : pc'[v] = "process" => v = u
      BY <1>0, <1>10, Zenon DEF Rest, Locked, Busy, WriteSucceeds, Goto
    <2>2. /\ plan[u].pins = {} \/ plan[u].pins = {acct'.pins}
          /\ plan[u].archived = {} \/ plan[u].archived = {rec'[change[u].chat].archived}
      BY <1>10, WriteResult, Zenon DEF WriteSucceeds
    <2>3. UNCHANGED <<plan, change>>
      BY <1>10, Zenon DEF WriteSucceeds
    <2> QED BY <2>1, <2>2, <2>3, Zenon DEF Recording
  <1>11. ASSUME NEW u \in Updates, WriteConflicts(u) PROVE Recording'
    BY <1>0, <1>11, ZenonT(60) DEF Rest, Recording, WriteConflicts, Return, Goto
  <1>12. ASSUME NEW u \in Updates, UpdateFails(u) PROVE Recording'
    <2>1. \A v \in Updates : pc'[v] # "process"
      BY <1>0, <1>12, Zenon DEF Rest, Locked, Busy, UpdateFails, Return, Goto
    <2> QED BY <2>1, ZenonT(60) DEF Recording
  <1>13. ASSUME NEW u \in Updates, UpdateProcesses(u) PROVE Recording'
    BY <1>0, <1>13, Zenon DEF Rest, Recording, UpdateProcesses, Return, Goto
  <1>14. CASE UNCHANGED vars
    BY <1>0, <1>14, Zenon DEF Rest, Recording, vars
  <1> QED
    BY <1>1, <1>2, <1>3, <1>4, <1>5, <1>6, <1>7, <1>8, <1>9, <1>10, <1>11, <1>12, <1>13, <1>14, Zenon
    DEF Next, Sync, Update

\* A request that fails is not forgotten.
LEMMA FaultyStays == Flags /\ [Next]_vars /\ ~faulty' => ~faulty
  BY Zenon
  DEF Flags, Next, vars, OtherDeviceWrites, ReceiveNotice, Sync, SyncLocks, SyncFetchesManifest,
     SyncProcesses, SyncFails, Update, UpdateLocks, UpdateFetchesManifest, UpdateReadsRecords,
     WriteSucceeds, WriteConflicts, UpdateFails, UpdateProcesses

\* What is recorded of a chat and of the pins.
LEMMA RecordedOne ==
  ASSUME NEW got
  PROVE  /\ \A c \in Chats : Recorded(got).archived[c] = IF got.archived[c] = {} THEN local.archived[c]
                                                        ELSE Only(got.archived[c])
         /\ Recorded(got).pins = IF got.pins = {} THEN local.pins ELSE Range(Only(got.pins))
  BY Zenon DEF Recorded

\* One record at hand is recorded.
LEMMA RecordedPins ==
  ASSUME NEW got, NEW pins, got.pins = {pins}, local' = Recorded(got)
  PROVE  local'.pins = Range(pins)
  <1>1. got.pins # {} /\ Only(got.pins) = pins
    BY OnlyOne, Zenon
  <1> QED BY <1>1, RecordedOne, Zenon

\* The same for the record of a chat.
LEMMA RecordedChat ==
  ASSUME NEW got, NEW c \in Chats, NEW archived, got.archived[c] = {archived}, local' = Recorded(got)
  PROVE  local'.archived[c] = archived
  <1>1. got.archived[c] # {} /\ Only(got.archived[c]) = archived
    BY OnlyOne, Zenon
  <1> QED BY <1>1, RecordedOne, Zenon

\* Nothing that Known speaks of changes.
LEMMA KnownSame ==
  ASSUME TypeOK, PinsKnown, \A c \in Chats : ChatKnown(c),
         UNCHANGED <<rec, acct, notices, queued, syncPc, syncIds, local, change>>,
         \A v \in Updates : pc[v] = "process" => pc'[v] = "process" /\ plan'[v] = plan[v]
  PROVE  PinsKnown' /\ \A c \in Chats : ChatKnown(c)'
  <1>1. PinsKnown'
    BY Zenon DEF PinsKnown, Coming
  <1>2. \A c \in Chats : ChatKnown(c)'
    BY Zenon DEF ChatKnown, Coming
  <1> QED BY <1>1, <1>2, Zenon

\* A manifest that has everything is about to be read: nothing else matters.
LEMMA KnownComing ==
  ASSUME Coming'
  PROVE  PinsKnown' /\ \A c \in Chats : ChatKnown(c)'
  BY Zenon DEF PinsKnown, ChatKnown

\* No step loses a change: one that another device makes has its notice, one that a sync does not
\* read because the record was replaced meanwhile is followed by the notice of the replacement, and
\* one that the bridge writes is recorded by it.
LEMMA KnownKept ==
  TypeOK /\ PinsLegal /\ Locked /\ Fresh /\ Recording /\ Known /\ [Next]_vars => Known'
  <1> SUFFICES ASSUME TypeOK, PinsLegal, Locked, Fresh, Recording, Known, [Next]_vars, ~faulty'
               PROVE  PinsKnown' /\ \A c \in Chats : ChatKnown(c)'
    BY Zenon DEF Known
  <1> USE ConstantsAssumption DEF server, syncing, updating
  <1>0. Rest
    BY Zenon DEF TypeOK, Rest
  <1>a. PinsKnown /\ \A c \in Chats : ChatKnown(c)
    <2>1. Flags
      BY Zenon DEF TypeOK, Flags
    <2> QED BY <2>1, FaultyStays, Zenon DEF Known
  <1>1. CASE OtherDeviceWrites
    <2>1. notices' > 0
      BY <1>1, OtherEffect, Zenon
    <2> QED BY <2>1, KnownComing, ZenonT(60) DEF Coming
  <1>2. CASE ReceiveNotice
    BY <1>2, KnownComing, Zenon DEF ReceiveNotice, Coming
  <1>3. CASE SyncLocks
    BY <1>3, KnownComing, Zenon DEF SyncLocks, Coming
  <1>4. CASE SyncFetchesManifest
    <2>1. /\ syncPc' = "records" /\ UNCHANGED <<rec, acct>>
          /\ syncIds'.acct = acct.id /\ \A c \in Chats : syncIds'.recs[c] = rec[c].id
      BY <1>4, Zenon DEF SyncFetchesManifest, Ids
    <2> QED BY <2>1, Zenon DEF PinsKnown, ChatKnown
  <1>5. CASE SyncProcesses
    <2>1. /\ syncPc = "records" /\ local' = Recorded(Fetched(syncIds))
          /\ UNCHANGED <<rec, acct, notices, queued>>
      BY <1>5, Zenon DEF SyncProcesses
    <2>2. \A v \in Updates : pc[v] # "process"
      BY <2>1, Zenon DEF Locked, Busy
    <2>3. CASE notices > 0 \/ queued
      BY <2>1, <2>3, KnownComing, Zenon DEF Coming
    <2>4. CASE ~(notices > 0 \/ queued)
      <3>1. PinsKnown'
        <4>1. CASE acct.id = syncIds.acct
          <5>1. local'.pins = Range(acct.pins)
            <6>1. Fetched(syncIds).pins = {acct.pins}
              BY <4>1, FetchedOne, Zenon
            <6> QED BY <2>1, <6>1, RecordedPins, Zenon
          <5> QED BY <2>1, <5>1, Zenon DEF PinsKnown
        <4>2. CASE acct.id # syncIds.acct
          <5>1. local.pins = Range(acct.pins)
            BY <1>a, <2>1, <2>2, <2>4, <4>2, Zenon DEF PinsKnown, Coming
          <5>2. local'.pins = local.pins
            BY <2>1, <4>2, FetchedOne, RecordedOne, Zenon
          <5> QED BY <2>1, <5>1, <5>2, Zenon DEF PinsKnown
        <4> QED BY <4>1, <4>2, Zenon
      <3>2. ASSUME NEW c \in Chats PROVE ChatKnown(c)'
        <4>1. CASE rec[c].id = NoId
          BY <2>1, <4>1, Zenon DEF ChatKnown
        <4>2. CASE rec[c].id # NoId /\ syncIds.recs[c] = rec[c].id
          <5>1. local'.archived[c] = rec[c].archived
            <6>1. Fetched(syncIds).archived[c] = {rec[c].archived}
              BY <4>2, FetchedOne, Zenon
            <6> QED BY <2>1, <6>1, RecordedChat, Zenon
          <5> QED BY <2>1, <5>1, Zenon DEF ChatKnown
        <4>3. CASE rec[c].id # NoId /\ syncIds.recs[c] # rec[c].id
          <5>1. local.archived[c] = rec[c].archived
            BY <1>a, <2>1, <2>2, <2>4, <4>3, Zenon DEF ChatKnown, Coming
          <5>2. local'.archived[c] = local.archived[c]
            <6>1. Fetched(syncIds).archived[c] = {}
              BY <4>3, FetchedOne, Zenon
            <6> QED BY <2>1, <6>1, RecordedOne, Zenon
          <5> QED BY <2>1, <5>1, <5>2, Zenon DEF ChatKnown
        <4> QED BY <4>1, <4>2, <4>3, Zenon
      <3> QED BY <3>1, <3>2, Zenon
    <2> QED BY <2>3, <2>4, Zenon
  <1>6. CASE SyncFails
    BY <1>6, Zenon DEF SyncFails
  <1>7. ASSUME NEW u \in Updates, UpdateLocks(u) PROVE PinsKnown' /\ \A c \in Chats : ChatKnown(c)'
    BY <1>0, <1>a, <1>7, KnownSame, Zenon DEF Rest, UpdateLocks, Goto
  <1>8. ASSUME NEW u \in Updates, UpdateFetchesManifest(u)
        PROVE  PinsKnown' /\ \A c \in Chats : ChatKnown(c)'
    BY <1>0, <1>a, <1>8, KnownSame, Zenon DEF Rest, UpdateFetchesManifest, Goto
  <1>9. ASSUME NEW u \in Updates, UpdateReadsRecords(u)
        PROVE  PinsKnown' /\ \A c \in Chats : ChatKnown(c)'
    <2>1. /\ UNCHANGED <<rec, acct, notices, queued, syncPc, syncIds, local, change>>
          /\ pc[u] = "records"
      BY <1>9, ReadsRecords, Zenon
    <2>2. \A v \in Updates : pc[v] = "process" => pc'[v] = "process" /\ plan'[v] = plan[v]
      BY <1>0, <1>9, <2>1, ReadsRecords, ZenonT(60) DEF Rest, Return, Goto
    <2> QED BY <1>a, <2>1, <2>2, KnownSame, Zenon
  <1>10. ASSUME NEW u \in Updates, WriteSucceeds(u)
         PROVE  PinsKnown' /\ \A c \in Chats : ChatKnown(c)'
    <2>1. /\ UNCHANGED <<notices, queued, syncPc, syncIds, local, change, plan>>
          /\ pc[u] = "write" /\ pc'[u] = "process"
          /\ \A v \in Updates : pc[v] = "process" => pc'[v] = "process"
      BY <1>0, <1>10, Zenon DEF Rest, WriteSucceeds, Goto
    <2>2. PinsKnown'
      <3>1. plan[u].pins # {} \/ acct' = acct
        BY <1>10, WriteEffect, Zenon DEF WriteSucceeds
      <3>2. CASE plan[u].pins # {}
        BY <2>1, <3>2, Zenon DEF PinsKnown
      <3>3. CASE acct' = acct
        BY <1>a, <2>1, <3>3, Zenon DEF PinsKnown, Coming
      <3> QED BY <3>1, <3>2, <3>3, Zenon
    <2>3. ASSUME NEW c \in Chats PROVE ChatKnown(c)'
      <3>1. (plan[u].archived # {} /\ c = change[u].chat) \/ rec'[c] = rec[c]
        <4>1. rec' = IF plan[u].archived = {} THEN rec
                     ELSE [rec EXCEPT ![change[u].chat] =
                              [id |-> version + 1, archived |-> Only(plan[u].archived)]]
          BY <1>10, Zenon DEF WriteSucceeds, ApplyWrite
        <4> QED BY <1>0, <4>1, Zenon DEF Rest
      <3>2. CASE plan[u].archived # {} /\ c = change[u].chat
        BY <2>1, <3>2, Zenon DEF ChatKnown
      <3>3. CASE rec'[c] = rec[c]
        <4>1. ChatKnown(c)
          BY <1>a, Zenon
        <4> QED BY <2>1, <3>3, <4>1, Zenon DEF ChatKnown, Coming
      <3> QED BY <3>1, <3>2, <3>3, Zenon
    <2> QED BY <2>2, <2>3, Zenon
  <1>11. ASSUME NEW u \in Updates, WriteConflicts(u)
         PROVE  PinsKnown' /\ \A c \in Chats : ChatKnown(c)'
    <2>1. UNCHANGED <<rec, acct, notices, queued, syncPc, syncIds, local, change>>
      BY <1>11, Zenon DEF WriteConflicts
    <2>2. \A v \in Updates : pc[v] = "process" => pc'[v] = "process" /\ plan'[v] = plan[v]
      BY <1>0, <1>11, Zenon DEF WriteConflicts, Rest, Return, Goto
    <2> QED BY <1>a, <2>1, <2>2, KnownSame, Zenon
  <1>12. ASSUME NEW u \in Updates, UpdateFails(u)
         PROVE  PinsKnown' /\ \A c \in Chats : ChatKnown(c)'
    BY <1>12, Zenon DEF UpdateFails
  <1>13. ASSUME NEW u \in Updates, UpdateProcesses(u)
         PROVE  PinsKnown' /\ \A c \in Chats : ChatKnown(c)'
    <2>1. /\ UNCHANGED <<rec, acct, notices, queued, syncPc, syncIds>> /\ pc[u] = "process"
          /\ local' = Recorded(Written(u))
      BY <1>13, Zenon DEF UpdateProcesses
    <2>2. \A v \in Updates : pc[v] = "process" => v = u
      BY <2>1, Zenon DEF Locked, Busy
    <2>3. CASE notices > 0 \/ queued
      BY <2>1, <2>3, KnownComing, Zenon DEF Coming
    <2>4. CASE ~(notices > 0 \/ queued)
      <3>1. /\ Written(u).pins = plan[u].pins
            /\ \A c \in Chats : Written(u).archived[c] = IF c = change[u].chat THEN plan[u].archived ELSE {}
        BY Zenon DEF Written
      <3>2. /\ plan[u].pins = {} \/ plan[u].pins = {acct.pins}
            /\ plan[u].archived = {} \/ plan[u].archived = {rec[change[u].chat].archived}
        BY <2>1, <2>4, Zenon DEF Recording
      <3>3. PinsKnown'
        <4>1. CASE plan[u].pins = {acct.pins}
          <5>1. local'.pins = Range(acct.pins)
            BY <2>1, <3>1, <4>1, RecordedPins, Zenon
          <5> QED BY <2>1, <5>1, Zenon DEF PinsKnown
        <4>2. CASE plan[u].pins = {}
          <5>1. local'.pins = local.pins
            BY <2>1, <3>1, <4>2, RecordedOne, Zenon
          <5> QED BY <1>a, <2>1, <2>2, <4>2, <5>1, Zenon DEF PinsKnown, Coming
        <4> QED BY <3>2, <4>1, <4>2, Zenon
      <3>4. ASSUME NEW c \in Chats PROVE ChatKnown(c)'
        <4>0. ChatKnown(c)
          BY <1>a, Zenon
        <4>1. CASE c = change[u].chat /\ plan[u].archived = {rec[change[u].chat].archived}
          <5>1. local'.archived[c] = rec[c].archived
            <6>1. Written(u).archived[c] = {rec[c].archived}
              BY <3>1, <4>1, Zenon
            <6> QED BY <2>1, <6>1, RecordedChat, Zenon
          <5> QED BY <2>1, <5>1, Zenon DEF ChatKnown
        <4>2. CASE c # change[u].chat \/ plan[u].archived = {}
          <5>1. local'.archived[c] = local.archived[c]
            BY <2>1, <3>1, <4>2, RecordedOne
          <5> QED BY <4>0, <2>1, <2>2, <4>2, <5>1, ZenonT(60) DEF ChatKnown, Coming
        <4> QED BY <3>2, <4>1, <4>2, Zenon
      <3> QED BY <3>3, <3>4, Zenon
    <2> QED BY <2>3, <2>4, Zenon
  <1>14. CASE UNCHANGED vars
    BY <1>a, <1>14, KnownSame, Zenon DEF vars
  <1> QED
    BY <1>1, <1>2, <1>3, <1>4, <1>5, <1>6, <1>7, <1>8, <1>9, <1>10, <1>11, <1>12, <1>13, <1>14, Zenon
    DEF Next, Sync, Update

\* The bridge starts with what the server has.
LEMMA InitIInv == Init => IInv
  <1> SUFFICES ASSUME Init PROVE IInv
    OBVIOUS
  <1>1. PICK has \in SUBSET Chats :
           rec = [c \in Chats |-> [id |-> IF c \in has THEN 1 ELSE NoId, archived |-> "off"]]
    BY Zenon DEF Init
  <1>2. /\ version = 1 /\ acct = [id |-> 1, pins |-> <<>>] /\ notices = 0 /\ lock = "free"
        /\ syncPc = "idle" /\ syncIds = NoIds /\ pc = [u \in Updates |-> "idle"]
        /\ change \in [Updates -> Change] /\ attempt = [u \in Updates |-> 0]
        /\ base = [u \in Updates |-> NoIds] /\ plan = [u \in Updates |-> NoPlan]
        /\ local = [archived |-> [c \in Chats |-> "off"], pins |-> {}]
    BY Zenon DEF Init
  <1>3. Flags
    BY Zenon DEF Init, Flags
  <1>4. NoIds \in Manifest
    BY Zenon DEF NoIds, NoId, Manifest
  <1>5. <<>> \in Seq(Chats) /\ Len(<<>>) = 0 /\ Range(<<>>) = {} /\ IsInjective(<<>>)
    BY DEF Range, IsInjective
  <1>6. Rest
    <2>1. rec \in [Chats -> [id : Nat, archived : Setting]]
      BY <1>1, Zenon DEF Setting, NoId
    <2>2. acct \in [id : Nat, pins : Seq(Chats)]
      BY <1>2, <1>5, Zenon
    <2>3. plan \in [Updates -> [archived : SUBSET Setting, pins : SUBSET Seq(Chats)]]
      BY <1>2, Zenon DEF NoPlan
    <2>4. local \in [archived : [Chats -> Setting], pins : SUBSET Chats]
      BY <1>2, Zenon DEF Setting
    <2>5. pc \in [Updates -> Pcs] /\ attempt \in [Updates -> 0..MaxAttempts]
      BY <1>2, ConstantsAssumption DEF Pcs
    <2> QED BY <1>2, <1>4, <2>1, <2>2, <2>3, <2>4, <2>5, Zenon DEF Rest
  <1>7. TypeOK
    BY <1>3, <1>6, Zenon DEF TypeOK, Flags, Rest
  <1>8. PinsLegal
    BY <1>2, <1>5, ConstantsAssumption DEF PinsLegal
  <1>9. Locked /\ Retries
    BY <1>2, ConstantsAssumption DEF Locked, Retries, Busy
  <1>10. Versions
    BY <1>2, <1>7, NoIdsVersion DEF Versions
  <1>11. Fresh /\ Recording
    BY <1>2, Zenon DEF Fresh, Recording
  <1>12. Known
    <2>1. local.pins = Range(acct.pins)
      BY <1>2, <1>5, Zenon
    <2>2. \A c \in Chats : local.archived[c] = rec[c].archived
      BY <1>1, <1>2, Zenon
    <2> QED BY <2>1, <2>2, Zenon DEF Known, PinsKnown, ChatKnown
  <1> QED BY <1>7, <1>8, <1>9, <1>10, <1>11, <1>12, Zenon DEF IInv

\* Every step keeps the invariant.
LEMMA NextIInv == IInv /\ [Next]_vars => IInv'
  <1> SUFFICES ASSUME IInv, [Next]_vars PROVE IInv'
    OBVIOUS
  <1>1. TypeOK /\ PinsLegal /\ Locked /\ Retries /\ Versions /\ Fresh /\ Recording /\ Known
    BY Zenon DEF IInv
  <1>2. TypeOK'
    <2>1. Flags' /\ Rest'
      BY <1>1, FlagsKept, RestKept, Zenon
    <2> QED BY <2>1, Zenon DEF TypeOK, Flags, Rest
  <1>3. PinsLegal' /\ Locked' /\ Retries'
    BY <1>1, PinsLegalKept, LockedKept, RetriesKept, Zenon
  <1>4. Versions' /\ Fresh'
    BY <1>1, VersionsKept, FreshKept, Zenon
  <1>5. Recording' /\ Known'
    BY <1>1, RecordingKept, KnownKept, Zenon
  <1> QED BY <1>2, <1>3, <1>4, <1>5, Zenon DEF IInv

\* The invariant holds always.
LEMMA Inductive == Spec => []IInv
  BY InitIInv, NextIInv, PTL DEF Spec

\* TypeOK: modifyStorage tries at most maxStorageWriteRetries times, the lock has one holder, and a
\* write holds nothing but settings and lists of chats.
THEOREM StorageTypes == Spec => []TypeOK
  <1>1. IInv => TypeOK
    BY Zenon DEF IInv
  <1> QED BY <1>1, Inductive, PTL

\* PinsLegal: whatever other devices pin between the read and the write of applyPinChange, the list
\* of pinned chats never gets longer than MaxPinnedChats and never lists a chat twice.
THEOREM PinsStayLegal == Spec => []PinsLegal
  <1>1. IInv => PinsLegal
    BY Zenon DEF IInv
  <1> QED BY <1>1, Inductive, PTL

\* NoChangeMissed: the flag of QueueStorageSync is cleared before the manifest is read, so a notice it
\* absorbs is always followed by a read: when nothing is on its way and no request has failed, the bridge
\* knows the settings of the server.
THEOREM ChangesReachTheBridge == Spec => []NoChangeMissed
  <1>1. IInv => NoChangeMissed
    BY DEF IInv, Known, PinsKnown, ChatKnown, Coming, NoChangeMissed
  <1> QED BY <1>1, Inductive, PTL

\* An accepted write changes the settings it was asked to change, and no others.
LEMMA WriteIsItsChange ==
  ASSUME IInv, NEW u \in Updates, pc[u] = "write", Accepts(u), ApplyWrite(u)
  PROVE  /\ \A c \in Chats : rec'[c] # rec[c] =>
               /\ c = change[u].chat
               /\ rec'[c].archived = Chosen(change[u].archived, rec[c].archived)
         /\ \A c \in Chats : c # change[u].chat => (Pinned(acct'.pins, c) <=> Pinned(acct.pins, c))
  <1>0. TypeOK /\ PinsLegal /\ Fresh /\ rec \in [Chats -> [id : Nat, archived : Setting]]
        /\ change[u].chat \in Chats
    BY Zenon DEF IInv, TypeOK, Change
  <1>1. \/ rec' = rec
        \/ \E new \in Setting :
              /\ rec' = [rec EXCEPT ![change[u].chat] = [id |-> version + 1, archived |-> new]]
              /\ new = Chosen(change[u].archived, rec[change[u].chat].archived)
    BY <1>0, WriteEffect, Zenon
  <1>2. \/ acct' = acct
        \/ \E new : /\ acct' = [id |-> version + 1, pins |-> new]
                    /\ \A c \in Chats : c # change[u].chat => (Pinned(new, c) <=> Pinned(acct.pins, c))
    BY <1>0, WriteEffect, Zenon
  <1>3. ASSUME NEW c \in Chats, rec'[c] # rec[c]
        PROVE  c = change[u].chat /\ rec'[c].archived = Chosen(change[u].archived, rec[c].archived)
    <2>1. PICK new \in Setting :
              /\ rec' = [rec EXCEPT ![change[u].chat] = [id |-> version + 1, archived |-> new]]
              /\ new = Chosen(change[u].archived, rec[change[u].chat].archived)
      BY <1>1, <1>3, Zenon
    <2>2. c = change[u].chat
      BY <1>0, <1>3, <2>1, Zenon
    <2>3. rec'[c].archived = new
      BY <1>0, <2>1, <2>2, Zenon
    <2> QED BY <2>1, <2>2, <2>3, Zenon
  <1>4. ASSUME NEW c \in Chats, c # change[u].chat
        PROVE  Pinned(acct'.pins, c) <=> Pinned(acct.pins, c)
    BY <1>2, <1>4
  <1> QED BY <1>3, <1>4, Zenon

\* The writer is the update that holds the lock, and it is accepted.
LEMMA WriterIsAccepted ==
  ASSUME IInv, [Next]_vars, NEW u \in Updates, pc[u] = "write", version' # version, UNCHANGED notices
  PROVE  Accepts(u) /\ ApplyWrite(u)
  <1>0. TypeOK /\ PinsLegal /\ Fresh /\ notices \in Nat
    BY Zenon DEF IInv, TypeOK
  <1>1. \A v \in Updates : pc[v] = "write" => v = u
    BY ConstantsAssumption, Zenon DEF IInv, Locked, Busy
  <1> USE DEF server
  <1>2. CASE OtherDeviceWrites
    BY <1>0, <1>2 DEF OtherDeviceWrites
  <1>3. CASE ReceiveNotice \/ Sync \/ UNCHANGED vars
    BY <1>3, Zenon
    DEF ReceiveNotice, Sync, SyncLocks, SyncFetchesManifest, SyncProcesses, SyncFails, vars
  <1>4. ASSUME NEW v \in Updates, Update(v) PROVE Accepts(u) /\ ApplyWrite(u)
    <2>1. UpdateReadsRecords(v) => UNCHANGED version
      BY <1>0, ReadsRecords, Zenon
    <2>2. CASE WriteSucceeds(v)
      BY <1>1, <2>2, Zenon DEF WriteSucceeds
    <2>3. CASE UpdateFails(v)
      BY <1>1, <2>3, Zenon DEF UpdateFails
    <2> QED BY <1>4, <2>1, <2>2, <2>3, Zenon
            DEF Update, UpdateLocks, UpdateFetchesManifest, WriteConflicts, UpdateProcesses
  <1> QED BY <1>2, <1>3, <1>4, Zenon DEF Next

\* WriteTouchesOnlyItsChange: a write of modifyStorage changes only the fields and the chat it was asked
\* to change, and undoes nothing that another device wrote since the bridge read the manifest.
THEOREM WritesTouchTheirChange == Spec => WriteTouchesOnlyItsChange
  <1>1. ASSUME IInv, [Next]_vars
        PROVE  [\A u \in Updates :
                  LET ch == change[u] IN
                  pc[u] = "write" /\ version' # version /\ UNCHANGED notices =>
                    /\ \A c \in Chats : rec'[c] # rec[c] =>
                          /\ c = ch.chat
                          /\ rec'[c].archived = Chosen(ch.archived, rec[c].archived)
                    /\ \A c \in Chats : c # ch.chat =>
                          (Pinned(acct'.pins, c) <=> Pinned(acct.pins, c))]_vars
    BY <1>1, WriterIsAccepted, WriteIsItsChange, Zenon
  <1> QED BY <1>1, Inductive, PTL DEF Spec, WriteTouchesOnlyItsChange

-----------------------------------------------------------------------------
(* Updates are atomic.                                                     *)

\* The new list of pins has the chat of the change as it was asked for, and the others as they were.
LEMMA PinEditChosen ==
  ASSUME NEW ch \in Change, NEW pins \in Seq(Chats), IsInjective(pins), ch.pinned # "keep"
  PROVE  /\ PinEdit(ch, pins) = {} => OnOff(Pinned(pins, ch.chat)) = ch.pinned
         /\ PinEdit(ch, pins) # {} =>
               \E new : /\ PinEdit(ch, pins) = {new}
                        /\ OnOff(Pinned(new, ch.chat)) = ch.pinned
                        /\ \A c \in Chats : c # ch.chat => (Pinned(new, c) <=> Pinned(pins, c))
  <1>1. ch.pinned \in {"on", "off"} /\ ch.chat \in Chats
    BY Zenon DEF Change, Choice, Setting
  <1>2. CASE ch.pinned = "off" /\ Pinned(pins, ch.chat)
    <2>1. PinEdit(ch, pins) = {Kept(pins, ch.chat)}
      BY <1>2, Zenon DEF PinEdit, Chosen, OnOff
    <2>2. \A c : Pinned(Kept(pins, ch.chat), c) <=> Pinned(pins, c) /\ c # ch.chat
      BY <1>2, KeptProperties, Zenon
    <2>3. PinEdit(ch, pins) # {}
      BY <2>1, Zenon
    <2> QED BY <1>2, <2>1, <2>2, <2>3, Zenon DEF OnOff
  <1>3. CASE ch.pinned = "on" /\ ~Pinned(pins, ch.chat)
    <2>1. PinEdit(ch, pins) = {Append(pins, ch.chat)}
      BY <1>3, Zenon DEF PinEdit, Chosen, OnOff
    <2>2. \A c : Pinned(Append(pins, ch.chat), c) <=> Pinned(pins, c) \/ c = ch.chat
      BY <1>1, <1>3, AppendPins, Zenon
    <2>3. PinEdit(ch, pins) # {}
      BY <2>1, Zenon
    <2> QED BY <1>3, <2>1, <2>2, <2>3, Zenon DEF OnOff
  <1>4. CASE ch.pinned = OnOff(Pinned(pins, ch.chat))
    BY <1>4, Zenon DEF PinEdit, Chosen, OnOff
  <1> QED BY <1>1, <1>2, <1>3, <1>4, Zenon DEF OnOff

\* A change made to the settings on the server: its chat gets what was chosen, nothing else changes.
Made(ch) ==
    /\ rec'[ch.chat].archived = Chosen(ch.archived, rec[ch.chat].archived)
    /\ \A c \in Chats : c # ch.chat => rec'[c].archived = rec[c].archived
    /\ OnOff(Pinned(acct'.pins, ch.chat)) = Chosen(ch.pinned, OnOff(Pinned(acct.pins, ch.chat)))
    /\ \A c \in Chats : c # ch.chat => (Pinned(acct'.pins, c) <=> Pinned(acct.pins, c))

\* A write that is accepted makes the whole change.
LEMMA WriteMakesChange ==
  ASSUME TypeOK, PinsLegal, Fresh, NEW u \in Updates, pc[u] = "write", Accepts(u), ApplyWrite(u)
  PROVE  Made(change[u])
  <1> DEFINE ch == change[u]
  <1>1. /\ ch \in Change /\ ch.chat \in Chats /\ acct.pins \in Seq(Chats) /\ IsInjective(acct.pins)
        /\ rec[ch.chat].archived \in Setting
        /\ rec \in [Chats -> [id : Nat, archived : Setting]]
    BY Zenon DEF TypeOK, PinsLegal, Change
  <1>2. plan[u] = Edits(ch, rec[ch.chat].archived, acct.pins)
    BY Zenon DEF Fresh
  <1>3. /\ rec' = IF plan[u].archived = {} THEN rec
                  ELSE [rec EXCEPT ![ch.chat] = [id |-> version + 1, archived |-> Only(plan[u].archived)]]
        /\ acct' = IF plan[u].pins = {} THEN acct
                   ELSE [id |-> version + 1, pins |-> Only(plan[u].pins)]
    BY Zenon DEF ApplyWrite
  <1>4. /\ plan[u].archived = IF ch.archived = "keep" THEN {} ELSE ChatEdit(ch, rec[ch.chat].archived)
        /\ plan[u].pins = IF ch.pinned = "keep" THEN {} ELSE PinEdit(ch, acct.pins)
    BY <1>2 DEF Edits
  <1> HIDE DEF ch
  <1>5. /\ rec'[ch.chat].archived = Chosen(ch.archived, rec[ch.chat].archived)
        /\ \A c \in Chats : c # ch.chat => rec'[c].archived = rec[c].archived
    <2>1. CASE plan[u].archived = {}
      <3>1. Chosen(ch.archived, rec[ch.chat].archived) = rec[ch.chat].archived
        BY <1>4, <2>1, Zenon DEF ChatEdit, Chosen
      <3> QED BY <1>3, <2>1, <3>1, Zenon
    <2>2. CASE plan[u].archived # {}
      <3>1. PICK new \in Setting : plan[u].archived = {new} /\ new = Chosen(ch.archived, rec[ch.chat].archived)
        BY <1>1, <1>4, <2>2, ChatEditChosen, Zenon
      <3>2. rec' = [rec EXCEPT ![ch.chat] = [id |-> version + 1, archived |-> new]]
        BY <1>3, <2>2, <3>1, OnlyOne, Zenon
      <3>3. /\ rec'[ch.chat] = [id |-> version + 1, archived |-> new]
            /\ \A c \in Chats : c # ch.chat => rec'[c] = rec[c]
        BY <1>1, <3>2, Zenon
      <3>4. rec'[ch.chat].archived = new
        BY <3>3
      <3>5. \A c \in Chats : c # ch.chat => rec'[c].archived = rec[c].archived
        BY <3>3, Zenon
      <3> QED BY <3>1, <3>4, <3>5, Zenon
    <2> QED BY <2>1, <2>2, Zenon
  <1>6. /\ OnOff(Pinned(acct'.pins, ch.chat)) = Chosen(ch.pinned, OnOff(Pinned(acct.pins, ch.chat)))
        /\ \A c \in Chats : c # ch.chat => (Pinned(acct'.pins, c) <=> Pinned(acct.pins, c))
    <2>1. CASE ch.pinned = "keep"
      BY <1>3, <1>4, <2>1, Zenon DEF Chosen
    <2>2. CASE ch.pinned # "keep" /\ plan[u].pins = {}
      <3>1. PinEdit(ch, acct.pins) = {}
        BY <1>4, <2>2, Zenon
      <3>2. OnOff(Pinned(acct.pins, ch.chat)) = ch.pinned
        BY <1>1, <2>2, <3>1, PinEditChosen, Zenon
      <3> QED BY <1>3, <2>2, <3>2, Zenon DEF Chosen
    <2>3. CASE ch.pinned # "keep" /\ plan[u].pins # {}
      <3>1. plan[u].pins = PinEdit(ch, acct.pins) /\ PinEdit(ch, acct.pins) # {}
        BY <1>4, <2>3, Zenon
      <3>2. PICK new : /\ PinEdit(ch, acct.pins) = {new}
                       /\ OnOff(Pinned(new, ch.chat)) = ch.pinned
                       /\ \A c \in Chats : c # ch.chat => (Pinned(new, c) <=> Pinned(acct.pins, c))
        BY <1>1, <2>3, <3>1, PinEditChosen, Zenon
      <3>3. acct' = [id |-> version + 1, pins |-> new]
        BY <1>3, <2>3, <3>1, <3>2, OnlyOne, Zenon
      <3>4. acct'.pins = new
        BY <3>3, Zenon
      <3> QED BY <2>3, <3>2, <3>4, Zenon DEF Chosen
    <2> QED BY <2>1, <2>2, <2>3, Zenon
  <1> QED BY <1>5, <1>6, Zenon DEF Made, ch

\* An update that finds nothing to write has its change made already.
LEMMA NothingToMake ==
  ASSUME TypeOK, PinsLegal, NEW ch \in Change,
         Edits(ch, rec[ch.chat].archived, acct.pins) = NoPlan, UNCHANGED <<rec, acct>>
  PROVE  Made(ch)
  <1>1. /\ ch.archived # "keep" => ChatEdit(ch, rec[ch.chat].archived) = {}
        /\ ch.pinned # "keep" => PinEdit(ch, acct.pins) = {}
    <2>1. /\ Edits(ch, rec[ch.chat].archived, acct.pins).archived = {}
          /\ Edits(ch, rec[ch.chat].archived, acct.pins).pins = {}
      BY DEF NoPlan
    <2> QED BY <2>1 DEF Edits
  <1>2. acct.pins \in Seq(Chats) /\ IsInjective(acct.pins)
    BY Zenon DEF TypeOK, PinsLegal
  <1>3. Chosen(ch.archived, rec[ch.chat].archived) = rec[ch.chat].archived
    BY <1>1, Zenon DEF ChatEdit, Chosen
  <1>4. ch.pinned # "keep" => OnOff(Pinned(acct.pins, ch.chat)) = ch.pinned
    BY <1>1, <1>2, PinEditChosen, Zenon
  <1>5. Chosen(ch.pinned, OnOff(Pinned(acct.pins, ch.chat))) = OnOff(Pinned(acct.pins, ch.chat))
    BY <1>4, Zenon DEF Chosen
  <1> QED BY <1>3, <1>5, Zenon DEF Made

\* Another device makes one change.
LEMMA OtherMakesChange ==
  ASSUME TypeOK, PinsLegal, OtherDeviceWrites
  PROVE  \E ch \in Change : Made(ch)
  <1>1. /\ acct.pins \in Seq(Chats) /\ IsInjective(acct.pins)
        /\ rec \in [Chats -> [id : Nat, archived : Setting]]
    BY Zenon DEF TypeOK, PinsLegal
  <1>2. ASSUME NEW c \in Chats, UNCHANGED acct,
               rec' = [rec EXCEPT ![c] = [id |-> version + 1, archived |-> Flipped(@.archived)]]
        PROVE  \E ch \in Change : Made(ch)
    <2> DEFINE new == Flipped(rec[c].archived)
               ch == [chat |-> c, archived |-> new, pinned |-> "keep"]
    <2>1. new \in Setting /\ new # "keep"
      BY Zenon DEF Flipped, Setting
    <2>2. /\ rec'[c] = [id |-> version + 1, archived |-> new]
          /\ \A d \in Chats : d # c => rec'[d] = rec[d]
      BY <1>1, <1>2, Zenon
    <2> HIDE DEF new
    <2>3. ch \in Change /\ ch.chat = c /\ ch.archived = new /\ ch.pinned = "keep"
      BY <2>1, Zenon DEF Change, Choice
    <2> HIDE DEF ch
    <2>4. rec'[c].archived = new /\ \A d \in Chats : d # c => rec'[d].archived = rec[d].archived
      BY <2>2
    <2>5. Made(ch)
      BY <1>2, <2>1, <2>3, <2>4, Zenon DEF Made, Chosen
    <2> QED BY <2>3, <2>5, Zenon
  <1>3. ASSUME NEW c \in Chats, UNCHANGED rec, NEW new, NEW choice \in Setting,
               acct'.pins = new, OnOff(Pinned(new, c)) = choice,
               \A d \in Chats : d # c => (Pinned(new, d) <=> Pinned(acct.pins, d))
        PROVE  \E ch \in Change : Made(ch)
    <2> DEFINE ch == [chat |-> c, archived |-> "keep", pinned |-> choice]
    <2>1. choice # "keep"
      BY Zenon DEF Setting
    <2>3. ch \in Change /\ ch.chat = c /\ ch.archived = "keep" /\ ch.pinned = choice
      BY <2>1, Zenon DEF Change, Choice
    <2> HIDE DEF ch
    <2>4. Made(ch)
      BY <1>3, <2>1, <2>3, Zenon DEF Made, Chosen
    <2> QED BY <2>3, <2>4, Zenon
  <1>4. ASSUME NEW c \in Chats, UNCHANGED rec, ~Pinned(acct.pins, c),
               acct' = [id |-> version + 1, pins |-> Append(acct.pins, c)]
        PROVE  \E ch \in Change : Made(ch)
    <2>1. \A d : Pinned(Append(acct.pins, c), d) <=> Pinned(acct.pins, d) \/ d = c
      BY <1>1, <1>4, AppendPins, Zenon
    <2>2. acct'.pins = Append(acct.pins, c)
      BY <1>4, Zenon
    <2>3. OnOff(Pinned(Append(acct.pins, c), c)) = "on" /\ "on" \in Setting
      BY <2>1, Zenon DEF OnOff, Setting
    <2> QED BY <1>3, <1>4, <2>1, <2>2, <2>3, Zenon
  <1>5. ASSUME NEW c \in Chats, UNCHANGED rec, Pinned(acct.pins, c),
               acct' = [id |-> version + 1, pins |-> Kept(acct.pins, c)]
        PROVE  \E ch \in Change : Made(ch)
    <2>1. \A d : Pinned(Kept(acct.pins, c), d) <=> Pinned(acct.pins, d) /\ d # c
      BY <1>1, <1>5, KeptProperties, Zenon
    <2>2. acct'.pins = Kept(acct.pins, c)
      BY <1>5, Zenon
    <2>3. OnOff(Pinned(Kept(acct.pins, c), c)) = "off" /\ "off" \in Setting
      BY <2>1, Zenon DEF OnOff, Setting
    <2> QED BY <1>3, <1>5, <2>1, <2>2, <2>3, Zenon
  <1> QED BY <1>2, <1>4, <1>5, Zenon DEF OtherDeviceWrites

\* The abstract change of AtomicUpdates is the change of the settings on the server.
LEMMA MadeIsApply ==
  ASSUME TypeOK, NEW ch \in Change, Made(ch)
  PROVE  Atomic!Apply(ch)
  <1> DEFINE arch == [c \in Chats |-> rec[c].archived]
             pin == [c \in Chats |-> OnOff(Pinned(acct.pins, c))]
  <1>1. ch.chat \in Chats
    BY Zenon DEF Change
  <1>2. arch' = [arch EXCEPT ![ch.chat] = Atomic!Chosen(ch.archived, arch[ch.chat])]
    <2>1. \A c \in Chats :
             rec'[c].archived = [arch EXCEPT ![ch.chat] = Atomic!Chosen(ch.archived, arch[ch.chat])][c]
      BY <1>1, Zenon DEF Made, Chosen, Atomic!Chosen
    <2> QED BY <2>1, Zenon
  <1>3. pin' = [pin EXCEPT ![ch.chat] = Atomic!Chosen(ch.pinned, pin[ch.chat])]
    <2>1. \A c \in Chats :
             OnOff(Pinned(acct'.pins, c)) = [pin EXCEPT ![ch.chat] = Atomic!Chosen(ch.pinned, pin[ch.chat])][c]
      BY <1>1, Zenon DEF Made, Chosen, Atomic!Chosen, OnOff
    <2> QED BY <2>1, Zenon
  <1> QED BY <1>2, <1>3, Zenon DEF Atomic!Apply

\* The same for the change of an update.
LEMMA UpdateApplies ==
  ASSUME TypeOK, NEW u \in Updates, Made(change[u])
  PROVE  Atomic!Apply(change[u])
  <1>1. PICK ch \in Change : ch = change[u]
    BY Zenon DEF TypeOK
  <1>2. Made(ch)
    BY <1>1, Zenon DEF Made
  <1>3. Atomic!Apply(ch)
    BY <1>2, MadeIsApply, Zenon
  <1> QED BY <1>1, <1>3, Zenon DEF Atomic!Apply

\* Both modules speak of the same changes.
LEMMA SameChange == Atomic!Change = Change
  BY DEF Atomic!Change, Atomic!Choice, Change, Choice, Setting

\* What becomes of an update that moves on.
LEMMA ResultMoves ==
  ASSUME TypeOK, NEW u \in Updates, NEW p, Goto(u, p)
  PROVE  [v \in Updates |-> Result(pc[v])]' = [[v \in Updates |-> Result(pc[v])] EXCEPT ![u] = Result(p)]
  <1>1. pc \in [Updates -> Pcs] /\ pc' = [pc EXCEPT ![u] = p]
    BY Zenon DEF TypeOK, Goto
  <1>2. \A v \in Updates : Result(pc'[v]) = [[w \in Updates |-> Result(pc[w])] EXCEPT ![u] = Result(p)][v]
    BY <1>1, Zenon
  <1> QED BY <1>2, Zenon

\* What each place in the code means for the caller.
LEMMA Results ==
  /\ \A p \in {"process", "done"} : Result(p) = "done"
  /\ \A p \in {"noRecord", "tooManyPins", "conflict"} : Result(p) = "refused"
  /\ Result("failed") = "failed"
  /\ \A p \in {"idle", "locked", "records", "write"} : Result(p) = "open"
  BY DEF Result

\* An update that moves on without a result has done nothing.
LEMMA MovesOn ==
  ASSUME TypeOK, NEW u \in Updates, NEW p, Goto(u, p), Result(p) = Result(pc[u]),
         UNCHANGED <<rec, acct, change>>
  PROVE  UNCHANGED Atomic!vars
  <1>1. [v \in Updates |-> Result(pc[v])]' = [[v \in Updates |-> Result(pc[v])] EXCEPT ![u] = Result(pc[u])]
    BY ResultMoves, Zenon
  <1>2. [[v \in Updates |-> Result(pc[v])] EXCEPT ![u] = Result(pc[u])] = [v \in Updates |-> Result(pc[v])]
    BY Zenon
  <1> QED BY <1>1, <1>2, Zenon DEF Atomic!vars

\* An update that returns answers its call.
LEMMA Answers ==
  ASSUME TypeOK, NEW u \in Updates, NEW p, Goto(u, p), Result(pc[u]) = "open", UNCHANGED change
  PROVE  Atomic!Answer(u, Result(p))
  BY ResultMoves, Zenon DEF Atomic!Answer

\* Every step is a step of AtomicUpdates or changes nothing there: the effect of an update is the one
\* step in which the server takes its write, or in which it finds nothing to write.
LEMMA NextAtomic == IInv /\ [Next]_vars => [Atomic!Next]_Atomic!vars
  <1> SUFFICES ASSUME IInv, [Next]_vars PROVE [Atomic!Next]_Atomic!vars
    OBVIOUS
  <1>0. TypeOK /\ PinsLegal /\ Fresh /\ change \in [Updates -> Change]
    BY Zenon DEF IInv, TypeOK
  <1> USE DEF server, updating
  <1>1. CASE OtherDeviceWrites
    <2>1. PICK ch \in Change : Made(ch)
      BY <1>0, <1>1, OtherMakesChange, Zenon
    <2>2. Atomic!Apply(ch) /\ ch \in Atomic!Change
      BY <1>0, <2>1, MadeIsApply, SameChange, Zenon
    <2>3. UNCHANGED <<change, pc>>
      BY <1>1, Zenon DEF OtherDeviceWrites
    <2> QED BY <2>2, <2>3, Zenon DEF Atomic!Next, Atomic!OtherDevice
  <1>2. CASE ReceiveNotice \/ Sync \/ UNCHANGED vars
    <2>1. UNCHANGED <<rec, acct, change, pc>>
      BY <1>2, Zenon
      DEF ReceiveNotice, Sync, SyncLocks, SyncFetchesManifest, SyncProcesses, SyncFails, vars
    <2> QED BY <2>1, Zenon DEF Atomic!vars
  <1>3. ASSUME NEW u \in Updates, UpdateLocks(u) \/ UpdateFetchesManifest(u)
        PROVE  UNCHANGED Atomic!vars
    <2>1. \E p \in {"locked", "records"} : Goto(u, p) /\ pc[u] \in {"idle", "locked"}
      BY <1>3, Zenon DEF UpdateLocks, UpdateFetchesManifest
    <2>2. UNCHANGED <<rec, acct, change>>
      BY <1>3, Zenon DEF UpdateLocks, UpdateFetchesManifest
    <2> QED BY <1>0, <2>1, <2>2, MovesOn, Results, Zenon
  <1>4. ASSUME NEW u \in Updates, UpdateReadsRecords(u)
        PROVE  [Atomic!Next]_Atomic!vars
    <2>1. UNCHANGED <<rec, acct, change>> /\ pc[u] = "records"
      BY <1>0, <1>4, ReadsRecords, Zenon
    <2>2. CASE Goto(u, "write")
      BY <1>0, <2>1, <2>2, MovesOn, Results, Zenon
    <2>3. ASSUME NEW p \in {"noRecord", "tooManyPins"}, Goto(u, p)
          PROVE  Atomic!Next
      <3>1. Atomic!Answer(u, "refused")
        BY <1>0, <2>1, <2>3, Answers, Results, Zenon
      <3> QED BY <2>1, <3>1, Zenon DEF Atomic!Next, Atomic!Refused
    <2>4. CASE /\ Goto(u, "done")
               /\ Edits(change[u], rec[change[u].chat].archived, acct.pins) = NoPlan
      <3>1. Atomic!Answer(u, "done")
        BY <1>0, <2>1, <2>4, Answers, Results, Zenon
      <3>2. change[u] \in Change
        BY <1>0, Zenon
      <3>3. Made(change[u])
        BY <1>0, <2>1, <2>4, <3>2, NothingToMake, Zenon
      <3>4. Atomic!Apply(change[u])
        BY <1>0, <3>3, UpdateApplies, Zenon
      <3> QED BY <3>1, <3>4, Zenon DEF Atomic!Next, Atomic!Succeeds
    <2> QED BY <1>0, <1>4, <2>2, <2>3, <2>4, ReadsRecords, Zenon DEF Return
  <1>5. ASSUME NEW u \in Updates, WriteSucceeds(u)
        PROVE  Atomic!Next
    <2>1. pc[u] = "write" /\ Accepts(u) /\ ApplyWrite(u) /\ Goto(u, "process") /\ UNCHANGED change
      BY <1>5, Zenon DEF WriteSucceeds
    <2>2. Made(change[u])
      BY <1>0, <2>1, WriteMakesChange, Zenon
    <2>3. Atomic!Apply(change[u])
      BY <1>0, <2>2, UpdateApplies, Zenon
    <2>4. Atomic!Answer(u, "done")
      BY <1>0, <2>1, Answers, Results, Zenon
    <2> QED BY <2>3, <2>4, Zenon DEF Atomic!Next, Atomic!Succeeds
  <1>6. ASSUME NEW u \in Updates, WriteConflicts(u)
        PROVE  [Atomic!Next]_Atomic!vars
    <2>1. UNCHANGED <<rec, acct, change>> /\ pc[u] = "write"
      BY <1>6, Zenon DEF WriteConflicts
    <2>2. CASE Goto(u, "locked")
      BY <1>0, <2>1, <2>2, MovesOn, Results, Zenon
    <2>3. CASE Goto(u, "conflict")
      <3>1. Atomic!Answer(u, "refused")
        BY <1>0, <2>1, <2>3, Answers, Results, Zenon
      <3> QED BY <2>1, <3>1, Zenon DEF Atomic!Next, Atomic!Refused
    <2> QED BY <1>6, <2>2, <2>3, Zenon DEF WriteConflicts, Return
  <1>7. ASSUME NEW u \in Updates, UpdateFails(u)
        PROVE  Atomic!Next
    <2>1. /\ pc[u] \in {"locked", "records", "write"} /\ Goto(u, "failed") /\ UNCHANGED change
          /\ UNCHANGED <<rec, acct>> \/ (pc[u] = "write" /\ Accepts(u) /\ ApplyWrite(u))
      BY <1>7, Zenon DEF UpdateFails, Return
    <2>2. Atomic!Answer(u, "failed")
      BY <1>0, <2>1, Answers, Results, Zenon
    <2>3. CASE UNCHANGED <<rec, acct>>
      BY <2>2, <2>3, Zenon DEF Atomic!Next, Atomic!Fails
    <2>4. CASE pc[u] = "write" /\ Accepts(u) /\ ApplyWrite(u)
      <3>1. Made(change[u])
        BY <1>0, <2>4, WriteMakesChange, Zenon
      <3>2. Atomic!Apply(change[u])
        BY <1>0, <3>1, UpdateApplies, Zenon
      <3> QED BY <2>2, <3>2, Zenon DEF Atomic!Next, Atomic!Fails
    <2> QED BY <2>1, <2>3, <2>4, Zenon
  <1>8. ASSUME NEW u \in Updates, UpdateProcesses(u)
        PROVE  UNCHANGED Atomic!vars
    <2>1. UNCHANGED <<rec, acct, change>> /\ pc[u] = "process" /\ Goto(u, "done")
      BY <1>8, Zenon DEF UpdateProcesses, Return
    <2> QED BY <1>0, <2>1, MovesOn, Results, Zenon
  <1> QED BY <1>1, <1>2, <1>3, <1>4, <1>5, <1>6, <1>7, <1>8, Zenon DEF Next, Update

\* So is the start.
LEMMA InitAtomic == Init => Atomic!Init
  <1> SUFFICES ASSUME Init PROVE Atomic!Init
    OBVIOUS
  <1>1. \A c \in Chats : rec[c].archived = "off"
    BY DEF Init
  <1>2. \A c \in Chats : OnOff(Pinned(acct.pins, c)) = "off"
    <2>1. acct.pins = <<>>
      BY Zenon DEF Init
    <2>2. \A c : ~Pinned(<<>>, c)
      BY DEF Pinned, Range
    <2> QED BY <2>1, <2>2, Zenon DEF OnOff
  <1>3. \A u \in Updates : Result(pc[u]) = "open"
    BY Results, Zenon DEF Init
  <1>4. change \in [Updates -> Atomic!Change]
    BY SameChange, Zenon DEF Init
  <1> QED BY <1>1, <1>2, <1>3, <1>4, Zenon DEF Atomic!Init

\* AtomicSpec: UpdateChatSettings is an atomic change of the settings, however many other devices write
\* between its reads and its write and however often it starts over.  A call that returns nil has made
\* its change exactly once; one refused or out of attempts has changed nothing.
THEOREM ImplementsAtomic == Spec => AtomicSpec
  BY InitAtomic, NextAtomic, Inductive, PTL DEF Spec, AtomicSpec, Atomic!Spec
=============================================================================

--------------------------- MODULE StorageService ---------------------------
(***************************************************************************)
(* The storage service as the bridge uses it: reading it in StorageSync    *)
(* (pkg/signalmeow/storageservice.go) and changing chat settings in        *)
(* UpdateChatSettings (storagewrite.go).                                   *)
(*                                                                         *)
(* The service holds a manifest with a version and the ids of encrypted    *)
(* records: one per contact or group, and the account record with the      *)
(* pinned chats.  A record is never changed in place: a write deletes its  *)
(* id, inserts a new one and must carry the next version.  Other devices   *)
(* of the user write too, and send a notice afterwards.                    *)
(***************************************************************************)
EXTENDS Integers, Sequences, FiniteSets, Functions

CONSTANTS
    Chats,
    Updates,      \* UpdateChatSettings calls, each made once
    MaxPins,      \* MaxPinnedChats
    MaxAttempts,  \* maxStorageWriteRetries
    MaxVersion,   \* bound on what other devices write
    Faults        \* whether requests to the service may fail

ASSUME ConstantsAssumption ==
    /\ IsFiniteSet(Chats)
    /\ Updates \cap {"free", "sync"} = {}
    /\ MaxPins \in Nat \ {0}
    /\ MaxAttempts \in Nat \ {0}
    /\ MaxVersion \in Nat
    /\ Faults \in BOOLEAN

\* ChatSettingsChange: nil fields are "keep".
Setting == {"on", "off"}
Choice == Setting \cup {"keep"}
Change == [chat : Chats, archived : Choice, pinned : Choice]
Chosen(choice, old) == IF choice = "keep" THEN old ELSE choice
Flipped(setting) == IF setting = "on" THEN "off" ELSE "on"

OnOff(cond) == IF cond THEN "on" ELSE "off"

NoId == 0   \* the chat has no record
Only(set) == CHOOSE x \in set : TRUE
Pinned(pins, chat) == chat \in Range(pins)

VARIABLES
    version,   \* of the manifest on the server
    rec,       \* the record of each chat: its id and whether it is archived
    acct,      \* the account record: its id and the pinned chats
    notices,   \* FetchLatest notices of other devices on their way
    queued,    \* storageSyncQueued: a sync waits for the lock
    lock,      \* storageSyncLock: "free", "sync" or the update that holds it
    syncPc, syncIds,   \* the sync that holds the lock, and its manifest
    pc, change, attempt, base, plan,   \* each update
    local,     \* chatSettings and chatPinned
    faulty     \* a request has failed

server == <<version, rec, acct>>
syncing == <<syncPc, syncIds>>
updating == <<pc, change, attempt, base, plan>>
vars == <<server, notices, queued, lock, syncing, updating, local, faulty>>

Manifest == [version : Nat, recs : [Chats -> Nat], acct : Nat]
Ids(v, r, a) == [version |-> v, recs |-> [c \in Chats |-> r[c].id], acct |-> a.id]
NoIds == [version |-> 0, recs |-> [c \in Chats |-> NoId], acct |-> NoId]
NoPlan == [archived |-> {}, pins |-> {}]

Pcs == {"idle", "locked", "records", "write", "process", "done", "failed",
        "noRecord", "tooManyPins", "conflict"}

TypeOK ==
    /\ version \in Nat
    /\ rec \in [Chats -> [id : Nat, archived : Setting]]
    /\ acct \in [id : Nat, pins : Seq(Chats)]
    /\ notices \in Nat
    /\ queued \in BOOLEAN
    /\ lock \in {"free", "sync"} \cup Updates
    /\ syncPc \in {"idle", "manifest", "records"}
    /\ syncIds \in Manifest
    /\ pc \in [Updates -> Pcs]
    /\ change \in [Updates -> Change]
    /\ attempt \in [Updates -> 0..MaxAttempts]
    /\ base \in [Updates -> Manifest]
    /\ plan \in [Updates -> [archived : SUBSET Setting, pins : SUBSET Seq(Chats)]]
    /\ local \in [archived : [Chats -> Setting], pins : SUBSET Chats]
    /\ faulty \in BOOLEAN

Init ==
    /\ version = 1
    /\ \E has \in SUBSET Chats :
          rec = [c \in Chats |-> [id |-> IF c \in has THEN 1 ELSE NoId,
                                  archived |-> "off"]]
    /\ acct = [id |-> 1, pins |-> <<>>]
    /\ notices = 0 /\ queued = FALSE /\ lock = "free"
    /\ syncPc = "idle" /\ syncIds = NoIds
    /\ pc = [u \in Updates |-> "idle"]
    /\ change \in [Updates -> Change]
    /\ attempt = [u \in Updates |-> 0]
    /\ base = [u \in Updates |-> NoIds]
    /\ plan = [u \in Updates |-> NoPlan]
    /\ local = [archived |-> [c \in Chats |-> "off"], pins |-> {}]
    /\ faulty = FALSE

-----------------------------------------------------------------------------
(* Other devices.                                                          *)

\* The loop of applyPinChange: the pins that are not of the chat, in order.
Kept(pins, chat) ==
    LET kept[i \in 0..Len(pins)] ==
            IF i = 0 THEN <<>>
            ELSE IF pins[i] = chat THEN kept[i - 1]
            ELSE Append(kept[i - 1], pins[i])
    IN kept[Len(pins)]

\* Another device archives or pins a chat.  It obeys the limit on pins.
OtherDeviceWrites ==
    /\ version < MaxVersion
    /\ version' = version + 1
    /\ notices' = notices + 1
    /\ \/ \E c \in Chats :
             /\ rec[c].id # NoId
             /\ rec' = [rec EXCEPT ![c] = [id |-> version + 1, archived |-> Flipped(@.archived)]]
             /\ UNCHANGED acct
       \/ \E c \in Chats :
             /\ \/ ~Pinned(acct.pins, c) /\ Len(acct.pins) < MaxPins
                   /\ acct' = [id |-> version + 1, pins |-> Append(acct.pins, c)]
                \/ Pinned(acct.pins, c)
                   /\ acct' = [id |-> version + 1, pins |-> Kept(acct.pins, c)]
             /\ UNCHANGED rec
    /\ UNCHANGED <<queued, lock, syncing, updating, local, faulty>>

-----------------------------------------------------------------------------
(* StorageSync.                                                            *)

\* Broken variant: a sync that is already reading is trusted to see the change.
ReceiveNoticeTrustingSync ==
    /\ notices > 0
    /\ notices' = notices - 1
    /\ queued' = (queued \/ lock # "sync")
    /\ UNCHANGED <<server, lock, syncing, updating, local, faulty>>

\* handleSyncMessage, FetchLatest: QueueStorageSync starts a goroutine unless
\* one is already waiting for the lock.
ReceiveNotice ==
    /\ notices > 0
    /\ notices' = notices - 1
    /\ queued' = TRUE
    /\ UNCHANGED <<server, lock, syncing, updating, local, faulty>>

\* storageSyncLock.Lock(); storageSyncQueued.Store(false)
SyncLocks ==
    /\ queued
    /\ lock = "free"
    /\ lock' = "sync"
    /\ queued' = FALSE
    /\ syncPc' = "manifest"
    /\ UNCHANGED <<server, notices, syncIds, updating, local, faulty>>

SyncFetchesManifest ==
    /\ syncPc = "manifest"
    /\ syncPc' = "records"
    /\ syncIds' = Ids(version, rec, acct)
    /\ UNCHANGED <<server, notices, queued, lock, updating, local, faulty>>

\* fetchStorageRecords: an id that another device has replaced meanwhile is
\* reported as missing and left out.
Fetched(ids) ==
    [archived |-> [c \in Chats |-> IF ids.recs[c] # NoId /\ rec[c].id = ids.recs[c]
                                   THEN {rec[c].archived} ELSE {}],
     pins |-> IF acct.id = ids.acct THEN {acct.pins} ELSE {}]

\* processStorageInTxn: recordChatSettings and recordPinnedChats for the records
\* at hand.
Recorded(got) ==
    [archived |-> [c \in Chats |-> IF got.archived[c] = {} THEN local.archived[c]
                                   ELSE Only(got.archived[c])],
     pins |-> IF got.pins = {} THEN local.pins ELSE Range(Only(got.pins))]

\* The transaction fails on the way: what was recorded before stays in memory.
Parts(got) ==
    {[archived |-> [c \in Chats |-> IF c \in some THEN got.archived[c] ELSE {}],
      pins |-> pins] : some \in SUBSET Chats, pins \in {{}, got.pins}}

\* FetchStorage returns and its records are processed.
SyncProcesses ==
    /\ syncPc = "records"
    /\ local' = Recorded(Fetched(syncIds))
    /\ syncPc' = "idle" /\ syncIds' = NoIds
    /\ lock' = "free"
    /\ UNCHANGED <<server, notices, queued, updating, faulty>>

\* Broken variant: the lock is not released on the way out.
SyncFailsLocked ==
    /\ Faults
    /\ syncPc # "idle"
    /\ syncPc' = "idle" /\ syncIds' = NoIds
    /\ faulty' = TRUE
    /\ UNCHANGED <<server, notices, queued, lock, updating, local>>

\* A request or the transaction fails: the sync is given up and not tried again.
SyncFails ==
    /\ Faults
    /\ syncPc # "idle"
    /\ \E got \in Parts(Fetched(syncIds)) : local' = Recorded(got)
    /\ syncPc' = "idle" /\ syncIds' = NoIds
    /\ lock' = "free"
    /\ faulty' = TRUE
    /\ UNCHANGED <<server, notices, queued, updating>>

-----------------------------------------------------------------------------
(* UpdateChatSettings: modifyStorage, then its own write is processed.      *)

Goto(u, p) == pc' = [pc EXCEPT ![u] = p]

\* An update is over: its result is kept, what it had read is dropped.
Return(u, result) ==
    /\ Goto(u, result)
    /\ lock' = "free"
    /\ base' = [base EXCEPT ![u] = NoIds]
    /\ plan' = [plan EXCEPT ![u] = NoPlan]

UpdateLocks(u) ==
    /\ pc[u] = "idle"
    /\ lock = "free"
    /\ lock' = u
    /\ Goto(u, "locked")
    /\ UNCHANGED <<server, notices, queued, syncing, change, attempt, base,
                   plan, local, faulty>>

UpdateFetchesManifest(u) ==
    /\ pc[u] = "locked"
    /\ base' = [base EXCEPT ![u] = Ids(version, rec, acct)]
    /\ Goto(u, "records")
    /\ UNCHANGED <<server, notices, queued, lock, syncing, change, attempt,
                   plan, local, faulty>>

\* applyChatFields: the new value of the chat record, if it changes.
ChatEdit(ch, old) ==
    IF Chosen(ch.archived, old) = old THEN {} ELSE {Flipped(old)}

\* Broken variant: the limit is off by one.
PinsFullLate(pins) == Len(pins) > MaxPins

PinsFull(pins) == Len(pins) >= MaxPins

\* applyPinChange: the new list of pins, if it changes.
PinEdit(ch, pins) ==
    LET isPinned == OnOff(Pinned(pins, ch.chat)) IN
    IF Chosen(ch.pinned, isPinned) = isPinned THEN {}
    ELSE IF isPinned = "on" THEN {Kept(pins, ch.chat)}
    ELSE {Append(pins, ch.chat)}

\* fetchRecords, then mutate = applyChatSettingsChange: an error, nothing to
\* do, or the edits to write.
UpdateReadsRecords(u) ==
    LET ch == change[u]
        got == Fetched(base[u])
        chat == got.archived[ch.chat]
        noRecord == \/ ch.archived # "keep" /\ chat = {}
                    \/ ch.pinned # "keep" /\ got.pins = {}
        tooMany == /\ ch.pinned = "on"
                   /\ ~Pinned(Only(got.pins), ch.chat)
                   /\ PinsFull(Only(got.pins))
        edits == [archived |-> IF ch.archived = "keep" THEN {}
                               ELSE ChatEdit(ch, Only(chat)),
                  pins |-> IF ch.pinned = "keep" THEN {}
                           ELSE PinEdit(ch, Only(got.pins))]
    IN
    /\ pc[u] = "records"
    /\ \/ noRecord /\ Return(u, "noRecord")
       \/ ~noRecord /\ tooMany /\ Return(u, "tooManyPins")
       \/ ~noRecord /\ ~tooMany /\ edits = NoPlan /\ Return(u, "done")
       \/ /\ ~noRecord /\ ~tooMany /\ edits # NoPlan
          /\ plan' = [plan EXCEPT ![u] = edits]
          /\ Goto(u, "write")
          /\ UNCHANGED <<lock, base>>
    /\ UNCHANGED <<server, notices, queued, syncing, change, attempt, local,
                   faulty>>

\* buildStorageWrite: version + 1, the edited ids swapped, nothing else.
ApplyWrite(u) ==
    LET new == version + 1 IN
    /\ version' = new
    /\ rec' = IF plan[u].archived = {} THEN rec
              ELSE [rec EXCEPT ![change[u].chat] =
                       [id |-> new, archived |-> Only(plan[u].archived)]]
    /\ acct' = IF plan[u].pins = {} THEN acct
               ELSE [id |-> new, pins |-> Only(plan[u].pins)]

\* The server takes the write if it carries the version after its own.
Accepts(u) == base[u].version = version

WriteSucceeds(u) ==
    /\ pc[u] = "write"
    /\ Accepts(u)
    /\ ApplyWrite(u)
    /\ Goto(u, "process")
    /\ UNCHANGED <<notices, queued, lock, syncing, change, attempt, base, plan,
                   local, faulty>>

\* Broken variant: one attempt too many.
WriteConflictsOnceMore(u) ==
    /\ pc[u] = "write"
    /\ ~Accepts(u)
    /\ attempt' = [attempt EXCEPT ![u] = @ + 1]
    /\ \/ /\ attempt[u] + 1 <= MaxAttempts
          /\ Goto(u, "locked")
          /\ base' = [base EXCEPT ![u] = NoIds]
          /\ plan' = [plan EXCEPT ![u] = NoPlan]
          /\ UNCHANGED lock
       \/ /\ attempt[u] + 1 > MaxAttempts
          /\ Return(u, "conflict")
    /\ UNCHANGED <<server, notices, queued, syncing, change, local, faulty>>

\* Broken variant: the manifest is fetched again but the edits are kept.
WriteConflictsKeepingEdits(u) ==
    /\ pc[u] = "write"
    /\ ~Accepts(u)
    /\ base' = [base EXCEPT ![u] = Ids(version, rec, acct)]
    /\ UNCHANGED <<server, notices, queued, lock, syncing, pc, change, attempt,
                   plan, local, faulty>>

\* Broken variant: giving up is reported as success.
WriteConflictsUnnoticed(u) ==
    /\ pc[u] = "write"
    /\ ~Accepts(u)
    /\ attempt' = [attempt EXCEPT ![u] = @ + 1]
    /\ \/ /\ attempt[u] + 1 < MaxAttempts
          /\ Goto(u, "locked")
          /\ base' = [base EXCEPT ![u] = NoIds]
          /\ plan' = [plan EXCEPT ![u] = NoPlan]
          /\ UNCHANGED lock
       \/ /\ attempt[u] + 1 >= MaxAttempts
          /\ Return(u, "done")
    /\ UNCHANGED <<server, notices, queued, syncing, change, local, faulty>>

\* 409: start over from a fresh manifest, at most maxStorageWriteRetries times.
WriteConflicts(u) ==
    /\ pc[u] = "write"
    /\ ~Accepts(u)
    /\ attempt' = [attempt EXCEPT ![u] = @ + 1]
    /\ \/ /\ attempt[u] + 1 < MaxAttempts
          /\ Goto(u, "locked")
          /\ base' = [base EXCEPT ![u] = NoIds]
          /\ plan' = [plan EXCEPT ![u] = NoPlan]
          /\ UNCHANGED lock
       \/ /\ attempt[u] + 1 >= MaxAttempts
          /\ Return(u, "conflict")
    /\ UNCHANGED <<server, notices, queued, syncing, change, local, faulty>>

\* Any request may fail; the write may have reached the server all the same.
UpdateFails(u) ==
    /\ Faults
    /\ pc[u] \in {"locked", "records", "write"}
    /\ \/ UNCHANGED server
       \/ pc[u] = "write" /\ Accepts(u) /\ ApplyWrite(u)
    /\ Return(u, "failed")
    /\ faulty' = TRUE
    /\ UNCHANGED <<notices, queued, syncing, change, attempt, local>>

\* The records just written, as processStorageInTxn is given them.
Written(u) ==
    [archived |-> [c \in Chats |-> IF c = change[u].chat THEN plan[u].archived ELSE {}],
     pins |-> plan[u].pins]

\* processStorageInTxn with them; the call succeeds even if that fails.
UpdateProcesses(u) ==
    /\ pc[u] = "process"
    /\ \/ local' = Recorded(Written(u)) /\ UNCHANGED faulty
       \/ /\ Faults /\ faulty' = TRUE
          /\ \E got \in Parts(Written(u)) : local' = Recorded(got)
    /\ Return(u, "done")
    /\ UNCHANGED <<server, notices, queued, syncing, change, attempt>>

-----------------------------------------------------------------------------
Sync == SyncLocks \/ SyncFetchesManifest \/ SyncProcesses \/ SyncFails

Update(u) ==
    \/ UpdateLocks(u) \/ UpdateFetchesManifest(u) \/ UpdateReadsRecords(u)
    \/ WriteSucceeds(u) \/ WriteConflicts(u) \/ UpdateFails(u)
    \/ UpdateProcesses(u)

Next ==
    \/ OtherDeviceWrites \/ ReceiveNotice \/ Sync
    \/ \E u \in Updates : Update(u)

Spec == Init /\ [][Next]_vars

\* Goroutines are scheduled, Go mutexes do not starve a waiter, and requests
\* are answered.
Fairness ==
    /\ WF_vars(ReceiveNotice) /\ SF_vars(Sync)
    /\ \A u \in Updates : SF_vars(Update(u))

FairSpec == Spec /\ Fairness

-----------------------------------------------------------------------------
(* Properties.                                                             *)

\* applyPinChange: the bridge never makes the list of pinned chats longer than
\* Signal allows and never lists a chat twice, although other devices pin
\* chats between its read and its write.
PinsLegal == Len(acct.pins) <= MaxPins /\ IsInjective(acct.pins)

\* modifyStorage: a write of the bridge changes only the fields it was asked
\* to change, of the chat it was asked to change, and undoes nothing another
\* device wrote since the bridge read the manifest.
WriteTouchesOnlyItsChange ==
    [][\A u \in Updates :
          LET ch == change[u] IN
          pc[u] = "write" /\ version' # version /\ UNCHANGED notices =>
              /\ \A c \in Chats : rec'[c] # rec[c] =>
                    /\ c = ch.chat
                    /\ rec'[c].archived = Chosen(ch.archived, rec[c].archived)
              /\ \A c \in Chats : c # ch.chat =>
                    (Pinned(acct'.pins, c) <=> Pinned(acct.pins, c))
      ]_vars

\* An update has had its effect once the server took its write.
Result(p) ==
    CASE p \in {"process", "done"} -> "done"
      [] p \in {"noRecord", "tooManyPins", "conflict"} -> "refused"
      [] p = "failed" -> "failed"
      [] OTHER -> "open"

Atomic == INSTANCE AtomicUpdates WITH
    archived <- [c \in Chats |-> rec[c].archived],
    pinned <- [c \in Chats |-> OnOff(Pinned(acct.pins, c))],
    result <- [u \in Updates |-> Result(pc[u])]

\* UpdateChatSettings as a whole: reading, computing and writing, with other
\* devices writing in between and with attempts that start over, is one atomic
\* change of the current settings.  A call that returns nil has made its change
\* exactly once, a call refused or out of attempts has changed nothing.
AtomicSpec == Atomic!Spec

\* QueueStorageSync, the comment "A sync that is already waiting to start will
\* see whatever change triggered this call": when no notice is on its way, no
\* sync waits or runs and no request has failed, the bridge knows what the
\* server has.
NoChangeMissed ==
    (/\ ~faulty /\ notices = 0 /\ ~queued /\ syncPc = "idle"
     /\ \A u \in Updates : pc[u] # "process") =>
        /\ local.pins = Range(acct.pins)
        /\ \A c \in Chats : rec[c].id # NoId => local.archived[c] = rec[c].archived

\* UpdateChatSettings: a call that got the lock returns, and a call waiting
\* for it gets it, however often other devices force it to start over.
UpdatesReturn ==
    \A u \in Updates : <>(pc[u] \in {"done", "failed", "noRecord", "tooManyPins", "conflict"})
=============================================================================

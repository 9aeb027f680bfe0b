------------------------------- MODULE Groups -------------------------------
(***************************************************************************)
(* One Signal group as the bridge sees it: the group on the server, the    *)
(* entry of the group cache (pkg/signalmeow/groupcache.go, groups.go) and  *)
(* the Matrix room with the revision its portal remembers                  *)
(* (pkg/connector/groupinfo.go, handlesignal.go, handlematrix.go).         *)
(*                                                                         *)
(* Every change of the group raises its revision by one.  The content of a *)
(* group, cached or shown in the room, is the set of the changes it        *)
(* reflects, each named by its revision: the group on the server at        *)
(* revision r reflects 1..r.                                               *)
(*                                                                         *)
(* The portal handles its events one at a time (the bridge framework's     *)
(* loop); the chat sync and the server run beside it.                      *)
(***************************************************************************)
EXTENDS Integers, FiniteSets

CONSTANTS MaxRevision,   \* bound on the revisions of the group
          Syncers        \* goroutines that sync the chat outside the portal's loop

ASSUME BoundAssumption == MaxRevision \in Nat

VARIABLES
  server,   \* revision of the group on the server
  own,      \* revisions made by this client
  misread,  \* own revisions that added a member the server only took as pending
  cache,    \* the group's entry in GroupCache.data, or None
  syncer,   \* what each goroutine of the chat sync is doing
  resyncs,  \* resync events in the portal's queue
  loop,     \* what the portal's event loop is doing
  portalRev, \* PortalMetadata.Revision
  room,     \* changes the Matrix room shows
  lost      \* changes the room misses for a reason named in the actions

vars == <<server, own, misread, cache, syncer, resyncs, loop, portalRev, room, lost>>
cacheVars == <<cache, syncer>>
roomVars == <<portalRev, room, lost>>
serverVars == <<server, own, misread>>

Revisions == 0..MaxRevision
None == [rev |-> -1]
Idle == [at |-> "idle"]
Snapshot(r) == [rev |-> r, has |-> 1..r]
Larger(a, b) == IF a < b THEN b ELSE a

(***************************************************************************)
(* The cache.  A goroutine of the chat sync that got the cached group      *)
(* holds a pointer to it ("shared"), until the entry is replaced.          *)
(***************************************************************************)

\* Get: an entry whose endorsements are about to expire does not count.
Hit(min) == cache # None /\ cache.fresh /\ cache.rev >= min

Reading(g, shared) == [at |-> "reading", rev |-> g.rev, has |-> g.has, shared |-> shared]
Detach(s) == IF s.at = "reading" THEN Reading(s, FALSE) ELSE s
Detached == [x \in Syncers |-> Detach(syncer[x])]

\* Delete
Evict == cache' = None /\ syncer' = Detached

\* Put: the entries it may leave.  It is skipped when the endorsements of the
\* response are unusable.
Entry(snap) == [rev |-> snap.rev, has |-> snap.has, fresh |-> TRUE]
Puts(snap) == {cache} \cup {c \in {Entry(snap)} : cache = None \/ cache.rev <= snap.rev}
Readers(c) == IF c = cache THEN syncer ELSE Detached

\* ApplyUpdate of change r.  The cached group is changed in place, also for
\* those who hold a pointer to it, and evicted if the endorsements do not
\* verify.  "right": the server did what the change says.
InPlace(s, r) ==
  IF s.at = "reading" /\ s.shared THEN Reading([rev |-> r, has |-> s.has], TRUE) ELSE s
\* Broken variant: a change is applied although earlier ones were missed.
AppliedAcrossGap(r, right, endorsed) ==
  IF cache = None \/ cache.rev >= r THEN [cache |-> cache, syncer |-> syncer]
  ELSE [cache |-> IF endorsed THEN [rev |-> r, has |-> cache.has \cup {x \in {r} : right}, fresh |-> TRUE] ELSE None,
        syncer |-> [x \in Syncers |-> InPlace(syncer[x], r)]]
\* Broken variant: the group stays when changes were missed.
AppliedKeeping(r, right, endorsed) ==
  IF cache = None \/ cache.rev # r - 1 THEN [cache |-> cache, syncer |-> syncer]
  ELSE LET readers == [x \in Syncers |-> InPlace(syncer[x], r)]
       IN IF endorsed
          THEN [cache |-> [rev |-> r, has |-> cache.has \cup {x \in {r} : right}, fresh |-> TRUE],
                syncer |-> readers]
          ELSE [cache |-> None, syncer |-> [x \in Syncers |-> Detach(readers[x])]]
Applied(r, right, endorsed) ==
  IF cache = None \/ cache.rev >= r THEN [cache |-> cache, syncer |-> syncer]
  ELSE IF cache.rev < r - 1 THEN [cache |-> None, syncer |-> Detached]
  ELSE LET readers == [x \in Syncers |-> InPlace(syncer[x], r)]
       IN IF endorsed
          THEN [cache |-> [rev |-> r, has |-> cache.has \cup {x \in {r} : right}, fresh |-> TRUE],
                syncer |-> readers]
          ELSE [cache |-> None, syncer |-> [x \in Syncers |-> Detach(readers[x])]]
ApplyUpdate(r, right, endorsed) ==
  LET res == Applied(r, right, endorsed)
  IN cache' = res.cache /\ syncer' = res.syncer

\* The changes lo..hi of a page of the history, none with endorsements: the
\* first one the cache does not have evicts it.
AppliedPage(lo, hi) ==
  IF cache = None \/ cache.rev >= hi THEN [cache |-> cache, syncer |-> syncer]
  ELSE Applied(Larger(lo, cache.rev + 1), TRUE, FALSE)

(***************************************************************************)
(* The server, other members, and time.                                    *)
(***************************************************************************)

OthersChange ==
  /\ server < MaxRevision
  /\ server' = server + 1
  /\ UNCHANGED <<own, misread, cacheVars, resyncs, loop, roomVars>>

EndorsementsExpire ==
  /\ cache # None /\ cache.fresh
  /\ cache' = [rev |-> cache.rev, has |-> cache.has, fresh |-> FALSE]
  /\ UNCHANGED <<serverVars, syncer, resyncs, loop, roomVars>>

(***************************************************************************)
(* The chat sync: RetrieveGroupByID, wrapGroupInfo, and a resync event.    *)
(***************************************************************************)

SyncRetrieves(x, min) ==
  /\ syncer[x].at = "idle" /\ resyncs = {}
  /\ syncer' = [syncer EXCEPT ![x] =
       IF Hit(min) THEN Reading(cache, TRUE)
       ELSE [at |-> "fetch"]]
  /\ UNCHANGED <<serverVars, cache, resyncs, loop, roomVars>>

SyncFetches(x) ==
  /\ syncer[x].at = "fetch"
  /\ syncer' = [syncer EXCEPT ![x] = [at |-> "fetched", snap |-> Snapshot(server)]]
  /\ UNCHANGED <<serverVars, cache, resyncs, loop, roomVars>>

SyncFails(x) ==
  /\ syncer[x].at \in {"fetch", "fetched"}
  /\ syncer' = [syncer EXCEPT ![x] = Idle]
  /\ UNCHANGED <<serverVars, cache, resyncs, loop, roomVars>>

\* parseGroupResponse; the second Get reads whatever is cached by then.
SyncStores(x) ==
  /\ syncer[x].at = "fetched"
  /\ \E c \in Puts(syncer[x].snap) :
       /\ cache' = c
       /\ syncer' = [Readers(c) EXCEPT ![x] = [at |-> "stored", snap |-> syncer[x].snap]]
  /\ UNCHANGED <<serverVars, resyncs, loop, roomVars>>

SyncGetsAgain(x) ==
  /\ syncer[x].at = "stored"
  /\ syncer' = [syncer EXCEPT ![x] =
       IF Hit(0) THEN Reading(cache, TRUE) ELSE Reading(syncer[x].snap, FALSE)]
  /\ UNCHANGED <<serverVars, cache, resyncs, loop, roomVars>>

\* wrapGroupInfo reads the members first and the revision last.
SyncQueues(x) ==
  /\ syncer[x].at = "reading"
  /\ resyncs' = resyncs \cup {[rev |-> syncer[x].rev, has |-> syncer[x].has]}
  /\ syncer' = [syncer EXCEPT ![x] = Idle]
  /\ UNCHANGED <<serverVars, cache, loop, roomVars>>

(***************************************************************************)
(* The room.  makeRevisionUpdater never lowers the portal's revision.      *)
(***************************************************************************)

\* The revision after an update of the room to revision r.
\* Broken variant: without the comparison.
RevisionUpdaterAlways(r) == r
RevisionUpdater(r) == Larger(portalRev, r)

\* portal.UpdateInfo with the full group.  A group that is older than the
\* portal's revision takes the changes since then out of the room, and one
\* that was read while it was changed in place lacks that change.
UpdateInfo(g) ==
  /\ room' = g.has
  /\ portalRev' = RevisionUpdater(g.rev)
  /\ lost' = (lost \ g.has) \cup (g.rev + 1 .. portalRev) \cup (1..g.rev \ g.has)

\* portal.ProcessChatInfoChange with the changes in "done"; those in
\* "unconverted" could not be converted.
ProcessChatInfoChanges(done, unconverted) ==
  \/ done = {} /\ UNCHANGED roomVars
  \/ \E last \in done :
       /\ \A r \in done : r <= last
       /\ room' = room \cup done
       /\ portalRev' = RevisionUpdater(last)
       /\ lost' = (lost \ done) \cup {r \in unconverted : r <= last /\ r \notin room}

(***************************************************************************)
(* The portal's loop.                                                      *)
(***************************************************************************)

HandleResync ==
  /\ loop.at = "idle"
  /\ \E g \in resyncs : UpdateInfo(g) /\ resyncs' = resyncs \ {g}
  /\ UNCHANGED <<serverVars, cacheVars, loop>>

\* PreHandle and catchUpGroup for a message sent at revision r, with the
\* change that made r or without.  No message brings back an own change.
HandleMessage(r, withChange) ==
  /\ loop.at = "idle"
  /\ withChange => r \notin own
  /\ LET to == IF withChange THEN r - 1 ELSE r
         change == IF withChange THEN r ELSE 0
     IN loop' = CASE to > portalRev /\ portalRev = 0 -> [at |-> "retrieve", why |-> "full", min |-> to, change |-> change]
                  [] to > portalRev /\ portalRev > 0 -> [at |-> "history", min |-> to, change |-> change]
                  [] to <= portalRev /\ withChange -> [at |-> "change", change |-> r]
                  [] OTHER -> Idle
  /\ UNCHANGED <<serverVars, cacheVars, resyncs, roomVars>>

\* The event goes on to GetChatInfoChange only if it carries a change.
\* Broken variant: every event does.
AfterCatchUpAlways == [at |-> "change", change |-> loop.change]
AfterCatchUp == IF loop.change = 0 THEN Idle ELSE [at |-> "change", change |-> loop.change]

\* GetGroupHistoryPage asks for the changes from the portal's revision on.
HistoryFetched ==
  /\ loop.at = "history"
  /\ loop' = [at |-> "page", hi |-> server, min |-> loop.min, change |-> loop.change]
  /\ UNCHANGED <<serverVars, cacheVars, resyncs, roomVars>>

\* decryptGroupChanges, then every change up to the wanted revision.
HistoryProcessed ==
  /\ loop.at = "page"
  /\ LET res == AppliedPage(portalRev, loop.hi)
     IN cache' = res.cache /\ syncer' = res.syncer
  /\ \E unconverted \in SUBSET (portalRev..loop.min) :
       ProcessChatInfoChanges((portalRev..loop.min) \ unconverted, unconverted)
  /\ loop' = AfterCatchUp
  /\ UNCHANGED <<serverVars, resyncs>>

\* The request fails, or a change of the page cannot be decrypted (the deferred
\* Delete of decryptGroupChange): catchUpGroup starts over with the full group.
HistoryFails ==
  /\ loop.at \in {"history", "page"}
  /\ \/ UNCHANGED cacheVars
     \/ /\ loop.at = "page"
        /\ \E bad \in portalRev..loop.hi :
             syncer' = [x \in Syncers |-> Detach(AppliedPage(portalRev, bad - 1).syncer[x])]
        /\ cache' = None
  /\ loop' = [at |-> "retrieve", why |-> "full", min |-> loop.min, change |-> loop.change]
  /\ UNCHANGED <<serverVars, resyncs, roomVars>>

\* GetChatInfoChange, then ProcessChatInfoChange unless the conversion failed.
\* Broken variant: without the comparison of the revisions.
HandleChangeAnyRevision ==
  /\ loop.at = "change"
  /\ ApplyUpdate(loop.change, TRUE, FALSE)
  /\ \/ ProcessChatInfoChanges({loop.change}, {})
     \/ UNCHANGED roomVars
  /\ loop' = Idle
  /\ UNCHANGED <<serverVars, resyncs>>
HandleChange ==
  /\ loop.at = "change"
  /\ ApplyUpdate(loop.change, TRUE, FALSE)
  /\ \/ loop.change = portalRev + 1 /\ ProcessChatInfoChanges({loop.change}, {})
     \/ UNCHANGED roomVars
  /\ loop' = Idle
  /\ UNCHANGED <<serverVars, resyncs>>

\* DecryptGroupChange fails: evict, and ignore the event.
ChangeUndecryptable ==
  /\ loop.at = "change"
  /\ Evict
  /\ loop' = Idle
  /\ UNCHANGED <<serverVars, resyncs, roomVars>>

\* A change of the room's name, members or power levels made in Matrix.
HandleMatrixChange ==
  /\ loop.at = "idle"
  /\ loop' = [at |-> "retrieve", why |-> "update", min |-> 0, change |-> 0]
  /\ UNCHANGED <<serverVars, cacheVars, resyncs, roomVars>>

\* What the loop does with the group it retrieved.
Use(g) ==
  \/ loop.why = "full" /\ UpdateInfo(g) /\ loop' = AfterCatchUp
  \/ loop.why = "update" /\ UNCHANGED roomVars /\ loop' = [at |-> "patch", rev |-> g.rev + 1, retried |-> FALSE]

\* RetrieveGroupByID
Retrieve ==
  /\ loop.at = "retrieve"
  /\ IF Hit(loop.min) THEN Use(cache)
     ELSE loop' = [at |-> "fetch", why |-> loop.why, change |-> loop.change] /\ UNCHANGED roomVars
  /\ UNCHANGED <<serverVars, cacheVars, resyncs>>

Fetched ==
  /\ loop.at = "fetch"
  /\ loop' = [at |-> "fetched", why |-> loop.why, change |-> loop.change, snap |-> Snapshot(server)]
  /\ UNCHANGED <<serverVars, cacheVars, resyncs, roomVars>>

\* The request or a step after it fails; a message goes on without catching up.
FetchFails ==
  /\ loop.at \in {"fetch", "fetched", "stored"}
  /\ loop' = AfterCatchUp
  /\ UNCHANGED <<serverVars, cacheVars, resyncs, roomVars>>

Store ==
  /\ loop.at = "fetched"
  /\ \E c \in Puts(loop.snap) : cache' = c /\ syncer' = Readers(c)
  /\ loop' = [at |-> "stored", why |-> loop.why, change |-> loop.change, snap |-> loop.snap]
  /\ UNCHANGED <<serverVars, resyncs, roomVars>>

GetAgain ==
  /\ loop.at = "stored"
  /\ Use(IF Hit(0) THEN cache ELSE loop.snap)
  /\ UNCHANGED <<serverVars, cacheVars, resyncs>>

(***************************************************************************)
(* UpdateGroup after the group was retrieved.                              *)
(***************************************************************************)

\* The server takes the change if it makes the next revision.  A member whose
\* profile key credential could not be fetched is added as pending.
Patch ==
  /\ loop.at = "patch" /\ loop.rev = server + 1 /\ server < MaxRevision
  /\ server' = loop.rev
  /\ own' = own \cup {loop.rev}
  /\ \E pending \in BOOLEAN : misread' = misread \cup {r \in {loop.rev} : pending}
  /\ loop' = [at |-> "patched", rev |-> loop.rev]
  /\ UNCHANGED <<cacheVars, resyncs, roomVars>>

\* 400 for a change that adds members is tried once more.
PatchNotAccepted ==
  /\ loop.at = "patch" /\ ~loop.retried
  /\ loop' = [at |-> "patch", rev |-> loop.rev, retried |-> TRUE]
  /\ UNCHANGED <<serverVars, cacheVars, resyncs, roomVars>>

\* A conflict (patchGroup reports it as an error UpdateGroup does not know),
\* any other status, or a lost response: the error is returned.
UpdateFails ==
  /\ loop.at \in {"patch", "patched"}
  /\ loop' = Idle
  /\ UNCHANGED <<serverVars, cacheVars, resyncs, roomVars>>

\* ApplyUpdate and the message to the members, then the handler records the
\* revision unless its own last step failed.  The revision jumps over changes
\* whose messages were not handled yet.
UpdateSucceeds ==
  /\ loop.at = "patched"
  /\ \E endorsed \in BOOLEAN :
       /\ endorsed => loop.rev \notin misread
       /\ ApplyUpdate(loop.rev, loop.rev \notin misread, endorsed)
  /\ \/ /\ room' = room \cup ({loop.rev} \ misread)
        /\ portalRev' = loop.rev
        /\ lost' = lost \cup (portalRev + 1 .. loop.rev - 1) \cup ({loop.rev} \cap misread)
     \/ UNCHANGED roomVars
  /\ loop' = Idle
  /\ UNCHANGED <<serverVars, resyncs>>

-----------------------------------------------------------------------------

Init ==
  /\ server = 0 /\ own = {} /\ misread = {}
  /\ cache = None /\ syncer = [x \in Syncers |-> Idle] /\ resyncs = {}
  /\ loop = Idle /\ portalRev = 0 /\ room = {} /\ lost = {}

PortalNext ==
  \/ HandleResync \/ (\E r \in 1..server, c \in BOOLEAN : HandleMessage(r, c))
  \/ HistoryFetched \/ HistoryProcessed \/ HistoryFails
  \/ HandleChange \/ ChangeUndecryptable
  \/ HandleMatrixChange \/ Retrieve \/ Fetched \/ FetchFails \/ Store \/ GetAgain
  \/ Patch \/ PatchNotAccepted \/ UpdateFails \/ UpdateSucceeds

SyncNext(x) ==
  \/ (\E min \in 0..server : SyncRetrieves(x, min))
  \/ SyncFetches(x) \/ SyncFails(x) \/ SyncStores(x) \/ SyncGetsAgain(x) \/ SyncQueues(x)

Next == OthersChange \/ EndorsementsExpire \/ PortalNext \/ (\E x \in Syncers : SyncNext(x))

Spec == Init /\ [][Next]_vars

-----------------------------------------------------------------------------
Contents == [rev : Revisions, has : SUBSET (1..MaxRevision)]

\* Types of the variables.
TypeOK ==
  /\ server \in Revisions /\ portalRev \in Revisions
  /\ own \subseteq 1..server /\ misread \subseteq own
  /\ room \subseteq 1..MaxRevision /\ lost \subseteq 1..MaxRevision
  /\ cache = None \/ cache \in [rev : Revisions, has : SUBSET (1..MaxRevision), fresh : BOOLEAN]
  /\ resyncs \subseteq Contents
  /\ \A x \in Syncers : syncer[x].at \in {"idle", "fetch", "fetched", "stored", "reading"}
  /\ loop.at \in {"idle", "history", "page", "change", "retrieve", "fetch", "fetched",
                  "stored", "patch", "patched"}
  /\ loop.at = "change" => loop.change \in 1..server \ own
  /\ loop.at = "patched" => loop.rev \in own

\* The cached group is the group the server had at the cached revision
\* (Put, ApplyUpdate): whatever order fetches, changes received and own updates
\* come in, no change is applied to the cache over a gap or twice, and an own
\* change the server understood differently does not stay in the cache.
CacheConsistent ==
  cache # None => cache.has = 1..cache.rev /\ cache.rev <= server

\* The room shows exactly the changes up to the portal's revision (PreHandle,
\* catchUpGroup, GetChatInfoChange, makeRevisionUpdater), except for those lost
\* in one of four ways: an own update jumped over them or was understood
\* differently by the server, they could not be converted, a resync brought an
\* older group, or a group that was being changed.
RoomFollowsRevision ==
  /\ room \subseteq 1..portalRev
  /\ portalRev <= server
  /\ 1..portalRev \subseteq room \cup lost

\* No step lowers the portal's revision or replaces a cached group by an older
\* one (makeRevisionUpdater, Put): a change already shown would be shown again.
RevisionsNeverFall ==
  [][portalRev' >= portalRev /\ (cache # None /\ cache' # None => cache'.rev >= cache.rev)]_vars

\* "We missed an update, evict" (ApplyUpdate): when the portal has handled
\* changes, received or its own, the cache holds no group that lacks them.  (A
\* group fetched before them and stored after them may still get there.)
MissedUpdatesEvict ==
  [][loop.at \in {"page", "change", "patched"} /\ portalRev' # portalRev /\ cache' # None
       => cache'.rev >= portalRev']_vars
=============================================================================

---------------------------- MODULE GroupsProofs ----------------------------
(***************************************************************************)
(* Proofs about Groups for any bound on the revisions and any number of    *)
(* goroutines that sync the chat: type correctness, the cached group is    *)
(* the server's, the room follows the portal's revision, and no revision   *)
(* falls.                                                                  *)
(***************************************************************************)
EXTENDS Groups, TLAPS

\* A group as the server had it at revision g.rev, and one that was read while
\* it was changed in place; n is the server's revision.
Whole(g, n) == g.rev \in Nat /\ g.rev <= n /\ g.has = 1..g.rev
Part(g, n) == g.rev \in Nat /\ g.rev <= n /\ g.has \subseteq 1..g.rev

CacheOK(c, n) == c = None \/ Whole(c, n)

\* A goroutine that holds the pointer of the cached group sees its revision.
SyncerOK(s, c, n) ==
  /\ s.at \in {"fetched", "stored"} => Whole(s.snap, n)
  /\ s.at = "reading" => Part(s, n) /\ (s.shared => c # None /\ s.rev = c.rev)
SyncersOK(f, c, n) ==
  /\ f = [x \in Syncers |-> f[x]]
  /\ \A x \in Syncers : SyncerOK(f[x], c, n)

CachePart == server \in Nat /\ CacheOK(cache, server) /\ SyncersOK(syncer, cache, server)

LoopPart ==
  /\ loop.at \in {"retrieve", "fetch", "fetched", "stored", "history", "page"} => loop.change \in 0..server
  /\ loop.at \in {"fetched", "stored"} => Whole(loop.snap, server)
  /\ loop.at = "change" => loop.change \in 1..server
  /\ loop.at \in {"history", "page"} => loop.min \in 1..server /\ portalRev > 0
  /\ loop.at = "page" => loop.hi \in 0..server /\ loop.min <= loop.hi
  /\ loop.at = "patched" => loop.rev \in 1..server /\ loop.rev > portalRev

RoomPart ==
  /\ portalRev \in Nat
  /\ RoomFollowsRevision
  /\ \A g \in resyncs : Part(g, server)

IInv == CachePart /\ LoopPart /\ RoomPart

USE DEF None, Idle

\* A larger revision on the server disturbs nothing that was read before.
LEMMA ServerGrows ==
  ASSUME NEW m \in Nat, NEW n \in Nat, m <= n, NEW c, NEW f,
         CacheOK(c, m), SyncersOK(f, c, m)
  PROVE  CacheOK(c, n) /\ SyncersOK(f, c, n)
<1>1. CacheOK(c, n)
  BY DEF CacheOK, Whole
<1>2. ASSUME NEW x \in Syncers PROVE SyncerOK(f[x], c, n)
  BY DEF SyncersOK, SyncerOK, Whole, Part
<1> QED BY <1>1, <1>2 DEF SyncersOK

\* Delete: without an entry nobody shares it.
LEMMA DetachedOK ==
  ASSUME NEW c, NEW n \in Nat, NEW d, NEW s, SyncerOK(s, c, n)
  PROVE  SyncerOK(Detach(s), d, n)
<1>1. CASE s.at = "reading"
  BY <1>1 DEF Detach, Reading, SyncerOK, Part
<1>2. CASE s.at # "reading"
  BY <1>2 DEF Detach, SyncerOK
<1> QED BY <1>1, <1>2

LEMMA EvictOK ==
  ASSUME CachePart
  PROVE  SyncersOK(Detached, None, server)
<1>1. ASSUME NEW x \in Syncers PROVE SyncerOK(Detach(syncer[x]), None, server)
  BY DetachedOK DEF CachePart, SyncersOK
<1> QED BY <1>1 DEF Detached, SyncersOK

\* Put keeps the cache whole.
LEMMA PutOK ==
  ASSUME CachePart, NEW snap, Whole(snap, server), NEW c \in Puts(snap)
  PROVE  /\ CacheOK(c, server)
         /\ SyncersOK(Readers(c), c, server)
         /\ cache # None /\ c # None => c.rev >= cache.rev
<1>1. CASE c = cache
  BY <1>1 DEF CachePart, Readers, CacheOK, Whole
<1>2. CASE c # cache
  <2>1. c = Entry(snap) /\ (cache = None \/ cache.rev <= snap.rev)
    BY <1>2 DEF Puts
  <2>2. CacheOK(c, server) /\ c.rev = snap.rev
    BY <2>1 DEF CacheOK, Whole, Entry
  <2>3. ASSUME NEW x \in Syncers PROVE SyncerOK(Detach(syncer[x]), c, server)
    BY DetachedOK DEF CachePart, SyncersOK
  <2>4. SyncersOK(Readers(c), c, server)
    BY <2>3, <1>2 DEF Readers, Detached, SyncersOK
  <2>5. cache # None /\ c # None => c.rev >= cache.rev
    BY <2>1, <2>2 DEF CachePart, CacheOK, Whole
  <2> QED BY <2>2, <2>4, <2>5
<1> QED BY <1>1, <1>2

\* ApplyUpdate keeps the cache whole if the endorsements only verify for a
\* change the server made as this client has it.
LEMMA AppliedOK ==
  ASSUME CachePart, NEW r \in Nat, r <= server,
         NEW right \in BOOLEAN, NEW endorsed \in BOOLEAN, endorsed => right
  PROVE  LET res == Applied(r, right, endorsed)
         IN /\ CacheOK(res.cache, server)
            /\ SyncersOK(res.syncer, res.cache, server)
            /\ cache # None /\ res.cache # None => res.cache.rev >= cache.rev
<1> DEFINE res == Applied(r, right, endorsed)
<1>1. CASE cache = None \/ cache.rev >= r
  <2>1. res.cache = cache /\ res.syncer = syncer
    BY <1>1 DEF Applied
  <2> QED BY <2>1 DEF CachePart, CacheOK, Whole
<1>2. CASE cache # None /\ cache.rev < r /\ cache.rev < r - 1
  <2>1. res.cache = None /\ res.syncer = Detached
    BY <1>2 DEF Applied, CachePart, CacheOK, Whole
  <2> QED BY <2>1, EvictOK DEF CacheOK
<1>3. CASE cache # None /\ cache.rev < r /\ ~(cache.rev < r - 1)
  <2> DEFINE readers == [x \in Syncers |-> InPlace(syncer[x], r)]
  <2>1. cache.rev = r - 1 /\ cache.rev \in Nat /\ cache.has = 1..cache.rev
    BY <1>3 DEF CachePart, CacheOK, Whole
  <2>2. ASSUME NEW x \in Syncers, NEW c, c # None, c.rev = r
        PROVE  SyncerOK(readers[x], c, server)
    <3>1. SyncerOK(syncer[x], cache, server) /\ readers[x] = InPlace(syncer[x], r)
      BY DEF CachePart, SyncersOK
    <3>2. CASE syncer[x].at = "reading" /\ syncer[x].shared
      <4>1. readers[x] = [at |-> "reading", rev |-> r, has |-> syncer[x].has, shared |-> TRUE]
        BY <3>1, <3>2 DEF InPlace, Reading
      <4>2. syncer[x].has \subseteq 1..r
        BY <3>1, <3>2, <2>1 DEF SyncerOK, Part
      <4> QED BY <4>1, <4>2, <2>2 DEF SyncerOK, Part
    <3>3. CASE ~(syncer[x].at = "reading" /\ syncer[x].shared)
      BY <3>1, <3>3 DEF InPlace, SyncerOK
    <3> QED BY <3>2, <3>3
  <2>3. CASE endorsed
    <3>1. /\ res.cache = [rev |-> r, has |-> cache.has \cup {x \in {r} : right}, fresh |-> TRUE]
          /\ res.syncer = readers
      BY <1>3, <2>1, <2>3 DEF Applied
    <3>2. cache.has \cup {x \in {r} : right} = 1..r
      BY <2>1, <2>3
    <3>3. res.cache.rev = r /\ res.cache # None
      BY <3>1
    <3>4. CacheOK(res.cache, server)
      BY <3>1, <3>2 DEF CacheOK, Whole
    <3>5. SyncersOK(res.syncer, res.cache, server)
      BY <3>1, <3>3, <2>2 DEF SyncersOK
    <3> QED BY <3>3, <3>4, <3>5, <2>1
  <2>4. CASE ~endorsed
    <3>1. res.cache = None /\ res.syncer = [x \in Syncers |-> Detach(readers[x])]
      BY <1>3, <2>1, <2>4 DEF Applied
    <3>2. ASSUME NEW x \in Syncers PROVE SyncerOK(Detach(readers[x]), None, server)
      <4> DEFINE c == [rev |-> r]
      <4>1. c # None /\ c.rev = r
        OBVIOUS
      <4>2. SyncerOK(readers[x], c, server)
        BY <2>2, <4>1
      <4> HIDE DEF c, readers
      <4> QED BY <4>2, DetachedOK DEF CachePart
    <3> QED BY <3>1, <3>2 DEF CacheOK, SyncersOK
  <2> QED BY <2>3, <2>4
<1>4. cache = None \/ cache.rev \in Nat
  BY DEF CachePart, CacheOK, Whole
<1> QED BY <1>1, <1>2, <1>3, <1>4

\* A page of the history.
LEMMA AppliedPageOK ==
  ASSUME CachePart, NEW lo \in Nat, NEW hi \in Int, hi <= server
  PROVE  LET res == AppliedPage(lo, hi)
         IN /\ CacheOK(res.cache, server)
            /\ SyncersOK(res.syncer, res.cache, server)
            /\ cache # None /\ res.cache # None => res.cache.rev >= cache.rev
<1> DEFINE res == AppliedPage(lo, hi)
           r == Larger(lo, cache.rev + 1)
<1>1. CASE cache = None \/ cache.rev >= hi
  <2>1. res.cache = cache /\ res.syncer = syncer
    BY <1>1 DEF AppliedPage
  <2> QED BY <2>1 DEF CachePart, CacheOK, Whole
<1>2. CASE cache # None /\ ~(cache.rev >= hi)
  <2>1. cache.rev \in Nat /\ cache.rev < hi /\ server \in Nat /\ r \in Nat
    BY <1>2 DEF CachePart, CacheOK, Whole, Larger
  <2>2. res = Applied(r, TRUE, FALSE)
    BY <1>2 DEF AppliedPage
  <2>3. CASE r <= server
    <3> HIDE DEF r
    <3> QED BY <2>1, <2>2, <2>3, AppliedOK
  <2>4. CASE ~(r <= server)
    <3>1. r = lo /\ cache.rev < r - 1
      BY <2>1, <2>4 DEF Larger
    <3>2. res.cache = None /\ res.syncer = Detached
      BY <2>1, <2>2, <3>1, <1>2 DEF Applied
    <3> QED BY <3>2, EvictOK DEF CacheOK
  <2> QED BY <2>3, <2>4
<1> QED BY <1>1, <1>2

\* No cached group is replaced by an older one.
Newer == cache # None /\ cache' # None => cache'.rev >= cache.rev

LEMMA CacheUnchanged ==
  ASSUME CachePart, UNCHANGED cacheVars, server' \in Nat, server' >= server
  PROVE  CachePart' /\ Newer
<1>1. CacheOK(cache, server') /\ SyncersOK(syncer, cache, server')
  BY ServerGrows DEF CachePart
<1>2. cache' = cache /\ syncer' = syncer
  BY DEF cacheVars
<1>3. cache # None => cache.rev >= cache.rev
  BY DEF CachePart, CacheOK, Whole
<1> QED BY <1>1, <1>2, <1>3 DEF CachePart, Newer

LEMMA PortalCachePart == IInv /\ PortalNext => CachePart' /\ Newer
<1> SUFFICES ASSUME IInv, PortalNext PROVE CachePart' /\ Newer
  OBVIOUS
<1> USE DEF IInv, serverVars
<1>0. server \in Nat /\ CachePart /\ portalRev \in Nat
  BY DEF CachePart, RoomPart
<1>1. CASE HandleResync \/ (\E r \in 1..server, c \in BOOLEAN : HandleMessage(r, c))
           \/ HistoryFetched \/ HandleMatrixChange \/ Retrieve \/ Fetched \/ FetchFails
           \/ GetAgain \/ PatchNotAccepted \/ UpdateFails
  <2>1. UNCHANGED cacheVars /\ server' = server
    BY <1>1 DEF HandleResync, HandleMessage, HistoryFetched, HandleMatrixChange, Retrieve,
                Fetched, FetchFails, GetAgain, PatchNotAccepted, UpdateFails
  <2> QED BY <1>0, <2>1, CacheUnchanged
<1>2. CASE Patch
  <2>1. UNCHANGED cacheVars /\ server' = server + 1
    BY <1>2 DEF Patch
  <2> QED BY <1>0, <2>1, CacheUnchanged
<1>3. CASE HistoryProcessed
  <2>1. loop.hi \in Int /\ loop.hi <= server
    BY <1>0, <1>3 DEF HistoryProcessed, LoopPart
  <2>2. /\ cache' = AppliedPage(portalRev, loop.hi).cache
        /\ syncer' = AppliedPage(portalRev, loop.hi).syncer
        /\ server' = server
    BY <1>3 DEF HistoryProcessed
  <2> QED BY <1>0, <2>1, <2>2, AppliedPageOK DEF CachePart, Newer
<1>4. CASE HistoryFails
  <2>1. server' = server
    BY <1>4 DEF HistoryFails
  <2>2. CASE UNCHANGED cacheVars
    BY <1>0, <2>1, <2>2, CacheUnchanged
  <2>3. CASE ~UNCHANGED cacheVars
    <3>1. PICK bad \in portalRev..loop.hi :
            syncer' = [x \in Syncers |-> Detach(AppliedPage(portalRev, bad - 1).syncer[x])]
      BY <1>4, <2>3 DEF HistoryFails
    <3>2. cache' = None /\ loop.hi \in Int /\ loop.hi <= server
      BY <1>0, <1>4, <2>3 DEF HistoryFails, LoopPart
    <3> DEFINE res == AppliedPage(portalRev, bad - 1)
    <3>3. SyncersOK(res.syncer, res.cache, server)
      BY <1>0, <3>2, AppliedPageOK
    <3> HIDE DEF res
    <3>4. ASSUME NEW x \in Syncers PROVE SyncerOK(Detach(res.syncer[x]), None, server)
      BY <1>0, <3>3, DetachedOK DEF SyncersOK
    <3>5. SyncersOK(syncer', None, server)
      BY <3>1, <3>4 DEF SyncersOK, res
    <3> QED BY <1>0, <2>1, <3>2, <3>5 DEF CachePart, CacheOK, Newer
  <2> QED BY <2>2, <2>3
<1>5. CASE HandleChange
  <2>1. loop.change \in Nat /\ loop.change <= server
    BY <1>0, <1>5 DEF HandleChange, LoopPart
  <2>2. /\ cache' = Applied(loop.change, TRUE, FALSE).cache
        /\ syncer' = Applied(loop.change, TRUE, FALSE).syncer
        /\ server' = server
    BY <1>5 DEF HandleChange, ApplyUpdate
  <2> QED BY <1>0, <2>1, <2>2, AppliedOK DEF CachePart, Newer
<1>6. CASE ChangeUndecryptable
  <2>1. cache' = None /\ syncer' = Detached /\ server' = server
    BY <1>6 DEF ChangeUndecryptable, Evict
  <2> QED BY <1>0, <2>1, EvictOK DEF CachePart, CacheOK, Newer
<1>7. CASE Store
  <2>1. Whole(loop.snap, server) /\ server' = server
    BY <1>7 DEF Store, LoopPart
  <2>2. PICK c \in Puts(loop.snap) : cache' = c /\ syncer' = Readers(c)
    BY <1>7 DEF Store
  <2> QED BY <1>0, <2>1, <2>2, PutOK DEF CachePart, Newer
<1>8. CASE UpdateSucceeds
  <2>1. loop.rev \in Nat /\ loop.rev <= server /\ server' = server
    BY <1>0, <1>8 DEF UpdateSucceeds, LoopPart
  <2>2. PICK endorsed \in BOOLEAN :
          /\ endorsed => loop.rev \notin misread
          /\ cache' = Applied(loop.rev, loop.rev \notin misread, endorsed).cache
          /\ syncer' = Applied(loop.rev, loop.rev \notin misread, endorsed).syncer
    BY <1>8 DEF UpdateSucceeds, ApplyUpdate
  <2> DEFINE right == loop.rev \notin misread
  <2>3. right \in BOOLEAN
    OBVIOUS
  <2> HIDE DEF right
  <2>4. /\ CacheOK(Applied(loop.rev, right, endorsed).cache, server)
        /\ SyncersOK(Applied(loop.rev, right, endorsed).syncer, Applied(loop.rev, right, endorsed).cache, server)
        /\ cache # None /\ Applied(loop.rev, right, endorsed).cache # None
             => Applied(loop.rev, right, endorsed).cache.rev >= cache.rev
    <3>1. endorsed => right
      BY <2>2 DEF right
    <3> QED BY <1>0, <2>1, <2>3, <3>1, AppliedOK
  <2>5. /\ cache' = Applied(loop.rev, right, endorsed).cache
        /\ syncer' = Applied(loop.rev, right, endorsed).syncer
    BY <2>2 DEF right
  <2> QED BY <1>0, <2>1, <2>4, <2>5 DEF CachePart, Newer
<1> QED BY <1>1, <1>2, <1>3, <1>4, <1>5, <1>6, <1>7, <1>8 DEF PortalNext

LEMMA SyncCachePart ==
  ASSUME IInv, NEW x \in Syncers, SyncNext(x)
  PROVE  CachePart' /\ Newer
<1> USE DEF IInv, serverVars
<1>0. /\ server \in Nat /\ CachePart /\ server' = server
      /\ syncer = [y \in Syncers |-> syncer[y]]
      /\ \A y \in Syncers : SyncerOK(syncer[y], cache, server)
  BY DEF CachePart, SyncersOK, SyncNext, SyncRetrieves, SyncFetches, SyncFails, SyncStores,
         SyncGetsAgain, SyncQueues
<1>1. ASSUME cache' = cache, NEW s, SyncerOK(s, cache, server), syncer' = [syncer EXCEPT ![x] = s]
      PROVE  CachePart' /\ Newer
  <2>1. SyncersOK(syncer', cache, server)
    BY <1>0, <1>1 DEF SyncersOK
  <2>2. Newer
    BY <1>0, <1>1 DEF CachePart, CacheOK, Whole, Newer
  <2> QED BY <1>0, <1>1, <2>1, <2>2 DEF CachePart
<1>2. ASSUME Hit(0) \/ (\E min \in 0..server : Hit(min)) PROVE SyncerOK(Reading(cache, TRUE), cache, server)
  BY <1>0, <1>2 DEF Hit, Reading, SyncerOK, CachePart, CacheOK, Whole, Part
<1>3. SyncerOK(Idle, cache, server) /\ SyncerOK([at |-> "fetch"], cache, server)
  BY DEF SyncerOK
<1>4. CASE \E min \in 0..server : SyncRetrieves(x, min)
  <2>1. PICK min \in 0..server : SyncRetrieves(x, min)
    BY <1>4
  <2>2. CASE Hit(min)
    BY <1>1, <1>2, <2>1, <2>2 DEF SyncRetrieves
  <2>3. CASE ~Hit(min)
    BY <1>1, <1>3, <2>1, <2>3 DEF SyncRetrieves
  <2> QED BY <2>2, <2>3
<1>5. CASE SyncFetches(x)
  <2>1. SyncerOK([at |-> "fetched", snap |-> Snapshot(server)], cache, server)
    BY <1>0 DEF SyncerOK, Snapshot, Whole
  <2> QED BY <1>1, <1>5, <2>1 DEF SyncFetches
<1>6. CASE SyncFails(x) \/ SyncQueues(x)
  BY <1>1, <1>3, <1>6 DEF SyncFails, SyncQueues
<1>7. CASE SyncStores(x)
  <2>1. Whole(syncer[x].snap, server)
    BY <1>0, <1>7 DEF SyncStores, SyncerOK
  <2>2. PICK c \in Puts(syncer[x].snap) :
          /\ cache' = c
          /\ syncer' = [Readers(c) EXCEPT ![x] = [at |-> "stored", snap |-> syncer[x].snap]]
    BY <1>7 DEF SyncStores
  <2>3. /\ CacheOK(c, server) /\ SyncersOK(Readers(c), c, server)
        /\ cache # None /\ c # None => c.rev >= cache.rev
    BY <1>0, <2>1, PutOK
  <2>4. SyncerOK([at |-> "stored", snap |-> syncer[x].snap], c, server)
    BY <2>1 DEF SyncerOK
  <2>5. SyncersOK(syncer', c, server)
    BY <2>2, <2>3, <2>4 DEF SyncersOK
  <2> QED BY <1>0, <2>2, <2>3, <2>5 DEF CachePart, Newer
<1>8. CASE SyncGetsAgain(x)
  <2>1. CASE Hit(0)
    BY <1>1, <1>2, <1>8, <2>1 DEF SyncGetsAgain
  <2>2. CASE ~Hit(0)
    <3>1. SyncerOK(Reading(syncer[x].snap, FALSE), cache, server)
      BY <1>0, <1>8 DEF SyncGetsAgain, SyncerOK, Reading, Whole, Part
    <3> QED BY <1>1, <1>8, <2>2, <3>1 DEF SyncGetsAgain
  <2> QED BY <2>1, <2>2
<1> QED BY <1>4, <1>5, <1>6, <1>7, <1>8, SyncNext(x) DEF SyncNext

LEMMA NextCachePart == IInv /\ [Next]_vars => CachePart' /\ Newer
<1> SUFFICES ASSUME IInv, [Next]_vars PROVE CachePart' /\ Newer
  OBVIOUS
<1>0. CachePart /\ server \in Nat
  BY DEF IInv, CachePart
<1>1. CASE OthersChange
  <2>1. UNCHANGED cacheVars /\ server' = server + 1
    BY <1>1 DEF OthersChange
  <2> QED BY <1>0, <2>1, CacheUnchanged
<1>2. CASE EndorsementsExpire
  <2>1. /\ cache # None /\ server' = server /\ syncer' = syncer
        /\ cache' = [rev |-> cache.rev, has |-> cache.has, fresh |-> FALSE]
    BY <1>2 DEF EndorsementsExpire, serverVars
  <2>2. Whole(cache, server)
    BY <1>0, <2>1 DEF CachePart, CacheOK
  <2>3. Whole(cache', server) /\ cache' # None /\ cache'.rev = cache.rev
    BY <2>1, <2>2 DEF Whole
  <2>4. ASSUME NEW x \in Syncers PROVE SyncerOK(syncer[x], cache', server)
    BY <1>0, <2>3 DEF CachePart, SyncersOK, SyncerOK
  <2>5. SyncersOK(syncer, cache', server)
    BY <1>0, <2>4 DEF CachePart, SyncersOK
  <2> QED BY <1>0, <2>1, <2>2, <2>3, <2>5 DEF CachePart, CacheOK, Newer, Whole
<1>3. CASE PortalNext
  BY <1>3, PortalCachePart
<1>4. CASE \E x \in Syncers : SyncNext(x)
  BY <1>4, SyncCachePart
<1>5. CASE UNCHANGED vars
  <2>1. UNCHANGED cacheVars /\ server' = server
    BY <1>5 DEF vars, cacheVars
  <2> QED BY <1>0, <2>1, CacheUnchanged
<1> QED BY <1>1, <1>2, <1>3, <1>4, <1>5 DEF Next

\* The server's revision only grows, and only the portal's loop touches what
\* the loop and the room hold.
LEMMA NextFrame ==
  ASSUME server \in Nat, [Next]_vars
  PROVE  /\ server' \in Nat /\ server' >= server
         /\ ~PortalNext => UNCHANGED <<loop, roomVars>>
<1> USE DEF serverVars
<1>1. CASE OthersChange \/ EndorsementsExpire \/ UNCHANGED vars
  BY <1>1 DEF OthersChange, EndorsementsExpire, vars, roomVars
<1>2. CASE \E x \in Syncers : SyncNext(x)
  <2>1. server' = server /\ UNCHANGED <<loop, roomVars>>
    BY <1>2 DEF SyncNext, SyncRetrieves, SyncFetches, SyncFails, SyncStores, SyncGetsAgain, SyncQueues
  <2> QED BY <2>1
<1>3. CASE PortalNext
  <2>1. server' = server \/ Patch
    BY <1>3 DEF PortalNext, HandleResync, HandleMessage, HistoryFetched, HistoryProcessed, HistoryFails,
       HandleChange, ChangeUndecryptable, HandleMatrixChange, Retrieve, Fetched, FetchFails, Store,
       GetAgain, PatchNotAccepted, UpdateFails, UpdateSucceeds
  <2>2. server' \in Nat /\ server' >= server
    BY <2>1 DEF Patch
  <2> QED BY <1>3, <2>2
<1> QED BY <1>1, <1>2, <1>3 DEF Next

\* AfterCatchUp starts a change only if the event carries one.
LEMMA AfterCatchUpOK ==
  ASSUME server \in Nat, loop.change \in 0..server, loop' = AfterCatchUp, server' = server
  PROVE  LoopPart'
<1>1. CASE loop.change = 0
  BY <1>1 DEF AfterCatchUp, LoopPart
<1>2. CASE loop.change # 0
  <2>1. loop' = [at |-> "change", change |-> loop.change]
    BY <1>2 DEF AfterCatchUp
  <2>2. loop'.at = "change" /\ loop'.change \in 1..server'
    BY <1>2, <2>1
  <2> QED BY <2>2 DEF LoopPart
<1> QED BY <1>1, <1>2

LEMMA NextLoopPart == IInv /\ [Next]_vars => LoopPart'
<1> SUFFICES ASSUME IInv, [Next]_vars PROVE LoopPart'
  OBVIOUS
<1> USE DEF serverVars
<1>0. /\ server \in Nat /\ LoopPart /\ portalRev \in Nat /\ portalRev <= server
      /\ server' \in Nat /\ server' >= server
  BY NextFrame DEF IInv, CachePart, RoomPart, RoomFollowsRevision
<1>1. CASE ~PortalNext
  <2>1. loop' = loop /\ portalRev' = portalRev
    BY <1>0, <1>1, NextFrame DEF roomVars
  <2> QED BY <1>0, <2>1 DEF LoopPart, Whole
<1>2. ASSUME loop' = Idle PROVE LoopPart'
  BY <1>2 DEF LoopPart
<1>3. CASE HandleResync
  <2>1. loop' = loop /\ loop.at = "idle"
    BY <1>3 DEF HandleResync
  <2> QED BY <2>1 DEF LoopPart
<1>4. ASSUME NEW r \in 1..server, NEW c \in BOOLEAN, HandleMessage(r, c) PROVE LoopPart'
  <2> DEFINE to == IF c THEN r - 1 ELSE r
             ch == IF c THEN r ELSE 0
  <2>1. to \in 0..server /\ ch \in 0..server /\ server' = server /\ portalRev' = portalRev
    BY <1>0, <1>4 DEF HandleMessage, roomVars
  <2>2. CASE to > portalRev /\ portalRev = 0
    <3>1. loop' = [at |-> "retrieve", why |-> "full", min |-> to, change |-> ch]
      BY <1>4, <2>2 DEF HandleMessage
    <3> HIDE DEF to, ch
    <3> QED BY <2>1, <3>1 DEF LoopPart
  <2>3. CASE to > portalRev /\ portalRev > 0
    <3>1. loop' = [at |-> "history", min |-> to, change |-> ch]
      BY <1>0, <1>4, <2>3 DEF HandleMessage
    <3> HIDE DEF to, ch
    <3> QED BY <1>0, <2>1, <2>3, <3>1 DEF LoopPart
  <2>4. CASE ~(to > portalRev) /\ c
    <3>1. loop' = [at |-> "change", change |-> r]
      BY <1>0, <1>4, <2>1, <2>4 DEF HandleMessage
    <3> QED BY <2>1, <3>1 DEF LoopPart
  <2>5. CASE ~(to > portalRev) /\ ~c
    BY <1>0, <1>2, <1>4, <2>1, <2>5 DEF HandleMessage
  <2>6. to > portalRev => portalRev = 0 \/ portalRev > 0
    BY <1>0
  <2> QED BY <2>2, <2>3, <2>4, <2>5, <2>6
<1>5. CASE HistoryFetched
  <2>1. /\ loop' = [at |-> "page", hi |-> server, min |-> loop.min, change |-> loop.change]
        /\ loop.at = "history" /\ server' = server /\ portalRev' = portalRev
    BY <1>5 DEF HistoryFetched, roomVars
  <2> QED BY <1>0, <2>1 DEF LoopPart
<1>6. CASE HistoryProcessed
  <2>1. loop' = AfterCatchUp /\ loop.at = "page" /\ server' = server
    BY <1>6 DEF HistoryProcessed
  <2> QED BY <1>0, <2>1, AfterCatchUpOK DEF LoopPart
<1>7. CASE HistoryFails
  <2>1. /\ loop' = [at |-> "retrieve", why |-> "full", min |-> loop.min, change |-> loop.change]
        /\ loop.at \in {"history", "page"} /\ server' = server
    BY <1>7 DEF HistoryFails
  <2> QED BY <1>0, <2>1 DEF LoopPart
<1>8. CASE HandleChange \/ ChangeUndecryptable \/ UpdateFails \/ UpdateSucceeds
  BY <1>2, <1>8 DEF HandleChange, ChangeUndecryptable, UpdateFails, UpdateSucceeds
<1>9. CASE HandleMatrixChange
  <2>1. loop' = [at |-> "retrieve", why |-> "update", min |-> 0, change |-> 0]
    BY <1>9 DEF HandleMatrixChange
  <2> QED BY <1>0, <2>1 DEF LoopPart
<1>10. ASSUME NEW g, Use(g), loop.at \in {"retrieve", "stored"}, server' = server PROVE LoopPart'
  <2>1. CASE loop' = AfterCatchUp
    BY <1>0, <1>10, <2>1, AfterCatchUpOK DEF LoopPart
  <2>2. CASE loop' = [at |-> "patch", rev |-> g.rev + 1, retried |-> FALSE]
    BY <2>2 DEF LoopPart
  <2> QED BY <1>10, <2>1, <2>2 DEF Use
<1>11. CASE Retrieve
  <2>1. loop.at = "retrieve" /\ server' = server
    BY <1>11 DEF Retrieve
  <2>2. CASE Hit(loop.min)
    BY <1>10, <1>11, <2>1, <2>2 DEF Retrieve
  <2>3. CASE ~Hit(loop.min)
    <3>1. loop' = [at |-> "fetch", why |-> loop.why, change |-> loop.change]
      BY <1>11, <2>3 DEF Retrieve
    <3> QED BY <1>0, <2>1, <3>1 DEF LoopPart
  <2> QED BY <2>2, <2>3
<1>12. CASE Fetched
  <2>1. /\ loop' = [at |-> "fetched", why |-> loop.why, change |-> loop.change, snap |-> Snapshot(server)]
        /\ loop.at = "fetch" /\ server' = server
    BY <1>12 DEF Fetched
  <2>2. Whole(Snapshot(server), server)
    BY <1>0 DEF Whole, Snapshot
  <2>3. loop'.at = "fetched" /\ loop'.change \in 0..server /\ loop'.snap = Snapshot(server)
    BY <1>0, <2>1 DEF LoopPart
  <2> QED BY <2>1, <2>2, <2>3 DEF LoopPart
<1>13. CASE FetchFails
  <2>1. loop' = AfterCatchUp /\ loop.at \in {"fetch", "fetched", "stored"} /\ server' = server
    BY <1>13 DEF FetchFails
  <2> QED BY <1>0, <2>1, AfterCatchUpOK DEF LoopPart
<1>14. CASE Store
  <2>1. /\ loop' = [at |-> "stored", why |-> loop.why, change |-> loop.change, snap |-> loop.snap]
        /\ loop.at = "fetched" /\ server' = server
    BY <1>14 DEF Store
  <2> QED BY <1>0, <2>1 DEF LoopPart
<1>15. CASE GetAgain
  <2>1. loop.at = "stored" /\ server' = server /\ Use(IF Hit(0) THEN cache ELSE loop.snap)
    BY <1>15 DEF GetAgain
  <2> QED BY <1>10, <2>1
<1>16. CASE Patch
  <2>1. /\ loop' = [at |-> "patched", rev |-> loop.rev] /\ loop.rev = server + 1
        /\ server' = server + 1 /\ portalRev' = portalRev
    BY <1>16 DEF Patch, roomVars
  <2> QED BY <1>0, <2>1 DEF LoopPart
<1>17. CASE PatchNotAccepted
  <2>1. loop' = [at |-> "patch", rev |-> loop.rev, retried |-> TRUE]
    BY <1>17 DEF PatchNotAccepted
  <2> QED BY <2>1 DEF LoopPart
<1> QED BY <1>1, <1>3, <1>4, <1>5, <1>6, <1>7, <1>8, <1>9, <1>11, <1>12, <1>13, <1>14, <1>15,
           <1>16, <1>17 DEF PortalNext

\* An update of the room to a whole or partly changed group.
LEMMA UpdateInfoOK ==
  ASSUME RoomPart, server \in Nat, NEW g, Part(g, server), UpdateInfo(g), server' = server
  PROVE  RoomFollowsRevision' /\ portalRev' \in Nat /\ portalRev' >= portalRev
<1>1. /\ portalRev' = Larger(portalRev, g.rev) /\ room' = g.has
      /\ lost' = (lost \ g.has) \cup (g.rev + 1 .. portalRev) \cup (1..g.rev \ g.has)
      /\ portalRev \in Nat /\ portalRev <= server
      /\ g.rev \in Nat /\ g.rev <= server /\ g.has \subseteq 1..g.rev
  BY DEF UpdateInfo, RevisionUpdater, RoomPart, RoomFollowsRevision, Part
<1>2. /\ portalRev' \in Nat /\ portalRev' >= portalRev /\ portalRev' >= g.rev
      /\ portalRev' = portalRev \/ portalRev' = g.rev
  BY <1>1 DEF Larger
<1>3. room' \subseteq 1..portalRev' /\ portalRev' <= server'
  BY <1>1, <1>2
<1>4. ASSUME NEW r \in 1..portalRev' PROVE r \in room' \cup lost'
  BY <1>1, <1>2
<1> QED BY <1>2, <1>3, <1>4 DEF RoomFollowsRevision

\* Changes that follow the portal's revision without a gap, as far as they
\* could be converted.
LEMMA ProcessChangesOK ==
  ASSUME RoomPart, server \in Nat, server' = server, NEW done, NEW unconverted,
         done \subseteq 1..server,
         \A last \in done : \A r \in portalRev + 1 .. last : r \in done \cup unconverted,
         ProcessChatInfoChanges(done, unconverted)
  PROVE  RoomFollowsRevision' /\ portalRev' \in Nat /\ portalRev' >= portalRev
<1>1. CASE UNCHANGED roomVars
  BY <1>1 DEF RoomPart, RoomFollowsRevision, roomVars
<1>2. CASE ~UNCHANGED roomVars
  <2>1. PICK last \in done :
          /\ \A r \in done : r <= last
          /\ room' = room \cup done
          /\ portalRev' = Larger(portalRev, last)
          /\ lost' = (lost \ done) \cup {r \in unconverted : r <= last /\ r \notin room}
    BY <1>2 DEF ProcessChatInfoChanges, RevisionUpdater
  <2>2. /\ last \in Nat /\ last <= server /\ portalRev \in Nat /\ portalRev <= server
        /\ room \subseteq 1..portalRev /\ 1..portalRev \subseteq room \cup lost
    BY <2>1 DEF RoomPart, RoomFollowsRevision
  <2>3. /\ portalRev' \in Nat /\ portalRev' >= portalRev /\ portalRev' >= last
        /\ portalRev' = portalRev \/ portalRev' = last
    BY <2>1, <2>2 DEF Larger
  <2>4. room' \subseteq 1..portalRev' /\ portalRev' <= server'
    BY <2>1, <2>2, <2>3
  <2>5. ASSUME NEW r \in 1..portalRev' PROVE r \in room' \cup lost'
    <3>1. CASE r <= portalRev
      BY <2>1, <2>2, <2>3, <3>1
    <3>2. CASE ~(r <= portalRev)
      <4>1. r \in portalRev + 1 .. last
        BY <2>2, <2>3, <3>2
      <4>2. r \in done \cup unconverted /\ r <= last
        BY <2>1, <2>2, <4>1
      <4> QED BY <2>1, <4>2
    <3> QED BY <3>1, <3>2
  <2> QED BY <2>3, <2>4, <2>5 DEF RoomFollowsRevision
<1> QED BY <1>1, <1>2

\* What a goroutine queues is at most as new as the server's group.
LEMMA NextResyncs ==
  ASSUME IInv, [Next]_vars
  PROVE  \A g \in resyncs' : Part(g, server')
<1> USE DEF serverVars
<1>0. /\ server \in Nat /\ server' \in Nat /\ server' >= server
      /\ \A g \in resyncs : Part(g, server)
  BY NextFrame DEF IInv, CachePart, RoomPart
<1>1. CASE \E x \in Syncers : SyncQueues(x)
  <2>1. PICK x \in Syncers : SyncQueues(x)
    BY <1>1
  <2>2. Part(syncer[x], server)
    BY <2>1 DEF IInv, CachePart, SyncersOK, SyncerOK, SyncQueues
  <2> DEFINE h == [rev |-> syncer[x].rev, has |-> syncer[x].has]
  <2>3. Part(h, server)
    BY <2>2 DEF Part
  <2>4. resyncs' = resyncs \cup {h}
    BY <2>1 DEF SyncQueues
  <2> HIDE DEF h
  <2> QED BY <1>0, <2>3, <2>4 DEF Part
<1>2. CASE ~\E x \in Syncers : SyncQueues(x)
  <2>1. resyncs' \subseteq resyncs
    <3>1. CASE OthersChange \/ EndorsementsExpire \/ UNCHANGED vars
      BY <3>1 DEF OthersChange, EndorsementsExpire, vars
    <3>2. CASE \E x \in Syncers : SyncNext(x)
      BY <1>2, <3>2 DEF SyncNext, SyncRetrieves, SyncFetches, SyncFails, SyncStores, SyncGetsAgain
    <3>3. CASE PortalNext
      BY <3>3 DEF PortalNext, HandleResync, HandleMessage, HistoryFetched, HistoryProcessed,
         HistoryFails, HandleChange, ChangeUndecryptable, HandleMatrixChange, Retrieve, Fetched,
         FetchFails, Store, GetAgain, Patch, PatchNotAccepted, UpdateFails, UpdateSucceeds
    <3> QED BY <3>1, <3>2, <3>3 DEF Next
  <2> QED BY <1>0, <2>1 DEF Part
<1> QED BY <1>1, <1>2

LEMMA NextRoomPart == IInv /\ [Next]_vars => RoomPart' /\ portalRev' >= portalRev
<1> SUFFICES ASSUME IInv, [Next]_vars PROVE RoomPart' /\ portalRev' >= portalRev
  OBVIOUS
<1> USE DEF serverVars
<1> DEFINE Goal == RoomFollowsRevision' /\ portalRev' \in Nat /\ portalRev' >= portalRev
<1> HIDE DEF Goal
<1>0. /\ server \in Nat /\ LoopPart /\ RoomPart /\ portalRev \in Nat
      /\ server' \in Nat /\ server' >= server
  BY NextFrame DEF IInv, CachePart, RoomPart
<1>1. ASSUME UNCHANGED roomVars PROVE Goal
  BY <1>0, <1>1 DEF Goal, RoomPart, RoomFollowsRevision, roomVars
<1> SUFFICES Goal
  BY NextResyncs DEF RoomPart, Goal
<1>2. CASE ~PortalNext
  BY <1>0, <1>1, <1>2, NextFrame
<1>3. CASE HandleResync
  <2>1. PICK g \in resyncs : UpdateInfo(g)
    BY <1>3 DEF HandleResync
  <2>2. Part(g, server) /\ server' = server
    BY <1>0, <1>3, <2>1 DEF RoomPart, HandleResync
  <2> QED BY <1>0, <2>1, <2>2, UpdateInfoOK DEF Goal
<1>4. CASE (\E r \in 1..server, c \in BOOLEAN : HandleMessage(r, c)) \/ HistoryFetched
           \/ HistoryFails \/ ChangeUndecryptable \/ HandleMatrixChange \/ Fetched \/ FetchFails
           \/ Store \/ Patch \/ PatchNotAccepted \/ UpdateFails
  BY <1>1, <1>4 DEF HandleMessage, HistoryFetched, HistoryFails, ChangeUndecryptable,
     HandleMatrixChange, Fetched, FetchFails, Store, Patch, PatchNotAccepted, UpdateFails
<1>5. CASE HistoryProcessed
  <2>1. PICK unconverted \in SUBSET (portalRev..loop.min) :
          ProcessChatInfoChanges((portalRev..loop.min) \ unconverted, unconverted)
    BY <1>5 DEF HistoryProcessed
  <2>2. loop.min \in 1..server /\ portalRev > 0 /\ server' = server
    BY <1>0, <1>5 DEF HistoryProcessed, LoopPart
  <2> DEFINE done == (portalRev..loop.min) \ unconverted
  <2>3. done \subseteq 1..server
    BY <1>0, <2>2
  <2>4. \A last \in done : \A r \in portalRev + 1 .. last : r \in done \cup unconverted
    BY <1>0, <2>2
  <2> HIDE DEF done
  <2>5. ProcessChatInfoChanges(done, unconverted)
    BY <2>1 DEF done
  <2> QED BY <1>0, <2>2, <2>3, <2>4, <2>5, ProcessChangesOK DEF Goal
<1>6. CASE HandleChange
  <2>1. CASE UNCHANGED roomVars
    BY <1>1, <2>1
  <2>2. CASE loop.change = portalRev + 1 /\ ProcessChatInfoChanges({loop.change}, {})
    <3>1. loop.change \in 1..server /\ server' = server
      BY <1>0, <1>6 DEF HandleChange, LoopPart
    <3>2. \A last \in {loop.change} : \A r \in portalRev + 1 .. last : r \in {loop.change} \cup {}
      BY <1>0, <2>2
    <3>3. {loop.change} \subseteq 1..server
      BY <3>1
    <3> QED BY <1>0, <2>2, <3>1, <3>2, <3>3, ProcessChangesOK DEF Goal
  <2> QED BY <1>6, <2>1, <2>2 DEF HandleChange
<1>7. ASSUME NEW g, Part(g, server), Use(g), server' = server PROVE Goal
  BY <1>0, <1>1, <1>7, UpdateInfoOK DEF Use, Goal
<1>8. CASE Retrieve
  <2>1. CASE Hit(loop.min)
    <3>1. Use(cache) /\ server' = server
      BY <1>8, <2>1 DEF Retrieve
    <3>2. Part(cache, server)
      BY <2>1 DEF Hit, IInv, CachePart, CacheOK, Whole, Part
    <3> QED BY <1>7, <3>1, <3>2
  <2>2. CASE ~Hit(loop.min)
    BY <1>1, <1>8, <2>2 DEF Retrieve
  <2> QED BY <2>1, <2>2
<1>9. CASE GetAgain
  <2>1. loop.at = "stored" /\ server' = server
    BY <1>9 DEF GetAgain
  <2>2. CASE Hit(0)
    <3>1. Use(cache)
      BY <1>9, <2>2 DEF GetAgain
    <3>2. Part(cache, server)
      BY <2>2 DEF Hit, IInv, CachePart, CacheOK, Whole, Part
    <3> QED BY <1>7, <2>1, <3>1, <3>2
  <2>3. CASE ~Hit(0)
    <3>1. Use(loop.snap)
      BY <1>9, <2>3 DEF GetAgain
    <3>2. Part(loop.snap, server)
      BY <1>0, <2>1 DEF LoopPart, Whole, Part
    <3> QED BY <1>7, <2>1, <3>1, <3>2
  <2> QED BY <2>2, <2>3
<1>10. CASE UpdateSucceeds
  <2>1. CASE UNCHANGED roomVars
    BY <1>1, <2>1
  <2>2. CASE ~UNCHANGED roomVars
    <3>1. /\ room' = room \cup ({loop.rev} \ misread)
          /\ portalRev' = loop.rev
          /\ lost' = lost \cup (portalRev + 1 .. loop.rev - 1) \cup ({loop.rev} \cap misread)
          /\ server' = server
      BY <1>10, <2>2 DEF UpdateSucceeds
    <3>2. loop.rev \in 1..server /\ loop.rev > portalRev
      BY <1>0, <1>10 DEF UpdateSucceeds, LoopPart
    <3>3. room \subseteq 1..portalRev /\ 1..portalRev \subseteq room \cup lost
      BY <1>0 DEF RoomPart, RoomFollowsRevision
    <3>4. room' \subseteq 1..portalRev' /\ portalRev' <= server'
      <4>1. portalRev' \in Nat /\ portalRev' > portalRev /\ portalRev' >= 1 /\ portalRev' <= server'
        BY <1>0, <3>1, <3>2
      <4>2. 1..portalRev \subseteq 1..portalRev' /\ loop.rev \in 1..portalRev'
        BY <1>0, <3>1, <4>1
      <4> QED BY <3>1, <3>3, <4>1, <4>2
    <3>5. ASSUME NEW r \in 1..portalRev' PROVE r \in room' \cup lost'
      <4>1. CASE r <= portalRev
        BY <1>0, <3>1, <3>2, <3>3, <4>1
      <4>2. CASE r = loop.rev
        BY <3>1, <4>2
      <4>3. CASE ~(r <= portalRev) /\ r # loop.rev
        <5>1. r \in portalRev + 1 .. loop.rev - 1
          BY <1>0, <3>1, <3>2, <4>3
        <5> QED BY <3>1, <5>1
      <4> QED BY <4>1, <4>2, <4>3
    <3> QED BY <1>0, <3>1, <3>2, <3>4, <3>5 DEF Goal, RoomFollowsRevision
  <2> QED BY <2>1, <2>2
<1> QED
  BY <1>2, <1>3, <1>4, <1>5, <1>6, <1>8, <1>9, <1>10 DEF PortalNext

LEMMA Inductive == Spec => []IInv
<1>1. Init => IInv
  BY DEF Init, IInv, CachePart, CacheOK, SyncersOK, SyncerOK, LoopPart, RoomPart, RoomFollowsRevision
<1>2. IInv /\ [Next]_vars => IInv'
  BY NextCachePart, NextLoopPart, NextRoomPart DEF IInv
<1> QED BY <1>1, <1>2, PTL DEF Spec

-----------------------------------------------------------------------------
(* Type correctness.                                                       *)

\* An event that carries a change carries one of somebody else.
Carried ==
  loop.at \in {"history", "page", "retrieve", "fetch", "fetched", "stored", "change"} =>
    loop.change \notin own

\* Only another member and an own update that the server takes make a revision.
LEMMA ServerTypes ==
  ASSUME TypeOK, [Next]_vars
  PROVE  /\ server' \in Revisions /\ own' \subseteq 1..server' /\ misread' \subseteq own'
         /\ UNCHANGED own \/ (Patch /\ own' = own \cup {loop.rev})
<1> USE DEF serverVars
<1>0. /\ server \in Revisions /\ own \subseteq 1..server /\ misread \subseteq own
      /\ MaxRevision \in Nat
  BY BoundAssumption DEF TypeOK
<1>1. CASE OthersChange
  BY <1>0, <1>1 DEF OthersChange, Revisions
<1>2. CASE Patch
  <2>1. /\ server' = server + 1 /\ server < MaxRevision /\ loop.rev = server + 1
        /\ own' = own \cup {loop.rev}
    BY <1>2 DEF Patch
  <2>2. server' \in Revisions /\ own' \subseteq 1..server'
    BY <1>0, <2>1 DEF Revisions
  <2>3. misread' \subseteq misread \cup {loop.rev}
    BY <1>2 DEF Patch
  <2> QED BY <1>0, <1>2, <2>1, <2>2, <2>3
<1>3. CASE UNCHANGED serverVars
  BY <1>0, <1>3
<1>4. CASE PortalNext /\ ~Patch
  BY <1>3, <1>4, Zenon
  DEF PortalNext, HandleResync, HandleMessage, HistoryFetched, HistoryProcessed,
      HistoryFails, HandleChange, ChangeUndecryptable, HandleMatrixChange, Retrieve, Fetched,
      FetchFails, Store, GetAgain, PatchNotAccepted, UpdateFails, UpdateSucceeds
<1>5. CASE \E x \in Syncers : SyncNext(x)
  BY <1>3, <1>5, Zenon
  DEF SyncNext, SyncRetrieves, SyncFetches, SyncFails, SyncStores, SyncGetsAgain, SyncQueues
<1>6. CASE EndorsementsExpire \/ UNCHANGED vars
  BY <1>3, <1>6, Zenon DEF EndorsementsExpire, vars
<1> QED BY <1>1, <1>2, <1>4, <1>5, <1>6, Zenon DEF Next

\* What a step leaves in the cache: nothing, what was there, or a group.
IsEntry(c) == \E r, h : \E f \in BOOLEAN : c = [rev |-> r, has |-> h, fresh |-> f]
CacheStep == cache' = None \/ cache' = cache \/ IsEntry(cache')

LEMMA AppliedShape ==
  ASSUME NEW r, NEW right, NEW endorsed, cache' = Applied(r, right, endorsed).cache
  PROVE  CacheStep
<1>1. CASE cache = None \/ cache.rev >= r
  BY <1>1 DEF Applied, CacheStep
<1>2. CASE ~(cache = None \/ cache.rev >= r) /\ cache.rev < r - 1
  BY <1>2 DEF Applied, CacheStep
<1>3. CASE ~(cache = None \/ cache.rev >= r) /\ ~(cache.rev < r - 1) /\ endorsed
  <2>1. cache' = [rev |-> r, has |-> cache.has \cup {x \in {r} : right}, fresh |-> TRUE]
    BY <1>3 DEF Applied
  <2> QED BY <2>1, Zenon DEF CacheStep, IsEntry
<1>4. CASE ~(cache = None \/ cache.rev >= r) /\ ~(cache.rev < r - 1) /\ ~endorsed
  BY <1>4 DEF Applied, CacheStep
<1> QED BY <1>1, <1>2, <1>3, <1>4, Zenon

LEMMA PutShape ==
  ASSUME NEW snap, cache' \in Puts(snap)
  PROVE  CacheStep
<1>1. cache' = cache \/ cache' = Entry(snap)
  BY Zenon DEF Puts
<1> QED BY <1>1, Zenon DEF CacheStep, IsEntry, Entry

LEMMA CacheShape == [Next]_vars => CacheStep
<1> SUFFICES ASSUME [Next]_vars PROVE CacheStep
  OBVIOUS
<1> USE DEF cacheVars
<1>0. ASSUME cache' = cache \/ cache' = None PROVE CacheStep
  BY <1>0, Zenon DEF CacheStep
<1>1. CASE EndorsementsExpire
  BY <1>1, Zenon DEF EndorsementsExpire, CacheStep, IsEntry
<1>2. CASE OthersChange \/ UNCHANGED vars
  BY <1>0, <1>2, Zenon DEF OthersChange, vars
<1>3. ASSUME NEW x \in Syncers, SyncNext(x) PROVE CacheStep
  <2>1. CASE SyncStores(x)
    BY <2>1, PutShape, Zenon DEF SyncStores
  <2> QED BY <1>0, <1>3, <2>1, Zenon
          DEF SyncNext, SyncRetrieves, SyncFetches, SyncFails, SyncGetsAgain, SyncQueues
<1>4. CASE HistoryProcessed
  <2>1. cache' = AppliedPage(portalRev, loop.hi).cache
    BY <1>4, Zenon DEF HistoryProcessed
  <2>2. CASE cache = None \/ cache.rev >= loop.hi
    <3>1. cache' = cache
      BY <2>1, <2>2 DEF AppliedPage
    <3> QED BY <1>0, <3>1, Zenon
  <2>3. CASE ~(cache = None \/ cache.rev >= loop.hi)
    <3>1. cache' = Applied(Larger(portalRev, cache.rev + 1), TRUE, FALSE).cache
      BY <2>1, <2>3, Zenon DEF AppliedPage
    <3> QED BY <3>1, AppliedShape, Zenon
  <2> QED BY <2>2, <2>3, Zenon
<1>5. CASE HandleChange
  BY <1>5, AppliedShape, Zenon DEF HandleChange, ApplyUpdate
<1>6. CASE UpdateSucceeds
  BY <1>6, AppliedShape, Zenon DEF UpdateSucceeds, ApplyUpdate
<1>7. CASE Store
  BY <1>7, PutShape, Zenon DEF Store
<1>8. CASE PortalNext /\ ~HistoryProcessed /\ ~HandleChange /\ ~UpdateSucceeds /\ ~Store
  BY <1>0, <1>8, Zenon
  DEF PortalNext, HandleResync, HandleMessage, HistoryFetched, HistoryFails, ChangeUndecryptable,
      Evict, HandleMatrixChange, Retrieve, Fetched, FetchFails, GetAgain, Patch, PatchNotAccepted,
      UpdateFails
<1> QED BY <1>1, <1>2, <1>3, <1>4, <1>5, <1>6, <1>7, <1>8, Zenon DEF Next

\* What the cache holds is a group of a revision the server has had.
LEMMA CacheTypes ==
  ASSUME TypeOK, CachePart', server' \in Revisions, CacheStep
  PROVE  cache' = None \/ cache' \in [rev : Revisions, has : SUBSET (1..MaxRevision), fresh : BOOLEAN]
<1>1. cache' = None \/ (cache'.rev \in Nat /\ cache'.rev <= server' /\ cache'.has = 1..cache'.rev)
  BY Zenon DEF CachePart, CacheOK, Whole
<1>2. CASE cache' = cache
  BY <1>2, Zenon DEF TypeOK
<1>3. ASSUME cache' # None, IsEntry(cache')
      PROVE  cache' \in [rev : Revisions, has : SUBSET (1..MaxRevision), fresh : BOOLEAN]
  <2>0. PICK r, h : \E f \in BOOLEAN : cache' = [rev |-> r, has |-> h, fresh |-> f]
    BY <1>3, Zenon DEF IsEntry
  <2>1. PICK f \in BOOLEAN : cache' = [rev |-> r, has |-> h, fresh |-> f]
    BY <2>0, Zenon
  <2>2. cache'.rev = r /\ cache'.has = h
    BY <2>1
  <2>3. r \in Nat /\ r <= server' /\ h = 1..r
    BY <1>1, <1>3, <2>2, Zenon
  <2>4. r \in Revisions /\ h \in SUBSET (1..MaxRevision)
    BY <2>3, BoundAssumption DEF Revisions
  <2> QED BY <2>1, <2>4, Zenon
<1> QED BY <1>2, <1>3, Zenon DEF CacheStep

\* A resync carries a group of a revision the server has had.
LEMMA ResyncTypes ==
  ASSUME TypeOK, RoomPart', server' \in Revisions, [Next]_vars
  PROVE  resyncs' \subseteq Contents
<1>1. CASE \E x \in Syncers : SyncQueues(x)
  <2>1. PICK x \in Syncers : SyncQueues(x)
    BY <1>1
  <2> DEFINE r == syncer[x].rev
             h == syncer[x].has
  <2>2. resyncs' = resyncs \cup {[rev |-> r, has |-> h]}
    BY <2>1, Zenon DEF SyncQueues
  <2> HIDE DEF r, h
  <2>3. Part([rev |-> r, has |-> h], server')
    BY <2>2, Zenon DEF RoomPart
  <2>4. r \in Nat /\ r <= server' /\ h \subseteq 1..r
    BY <2>3 DEF Part
  <2>5. r \in Revisions /\ h \in SUBSET (1..MaxRevision)
    BY <2>4, BoundAssumption DEF Revisions
  <2>6. resyncs \subseteq Contents
    BY Zenon DEF TypeOK
  <2>7. [rev |-> r, has |-> h] \in Contents
    BY <2>5 DEF Contents
  <2> QED BY <2>2, <2>6, <2>7
<1>2. CASE ~\E x \in Syncers : SyncQueues(x)
  <2>1. resyncs' \subseteq resyncs
    <3>1. CASE OthersChange \/ EndorsementsExpire \/ UNCHANGED vars
      BY <3>1, Zenon DEF OthersChange, EndorsementsExpire, vars
    <3>2. CASE \E x \in Syncers : SyncNext(x)
      BY <1>2, <3>2, Zenon
      DEF SyncNext, SyncRetrieves, SyncFetches, SyncFails, SyncStores, SyncGetsAgain
    <3>3. CASE PortalNext
      BY <3>3, Zenon
      DEF PortalNext, HandleResync, HandleMessage, HistoryFetched, HistoryProcessed,
          HistoryFails, HandleChange, ChangeUndecryptable, HandleMatrixChange, Retrieve, Fetched,
          FetchFails, Store, GetAgain, Patch, PatchNotAccepted, UpdateFails, UpdateSucceeds
    <3> QED BY <3>1, <3>2, <3>3, Zenon DEF Next
  <2> QED BY <2>1, Zenon DEF TypeOK
<1> QED BY <1>1, <1>2, Zenon

SyncerSteps == {"idle", "fetch", "fetched", "stored", "reading"}
AllSyncers(f) == \A x \in Syncers : f[x].at \in SyncerSteps

\* Replacing or changing the cached group leaves every goroutine where it is.
LEMMA SyncerMoves ==
  ASSUME AllSyncers(syncer)
  PROVE  /\ AllSyncers(Detached)
         /\ \A r, right, endorsed : AllSyncers(Applied(r, right, endorsed).syncer)
         /\ \A lo, hi : AllSyncers(AppliedPage(lo, hi).syncer)
         /\ \A c : AllSyncers(Readers(c))
<1>1. \A s : Detach(s).at = s.at
  BY DEF Detach, Reading
<1>2. \A s, r : InPlace(s, r).at = s.at
  BY DEF InPlace, Reading
<1>3. AllSyncers(Detached)
  BY <1>1, Zenon DEF AllSyncers, Detached
<1>4. ASSUME NEW r, NEW right, NEW endorsed PROVE AllSyncers(Applied(r, right, endorsed).syncer)
  <2> DEFINE readers == [x \in Syncers |-> InPlace(syncer[x], r)]
             f == Applied(r, right, endorsed).syncer
  <2>1. f = syncer \/ f = Detached \/ f = readers \/ f = [x \in Syncers |-> Detach(readers[x])]
    BY DEF Applied
  <2>2. AllSyncers(readers)
    BY <1>2, Zenon DEF AllSyncers
  <2>3. AllSyncers([x \in Syncers |-> Detach(readers[x])])
    <3> HIDE DEF readers
    <3> QED BY <1>1, <2>2, Zenon DEF AllSyncers
  <2> HIDE DEF f, readers
  <2> QED BY <1>3, <2>1, <2>2, <2>3, Zenon DEF f
<1>5. ASSUME NEW lo, NEW hi PROVE AllSyncers(AppliedPage(lo, hi).syncer)
  <2> DEFINE r == Larger(lo, cache.rev + 1)
  <2>1. AppliedPage(lo, hi).syncer = syncer \/ AppliedPage(lo, hi).syncer = Applied(r, TRUE, FALSE).syncer
    BY DEF AppliedPage
  <2> HIDE DEF r
  <2> QED BY <1>4, <2>1, Zenon
<1>6. \A c : AllSyncers(Readers(c))
  BY <1>3, Zenon DEF Readers
<1> QED BY <1>3, <1>4, <1>5, <1>6, Zenon

\* The places of the goroutines of the chat sync.
LEMMA SyncerTypes ==
  ASSUME AllSyncers(syncer), syncer = [x \in Syncers |-> syncer[x]], [Next]_vars
  PROVE  AllSyncers(syncer')
<1> USE DEF cacheVars
<1>0. ASSUME syncer' = syncer PROVE AllSyncers(syncer')
  BY <1>0, Zenon
<1>1. CASE OthersChange \/ EndorsementsExpire \/ UNCHANGED vars
  BY <1>0, <1>1, Zenon DEF OthersChange, EndorsementsExpire, vars
<1>2. ASSUME NEW x \in Syncers, SyncNext(x) PROVE AllSyncers(syncer')
  <2>0. ASSUME NEW f, NEW s, f = [y \in Syncers |-> f[y]], AllSyncers(f), s.at \in SyncerSteps,
               syncer' = [f EXCEPT ![x] = s]
        PROVE  AllSyncers(syncer')
    BY <2>0, Zenon DEF AllSyncers
  <2>1. CASE \E min \in 0..server : SyncRetrieves(x, min)
    <3>1. PICK min \in 0..server : SyncRetrieves(x, min)
      BY <2>1
    <3> DEFINE s == IF Hit(min) THEN Reading(cache, TRUE) ELSE [at |-> "fetch"]
    <3>2. s.at \in SyncerSteps
      BY DEF Reading, SyncerSteps
    <3>3. syncer' = [syncer EXCEPT ![x] = s]
      BY <3>1, Zenon DEF SyncRetrieves
    <3> HIDE DEF s
    <3> QED BY <2>0, <3>2, <3>3, Zenon
  <2>2. CASE SyncFetches(x)
    <3> DEFINE s == [at |-> "fetched", snap |-> Snapshot(server)]
    <3>1. s.at \in SyncerSteps
      BY DEF SyncerSteps
    <3>2. syncer' = [syncer EXCEPT ![x] = s]
      BY <2>2, Zenon DEF SyncFetches
    <3> HIDE DEF s
    <3> QED BY <2>0, <3>1, <3>2, Zenon
  <2>3. CASE SyncFails(x) \/ SyncQueues(x)
    <3>1. Idle.at \in SyncerSteps
      BY DEF SyncerSteps
    <3>2. syncer' = [syncer EXCEPT ![x] = Idle]
      BY <2>3, Zenon DEF SyncFails, SyncQueues
    <3> QED BY <2>0, <3>1, <3>2, Zenon
  <2>4. CASE SyncStores(x)
    <3> DEFINE s == [at |-> "stored", snap |-> syncer[x].snap]
    <3>1. s.at \in SyncerSteps
      BY DEF SyncerSteps
    <3>2. PICK c : syncer' = [Readers(c) EXCEPT ![x] = s]
      BY <2>4, Zenon DEF SyncStores
    <3>3. Readers(c) = [y \in Syncers |-> Readers(c)[y]]
      <4>1. Readers(c) = syncer \/ Readers(c) = Detached
        BY Zenon DEF Readers
      <4>2. Detached = [y \in Syncers |-> Detached[y]]
        BY DEF Detached
      <4> QED BY <4>1, <4>2, Zenon
    <3> HIDE DEF s
    <3> QED BY <2>0, <3>1, <3>2, <3>3, SyncerMoves, Zenon
  <2>5. CASE SyncGetsAgain(x)
    <3> DEFINE s == IF Hit(0) THEN Reading(cache, TRUE) ELSE Reading(syncer[x].snap, FALSE)
    <3>1. s.at \in SyncerSteps
      BY DEF Reading, SyncerSteps
    <3>2. syncer' = [syncer EXCEPT ![x] = s]
      BY <2>5, Zenon DEF SyncGetsAgain
    <3> HIDE DEF s
    <3> QED BY <2>0, <3>1, <3>2, Zenon
  <2> QED BY <1>2, <2>1, <2>2, <2>3, <2>4, <2>5, Zenon DEF SyncNext
<1>3. CASE HistoryProcessed
  BY <1>3, SyncerMoves, Zenon DEF HistoryProcessed
<1>4. CASE HistoryFails
  <2>1. ASSUME NEW bad,
               syncer' = [x \in Syncers |-> Detach(AppliedPage(portalRev, bad - 1).syncer[x])]
        PROVE  AllSyncers(syncer')
    <3>1. \A s : Detach(s).at = s.at
      BY DEF Detach, Reading
    <3>2. AllSyncers(AppliedPage(portalRev, bad - 1).syncer)
      BY SyncerMoves, Zenon
    <3> QED BY <2>1, <3>1, <3>2, Zenon DEF AllSyncers
  <2> QED BY <1>0, <1>4, <2>1, Zenon DEF HistoryFails
<1>5. CASE HandleChange \/ UpdateSucceeds
  <2>1. \E r, right, endorsed : syncer' = Applied(r, right, endorsed).syncer
    BY <1>5, Zenon DEF HandleChange, UpdateSucceeds, ApplyUpdate
  <2>2. PICK r, right, endorsed : syncer' = Applied(r, right, endorsed).syncer
    BY <2>1, Zenon
  <2>3. AllSyncers(Applied(r, right, endorsed).syncer)
    BY SyncerMoves, Zenon
  <2> QED BY <2>2, <2>3, Zenon
<1>6. CASE ChangeUndecryptable
  BY <1>6, SyncerMoves, Zenon DEF ChangeUndecryptable, Evict
<1>7. CASE Store
  BY <1>7, SyncerMoves, Zenon DEF Store
<1>8. CASE \/ HandleResync \/ HistoryFetched \/ HandleMatrixChange \/ Retrieve \/ Fetched \/ FetchFails
           \/ GetAgain \/ Patch \/ PatchNotAccepted \/ UpdateFails
           \/ \E r \in 1..server, c \in BOOLEAN : HandleMessage(r, c)
  BY <1>0, <1>8, Zenon
  DEF HandleResync, HandleMessage, HistoryFetched, HandleMatrixChange, Retrieve, Fetched, FetchFails,
      GetAgain, Patch, PatchNotAccepted, UpdateFails
<1> QED BY <1>1, <1>2, <1>3, <1>4, <1>5, <1>6, <1>7, <1>8, Zenon DEF Next, PortalNext

LoopSteps == {"idle", "history", "page", "change", "retrieve", "fetch", "fetched",
              "stored", "patch", "patched"}
LoopTypes ==
  /\ loop.at \in LoopSteps
  /\ Carried
  /\ loop.at = "patched" => loop.rev \in own

\* AfterCatchUp goes on with the change the event carried.
LEMMA AfterCatchUpTypes ==
  ASSUME loop.change \notin own, own' = own, loop' = AfterCatchUp
  PROVE  LoopTypes'
<1>1. CASE loop.change = 0
  <2>1. loop'.at = "idle"
    BY <1>1 DEF AfterCatchUp
  <2> QED BY <2>1 DEF LoopTypes, LoopSteps, Carried
<1>2. CASE loop.change # 0
  <2>1. loop'.at = "change" /\ loop'.change = loop.change
    BY <1>2 DEF AfterCatchUp
  <2> QED BY <2>1 DEF LoopTypes, LoopSteps, Carried
<1> QED BY <1>1, <1>2, Zenon

\* No step of the portal's loop takes up an own change as if it were somebody else's.
LEMMA NextLoopTypes ==
  ASSUME IInv, TypeOK, LoopTypes, [Next]_vars
  PROVE  LoopTypes'
<1> USE DEF serverVars
<1>0. 0 \notin own
  BY DEF TypeOK
<1>1. ASSUME own' = own, loop' = loop PROVE LoopTypes'
  BY <1>1, Zenon DEF LoopTypes, Carried
<1>2. ASSUME loop' = Idle PROVE LoopTypes'
  <2>1. loop'.at = "idle"
    BY <1>2
  <2> QED BY <2>1 DEF LoopTypes, LoopSteps, Carried
<1>3. ASSUME own' = own, NEW at \in {"history", "page", "retrieve", "fetch", "fetched", "stored", "change"},
             loop'.at = at, loop'.change \notin own
      PROVE  LoopTypes'
  BY <1>3 DEF LoopTypes, LoopSteps, Carried
<1>4. CASE ~PortalNext
  <2>1. own' = own
    BY <1>4, ServerTypes, Zenon DEF PortalNext
  <2>2. server \in Nat
    BY Zenon DEF IInv, CachePart
  <2>3. loop' = loop
    BY <1>4, <2>2, NextFrame
  <2> QED BY <1>1, <2>1, <2>3, Zenon
<1>5. CASE HandleResync
  BY <1>1, <1>5, Zenon DEF HandleResync
<1>6. ASSUME NEW r \in 1..server, NEW c \in BOOLEAN, HandleMessage(r, c) PROVE LoopTypes'
  <2> DEFINE to == IF c THEN r - 1 ELSE r
             ch == IF c THEN r ELSE 0
  <2>1. ch \notin own /\ own' = own
    BY <1>0, <1>6, Zenon DEF HandleMessage
  <2>2. \/ loop' = [at |-> "retrieve", why |-> "full", min |-> to, change |-> ch]
        \/ loop' = [at |-> "history", min |-> to, change |-> ch]
        \/ c /\ loop' = [at |-> "change", change |-> r]
        \/ loop' = Idle
    <3>1. portalRev \in Nat
      BY Zenon DEF IInv, RoomPart
    <3>2. to \in Int
      OBVIOUS
    <3>3. /\ to > portalRev => portalRev = 0 \/ portalRev > 0
          /\ ~(to > portalRev) <=> to <= portalRev
      <4> HIDE DEF to
      <4> QED BY <3>1, <3>2
    <3>4. loop' = CASE to > portalRev /\ portalRev = 0 -> [at |-> "retrieve", why |-> "full", min |-> to, change |-> ch]
                    [] to > portalRev /\ portalRev > 0 -> [at |-> "history", min |-> to, change |-> ch]
                    [] to <= portalRev /\ c -> [at |-> "change", change |-> r]
                    [] OTHER -> Idle
      BY <1>6, Zenon DEF HandleMessage
    <3> HIDE DEF to, ch
    <3> QED BY <3>3, <3>4
  <2>3. c => ch = r
    OBVIOUS
  <2> HIDE DEF to, ch
  <2>4. CASE loop' = [at |-> "retrieve", why |-> "full", min |-> to, change |-> ch]
    <3>1. loop'.at = "retrieve" /\ loop'.change = ch
      BY <2>4
    <3> QED BY <1>3, <2>1, <3>1
  <2>5. CASE loop' = [at |-> "history", min |-> to, change |-> ch]
    <3>1. loop'.at = "history" /\ loop'.change = ch
      BY <2>5
    <3> QED BY <1>3, <2>1, <3>1
  <2>6. CASE c /\ loop' = [at |-> "change", change |-> r]
    <3>1. loop'.at = "change" /\ loop'.change = ch
      BY <2>3, <2>6
    <3> QED BY <1>3, <2>1, <3>1
  <2> QED BY <1>2, <2>2, <2>4, <2>5, <2>6, Zenon
<1>7. CASE HistoryFetched
  <2>1. /\ own' = own /\ loop.at = "history"
        /\ loop' = [at |-> "page", hi |-> server, min |-> loop.min, change |-> loop.change]
    BY <1>7, Zenon DEF HistoryFetched
  <2>2. loop'.at = "page" /\ loop'.change = loop.change
    BY <2>1
  <2> QED BY <1>3, <2>1, <2>2 DEF LoopTypes, Carried
<1>8. CASE HistoryProcessed
  <2>1. own' = own /\ loop.at = "page" /\ loop' = AfterCatchUp
    BY <1>8, Zenon DEF HistoryProcessed
  <2> QED BY <2>1, AfterCatchUpTypes DEF LoopTypes, Carried
<1>9. CASE HistoryFails
  <2>1. /\ own' = own /\ loop.at \in {"history", "page"}
        /\ loop' = [at |-> "retrieve", why |-> "full", min |-> loop.min, change |-> loop.change]
    BY <1>9, Zenon DEF HistoryFails
  <2>2. loop'.at = "retrieve" /\ loop'.change = loop.change
    BY <2>1
  <2> QED BY <1>3, <2>1, <2>2 DEF LoopTypes, Carried
<1>10. CASE HandleChange \/ ChangeUndecryptable \/ UpdateFails \/ UpdateSucceeds
  BY <1>2, <1>10, Zenon DEF HandleChange, ChangeUndecryptable, UpdateFails, UpdateSucceeds
<1>11. CASE HandleMatrixChange
  <2>1. own' = own /\ loop' = [at |-> "retrieve", why |-> "update", min |-> 0, change |-> 0]
    BY <1>11, Zenon DEF HandleMatrixChange
  <2>2. loop'.at = "retrieve" /\ loop'.change = 0
    BY <2>1
  <2> QED BY <1>0, <1>3, <2>1, <2>2
<1>12. ASSUME NEW g, Use(g), own' = own, loop.change \notin own PROVE LoopTypes'
  <2>1. loop' = AfterCatchUp \/ loop' = [at |-> "patch", rev |-> g.rev + 1, retried |-> FALSE]
    BY <1>12, Zenon DEF Use
  <2>2. CASE loop' = [at |-> "patch", rev |-> g.rev + 1, retried |-> FALSE]
    <3>1. loop'.at = "patch"
      BY <2>2
    <3> QED BY <3>1 DEF LoopTypes, LoopSteps, Carried
  <2> QED BY <1>12, <2>1, <2>2, AfterCatchUpTypes, Zenon
<1>13. CASE Retrieve
  <2>1. own' = own /\ loop.at = "retrieve"
    BY <1>13, Zenon DEF Retrieve
  <2>2. loop.change \notin own
    BY <2>1 DEF LoopTypes, Carried
  <2>3. Use(cache) \/ loop' = [at |-> "fetch", why |-> loop.why, change |-> loop.change]
    BY <1>13, Zenon DEF Retrieve
  <2>4. CASE loop' = [at |-> "fetch", why |-> loop.why, change |-> loop.change]
    <3>1. loop'.at = "fetch" /\ loop'.change = loop.change
      BY <2>4
    <3> QED BY <1>3, <2>1, <2>2, <3>1
  <2> QED BY <1>12, <2>1, <2>2, <2>3, <2>4, Zenon
<1>14. CASE Fetched
  <2>1. /\ own' = own /\ loop.at = "fetch"
        /\ loop' = [at |-> "fetched", why |-> loop.why, change |-> loop.change, snap |-> Snapshot(server)]
    BY <1>14, Zenon DEF Fetched
  <2>2. loop'.at = "fetched" /\ loop'.change = loop.change
    BY <2>1
  <2> QED BY <1>3, <2>1, <2>2 DEF LoopTypes, Carried
<1>15. CASE FetchFails
  <2>1. own' = own /\ loop.at \in {"fetch", "fetched", "stored"} /\ loop' = AfterCatchUp
    BY <1>15, Zenon DEF FetchFails
  <2> QED BY <2>1, AfterCatchUpTypes DEF LoopTypes, Carried
<1>16. CASE Store
  <2>1. /\ own' = own /\ loop.at = "fetched"
        /\ loop' = [at |-> "stored", why |-> loop.why, change |-> loop.change, snap |-> loop.snap]
    BY <1>16, Zenon DEF Store
  <2>2. loop'.at = "stored" /\ loop'.change = loop.change
    BY <2>1
  <2> QED BY <1>3, <2>1, <2>2 DEF LoopTypes, Carried
<1>17. CASE GetAgain
  <2>1. own' = own /\ loop.at = "stored" /\ \E g : Use(g)
    BY <1>17, Zenon DEF GetAgain
  <2>2. loop.change \notin own
    BY <2>1 DEF LoopTypes, Carried
  <2> QED BY <1>12, <2>1, <2>2, Zenon
<1>18. CASE Patch
  <2>1. loop' = [at |-> "patched", rev |-> loop.rev] /\ own' = own \cup {loop.rev}
    BY <1>18, Zenon DEF Patch
  <2>2. loop'.at = "patched" /\ loop'.rev = loop.rev
    BY <2>1
  <2> QED BY <2>1, <2>2 DEF LoopTypes, LoopSteps, Carried
<1>19. CASE PatchNotAccepted
  <2>1. loop' = [at |-> "patch", rev |-> loop.rev, retried |-> TRUE]
    BY <1>19, Zenon DEF PatchNotAccepted
  <2>2. loop'.at = "patch"
    BY <2>1
  <2> QED BY <2>2 DEF LoopTypes, LoopSteps, Carried
<1> QED BY <1>4, <1>5, <1>6, <1>7, <1>8, <1>9, <1>10, <1>11, <1>13, <1>14, <1>15, <1>16, <1>17, <1>18,
           <1>19, Zenon DEF PortalNext

Losses == lost \subseteq 1..MaxRevision

\* An older group loses changes up to the portal's revision, one that was being
\* changed those up to its own.
LEMMA UpdateInfoLosses ==
  ASSUME Losses, server \in Revisions, portalRev \in Nat, portalRev <= server,
         NEW g, g.rev \in Nat, g.rev <= server, UpdateInfo(g)
  PROVE  Losses'
<1>1. server \in Nat /\ server <= MaxRevision /\ MaxRevision \in Nat
  BY BoundAssumption DEF Revisions
<1>2. g.rev + 1 .. portalRev \subseteq 1..MaxRevision
  BY <1>1
<1>3. 1..g.rev \subseteq 1..MaxRevision
  BY <1>1
<1>4. lost' = (lost \ g.has) \cup (g.rev + 1 .. portalRev) \cup (1..g.rev \ g.has)
  BY Zenon DEF UpdateInfo
<1> QED BY <1>2, <1>3, <1>4 DEF Losses

\* A change that could not be converted is one of the page.
LEMMA ChangesLosses ==
  ASSUME Losses, NEW done, NEW unconverted \in SUBSET (1..MaxRevision),
         ProcessChatInfoChanges(done, unconverted)
  PROVE  Losses'
<1>1. lost' = lost \/ \E last : lost' = (lost \ done) \cup {r \in unconverted : r <= last /\ r \notin room}
  BY Zenon DEF ProcessChatInfoChanges, roomVars
<1> QED BY <1>1, Zenon DEF Losses

\* What the room misses are changes the group has had.
LEMMA NextLosses ==
  ASSUME IInv, TypeOK, [Next]_vars
  PROVE  Losses'
<1>0. /\ Losses /\ server \in Revisions /\ server \in Nat /\ portalRev \in Nat /\ portalRev <= server
      /\ server <= MaxRevision /\ MaxRevision \in Nat
  BY BoundAssumption DEF TypeOK, Losses, Revisions, IInv, RoomPart, RoomFollowsRevision
<1>1. ASSUME UNCHANGED lost PROVE Losses'
  BY <1>0, <1>1, Zenon DEF Losses
<1>2. CASE ~PortalNext
  BY <1>0, <1>1, <1>2, NextFrame DEF roomVars
<1>3. CASE HandleResync
  <2>1. PICK g \in resyncs : UpdateInfo(g)
    BY <1>3, Zenon DEF HandleResync
  <2>2. g.rev \in Nat /\ g.rev <= server
    BY <2>1, Zenon DEF IInv, RoomPart, Part
  <2> QED BY <1>0, <2>1, <2>2, UpdateInfoLosses, Zenon
<1>4. CASE HistoryProcessed
  <2>1. PICK unconverted \in SUBSET (portalRev..loop.min) :
          ProcessChatInfoChanges((portalRev..loop.min) \ unconverted, unconverted)
    BY <1>4, Zenon DEF HistoryProcessed
  <2>2. loop.min \in 1..server /\ portalRev > 0
    BY <1>4 DEF HistoryProcessed, IInv, LoopPart
  <2>3. unconverted \in SUBSET (1..MaxRevision)
    BY <1>0, <2>2
  <2> QED BY <1>0, <2>1, <2>3, ChangesLosses, Zenon
<1>5. CASE HandleChange
  <2>1. {} \in SUBSET (1..MaxRevision)
    BY Zenon
  <2> QED BY <1>0, <1>1, <1>5, <2>1, ChangesLosses, Zenon DEF HandleChange, roomVars
<1>6. ASSUME NEW g, Use(g), g.rev \in Nat, g.rev <= server PROVE Losses'
  BY <1>0, <1>1, <1>6, UpdateInfoLosses, Zenon DEF Use, roomVars
<1>7. cache # None => cache.rev \in Nat /\ cache.rev <= server
  BY Zenon DEF IInv, CachePart, CacheOK, Whole
<1>8. CASE Retrieve
  <2>1. Hit(loop.min) => cache # None
    BY Zenon DEF Hit
  <2> QED BY <1>1, <1>6, <1>7, <1>8, <2>1, Zenon DEF Retrieve, roomVars
<1>9. CASE GetAgain
  <2>1. loop.snap.rev \in Nat /\ loop.snap.rev <= server
    BY <1>9 DEF GetAgain, IInv, LoopPart, Whole
  <2>2. Hit(0) => cache # None
    BY Zenon DEF Hit
  <2>3. (Use(cache) /\ cache # None) \/ Use(loop.snap)
    BY <1>9, <2>2, Zenon DEF GetAgain
  <2> QED BY <1>6, <1>7, <2>1, <2>3, Zenon
<1>10. CASE UpdateSucceeds
  <2>1. loop.rev \in 1..server
    BY <1>10 DEF UpdateSucceeds, IInv, LoopPart
  <2>2. portalRev + 1 .. loop.rev - 1 \subseteq 1..MaxRevision /\ loop.rev \in 1..MaxRevision
    BY <1>0, <2>1
  <2>3. \/ UNCHANGED lost
        \/ lost' = lost \cup (portalRev + 1 .. loop.rev - 1) \cup ({loop.rev} \cap misread)
    BY <1>10, Zenon DEF UpdateSucceeds, roomVars
  <2> QED BY <1>0, <1>1, <2>2, <2>3, Zenon DEF Losses
<1>11. CASE \/ HistoryFetched \/ HistoryFails \/ ChangeUndecryptable \/ HandleMatrixChange \/ Fetched
            \/ FetchFails \/ Store \/ Patch \/ PatchNotAccepted \/ UpdateFails
            \/ \E r \in 1..server, c \in BOOLEAN : HandleMessage(r, c)
  BY <1>1, <1>11, Zenon
  DEF HistoryFetched, HistoryFails, ChangeUndecryptable, HandleMatrixChange, Fetched, FetchFails,
      Store, Patch, PatchNotAccepted, UpdateFails, HandleMessage, roomVars
<1> QED BY <1>2, <1>3, <1>4, <1>5, <1>8, <1>9, <1>10, <1>11, Zenon DEF PortalNext

\* TypeOK: the bounds of all that is held, and that the loop never takes up an own change
\* as one of somebody else (PreHandle, GetChatInfoChange) nor reports an update that the
\* server has not taken (UpdateGroup).
THEOREM GroupsTypes == Spec => []TypeOK
<1> DEFINE Types == TypeOK /\ LoopTypes
<1>1. Init => Types
  BY BoundAssumption DEF Init, TypeOK, LoopTypes, LoopSteps, Carried, Revisions, Contents
<1>2. ASSUME IInv, IInv', Types, [Next]_vars PROVE Types'
  <2>1. /\ server' \in Revisions /\ own' \subseteq 1..server' /\ misread' \subseteq own'
    BY <1>2, ServerTypes, Zenon
  <2>2. LoopTypes'
    BY <1>2, NextLoopTypes, Zenon
  <2>3. cache' = None \/ cache' \in [rev : Revisions, has : SUBSET (1..MaxRevision), fresh : BOOLEAN]
    BY <1>2, <2>1, CacheShape, CacheTypes, Zenon DEF IInv
  <2>4. resyncs' \subseteq Contents
    BY <1>2, <2>1, ResyncTypes, Zenon DEF IInv
  <2>5. \A x \in Syncers : syncer'[x].at \in {"idle", "fetch", "fetched", "stored", "reading"}
    <3>1. AllSyncers(syncer) /\ syncer = [x \in Syncers |-> syncer[x]]
      BY <1>2, Zenon DEF AllSyncers, SyncerSteps, TypeOK, IInv, CachePart, SyncersOK
    <3> QED BY <1>2, <3>1, SyncerTypes, Zenon DEF AllSyncers, SyncerSteps
  <2>6. portalRev' \in Revisions /\ room' \subseteq 1..MaxRevision
    <3>1. portalRev' \in Nat /\ portalRev' <= server' /\ room' \subseteq 1..portalRev'
      BY <1>2, Zenon DEF IInv, RoomPart, RoomFollowsRevision
    <3> QED BY <2>1, <3>1, BoundAssumption DEF Revisions
  <2>7. lost' \subseteq 1..MaxRevision
    BY <1>2, NextLosses, Zenon DEF Losses
  <2>8. /\ loop'.at \in LoopSteps
        /\ loop'.at = "change" => loop'.change \in 1..server' \ own'
        /\ loop'.at = "patched" => loop'.rev \in own'
    <3>1. loop'.at = "change" => loop'.change \in 1..server'
      BY <1>2, Zenon DEF IInv, LoopPart
    <3> QED BY <2>2, <3>1, Zenon DEF LoopTypes, Carried
  <2> QED BY <2>1, <2>2, <2>3, <2>4, <2>5, <2>6, <2>7, <2>8, Zenon DEF TypeOK, LoopSteps
<1>3. Types => TypeOK
  OBVIOUS
<1> HIDE DEF Types
<1> QED BY <1>1, <1>2, <1>3, Inductive, PTL DEF Spec

\* Whatever order fetches, changes and own updates come in (Put, ApplyUpdate,
\* UpdateGroup), the cached group is one the server had.
THEOREM CacheIsFaithful == Spec => []CacheConsistent
<1>1. IInv => CacheConsistent
  BY DEF IInv, CachePart, CacheOK, Whole, CacheConsistent
<1> QED BY <1>1, Inductive, PTL

\* The room shows the changes up to the portal's revision except for the losses
\* that are named (catchUpGroup, GetChatInfoChange, the handlers of Matrix events).
THEOREM RoomIsFaithful == Spec => []RoomFollowsRevision
<1>1. IInv => RoomFollowsRevision
  BY DEF IInv, RoomPart
<1> QED BY <1>1, Inductive, PTL

\* No step lowers the revision of the portal or of the cached group
\* (makeRevisionUpdater, Put, ApplyUpdate).
THEOREM RevisionsGrow == Spec => RevisionsNeverFall
<1>1. IInv /\ [Next]_vars =>
        [portalRev' >= portalRev /\ (cache # None /\ cache' # None => cache'.rev >= cache.rev)]_vars
  BY NextCachePart, NextRoomPart DEF Newer
<1> QED BY <1>1, Inductive, PTL DEF Spec, RevisionsNeverFall

\* A change of the portal's revision that came with a change of the cache to a
\* group of at least revision r.
LEMMA AppliedEvicts ==
  ASSUME IInv, NEW r \in Nat, NEW right, NEW endorsed,
         cache' = Applied(r, right, endorsed).cache
  PROVE  cache' = None \/ cache'.rev >= r
<1>1. cache = None \/ cache.rev \in Nat
  BY DEF IInv, CachePart, CacheOK, Whole
<1> QED BY <1>1 DEF Applied

\* ApplyUpdate evicts the cached group when changes were missed: what the portal
\* has handled, received or its own, no cached group lacks.
THEOREM HandledChangesReachCache == Spec => MissedUpdatesEvict
<1> DEFINE Step == loop.at \in {"page", "change", "patched"} /\ portalRev' # portalRev /\ cache' # None
                     => cache'.rev >= portalRev'
<1>1. ASSUME IInv, [Next]_vars PROVE Step
  <2> USE DEF serverVars
  <2>0. /\ server \in Nat /\ LoopPart /\ portalRev \in Nat
        /\ cache = None \/ cache.rev \in Nat
    BY <1>1 DEF IInv, CachePart, CacheOK, Whole, RoomPart
  <2>1. CASE UNCHANGED roomVars
    BY <2>1 DEF roomVars
  <2>2. CASE ~UNCHANGED roomVars /\ loop.at \in {"page", "change", "patched"}
    <3>1. PortalNext
      BY <1>1, <2>0, <2>2, NextFrame
    <3>2. HistoryProcessed \/ HandleChange \/ UpdateSucceeds
      BY <2>2, <3>1 DEF PortalNext, HandleResync, HandleMessage, HistoryFetched, HistoryFails,
         ChangeUndecryptable, HandleMatrixChange, Retrieve, Fetched, FetchFails, Store, GetAgain,
         Patch, PatchNotAccepted, UpdateFails
    <3>3. CASE HistoryProcessed
      <4>1. /\ loop.hi \in Nat /\ loop.min \in Nat /\ loop.min <= loop.hi
            /\ cache' = AppliedPage(portalRev, loop.hi).cache
        BY <2>0, <3>3 DEF HistoryProcessed, LoopPart
      <4>2. PICK unconverted \in SUBSET (portalRev..loop.min) :
              ProcessChatInfoChanges((portalRev..loop.min) \ unconverted, unconverted)
        BY <3>3 DEF HistoryProcessed
      <4>3. PICK last \in portalRev..loop.min : portalRev' = Larger(portalRev, last)
        BY <2>2, <4>2 DEF ProcessChatInfoChanges, RevisionUpdater
      <4>4. portalRev' \in Nat /\ portalRev' <= loop.hi
        BY <2>0, <4>1, <4>3 DEF Larger
      <4>5. CASE cache = None \/ cache.rev >= loop.hi
        <5>1. cache' = cache
          BY <4>1, <4>5 DEF AppliedPage
        <5> QED BY <2>0, <4>1, <4>4, <4>5, <5>1
      <4>6. CASE ~(cache = None \/ cache.rev >= loop.hi)
        <5> DEFINE r == Larger(portalRev, cache.rev + 1)
        <5>1. cache' = Applied(r, TRUE, FALSE).cache
          BY <4>1, <4>6 DEF AppliedPage
        <5>2. r \in Nat /\ ~(cache.rev >= r)
          BY <2>0, <4>6 DEF Larger
        <5> HIDE DEF r
        <5>3. cache' = None
          BY <4>6, <5>1, <5>2 DEF Applied
        <5> QED BY <5>3
      <4> QED BY <4>5, <4>6
    <3>4. CASE HandleChange
      <4>1. loop.change \in Nat /\ cache' = Applied(loop.change, TRUE, FALSE).cache
        BY <2>0, <3>4 DEF HandleChange, LoopPart, ApplyUpdate
      <4>2. portalRev' = Larger(portalRev, loop.change) /\ loop.change = portalRev + 1
        BY <2>2, <3>4 DEF HandleChange, ProcessChatInfoChanges, RevisionUpdater
      <4>3. portalRev' = loop.change
        BY <2>0, <4>2 DEF Larger
      <4> QED BY <2>0, <4>1, <4>3 DEF Applied
    <3>5. CASE UpdateSucceeds
      <4>1. loop.rev \in Nat /\ portalRev' = loop.rev
        BY <2>0, <2>2, <3>5 DEF UpdateSucceeds, LoopPart
      <4>2. PICK endorsed \in BOOLEAN :
              cache' = Applied(loop.rev, loop.rev \notin misread, endorsed).cache
        BY <3>5 DEF UpdateSucceeds, ApplyUpdate
      <4> QED BY <1>1, <4>1, <4>2, AppliedEvicts
    <3> QED BY <3>2, <3>3, <3>4, <3>5
  <2> QED BY <2>1, <2>2
<1>2. IInv /\ [Next]_vars => [Step]_vars
  BY <1>1
<1> HIDE DEF Step
<1>3. Spec => [][Step]_vars
  BY <1>2, Inductive, PTL DEF Spec
<1> QED BY <1>3 DEF Step, MissedUpdatesEvict
=============================================================================

CONSTANTS
  MaxRevision = 3
  Syncers = {s1}
SPECIFICATION Spec
INVARIANTS TypeOK CacheConsistent RoomFollowsRevision
PROPERTIES RevisionsNeverFall MissedUpdatesEvict

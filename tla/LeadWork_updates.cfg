SPECIFICATION MCSpec
CONSTANTS
  Updates = {1, 2}
  Tasks = {11}
  Dates = {1, 2}
  Me = me
  Peer = peer
  Members = {me, peer}
  None = None
  Team <- TeamOf
  MaxAttempts = 1
  MaxCrashes = 1
  MaxChanges = 2
  MaxClosings = 1
INVARIANTS
  LeadWorkInv
  AppliedAsSeen
  RefusalIsTrue
  SyncedIsApplied
  NextDueAgrees
PROPERTIES
  QueuedUpdateSettles

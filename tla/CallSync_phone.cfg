SPECIFICATION FairSpec
CONSTANTS
  Calls = {1, 2}
  Answered = {1, 2}
  Leads = {l1}
  NoLead = NoLead
  MaxRead = 1
  MaxBatch = 2
  MaxAttempts = 1
  MaxFailures = 1
  MaxCrashes = 1
  MaxCorrections = 1
  MaxRematches = 1
  MaxClosings = 1
INVARIANTS
  CallSyncInv
  SyncedIsStored
  IngestedOnce
  NoBatchConflict
  LastContactAgrees
PROPERTIES
  CheckpointCoversQueue
  ManualLinkStands
  QueuedCallSettles

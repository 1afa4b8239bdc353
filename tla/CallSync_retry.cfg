SPECIFICATION Spec
CONSTANTS
  Calls = {1, 2}
  Answered = {1, 2}
  Leads = {l1}
  NoLead = NoLead
  MaxRead = 1
  MaxBatch = 2
  MaxAttempts = 1
  MaxFailures = 1
  MaxCrashes = 0
  MaxCorrections = 1
  MaxRematches = 0
  MaxClosings = 0
PROPERTY
  UnchangedRetryWritesNothing

SPECIFICATION Spec
CONSTANTS
  Workers = {w1, w2}
  NoWorker = NoWorker
  Schedules = {s1}
  NoSchedule = NoSchedule
  MaxAttempts = 2
  DayLength = 1
  MaxTime = 1
  MaxJobs = 2
  MaxLinks = 3
  MaxMails = 1
  MaxCrashes = 1
SYMMETRY Symmetry
CONSTRAINT OneByOne
INVARIANTS
  ReportInv
  AnnouncedIsReady
  OpenedByLastLink
  OneReportPerPeriod
  StrandedByCrashOnly

SPECIFICATION Spec
CONSTANTS
  Workers = {w1}
  NoWorker = NoWorker
  Schedules = {s1}
  NoSchedule = NoSchedule
  MaxAttempts = 5
  DayLength = 2
  MaxTime = 3
  MaxJobs = 2
  MaxLinks = 0
  MaxMails = 0
  MaxCrashes = 0
PROPERTIES
  EveryPeriodReported

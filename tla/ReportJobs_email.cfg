SPECIFICATION FairSpec
CONSTANTS
  Workers = {w1}
  NoWorker = NoWorker
  Schedules = {s1}
  NoSchedule = NoSchedule
  MaxAttempts = 5
  DayLength = 1
  MaxTime = 0
  MaxJobs = 1
  MaxLinks = 0
  MaxMails = 1
  MaxCrashes = 0
PROPERTIES
  EmailSettles

\* One employee and one phone that may be paired twice (two installations, two
\* codes), four requests, two policies; crashes, losses and worker runs unbounded.
SPECIFICATION PhoneSpec
CONSTANTS
  Employees = {e1}
  Devices = {d1, d2}
  Codes = {k1, k2}
  Ids = {1, 2, 3, 4}
  NoEmployee = NoEmployee
  NoCode = NoCode
  NoId = NoId
  NoDevice = NoDevice
  MaxPolicy = 2
  MaxInFlight = 0
  MaxWire = 1
CHECK_DEADLOCK FALSE
INVARIANTS
  PhoneInv
  GateNeedsRecordedConsent
  RequestsNeverConflict
  QueueBelongsToConsent
  RevokedMeansPurged

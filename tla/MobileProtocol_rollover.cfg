\* One phone, three policies: pair, activate, two rollovers.
SPECIFICATION FairPhoneSpec
CONSTANTS
  Employees = {e1}
  Devices = {d1}
  Codes = {k1}
  Ids = {1, 2}
  NoEmployee = NoEmployee
  NoCode = NoCode
  NoId = NoId
  NoDevice = NoDevice
  MaxPolicy = 3
  MaxInFlight = 0
  MaxWire = 1
CHECK_DEADLOCK FALSE
PROPERTY RolloverRecovers

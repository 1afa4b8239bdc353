\* One phone: pair, activate, renew the consent once.
SPECIFICATION PhoneSpec
CONSTANTS
  Employees = {e1}
  Devices = {d1}
  Codes = {k1}
  Ids = {1, 2, 3}
  NoEmployee = NoEmployee
  NoCode = NoCode
  NoId = NoId
  NoDevice = NoDevice
  MaxPolicy = 2
  MaxInFlight = 0
  MaxWire = 1
CHECK_DEADLOCK FALSE
INVARIANT NoBackfill

SPECIFICATION Spec
CONSTANTS
  Employees = {e1, e2}
  Devices = {d1, d2}
  Codes = {k1, k2}
  Ids = {i1, i2, i3, i4}
  NoEmployee = NoEmployee
  NoCode = NoCode
  NoId = NoId
  NoDevice = NoDevice
  MaxPolicy = 2
  MaxInFlight = 2
SYMMETRY Symmetry
CONSTRAINT OneByOne
CHECK_DEADLOCK FALSE
INVARIANTS
  TrustInv
  StatusAgreesWithCredential
  LedgerExactlyOnce
PROPERTIES
  RetiredStaysRetired
  SuspensionIsImmediate
  RevokedUntilRepaired

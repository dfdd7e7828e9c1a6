SPECIFICATION Spec
CONSTANTS
  alice = alice
  bob = bob
  e1 = e1
  e2 = e2
  e3 = e3
  Account = {alice, bob}
  DeviceId <- MCDeviceId
  Devices <- MCDevices
  Endpoint = {e1, e2, e3}
  Owner <- MCOwner
  MessageLists <- MCMessageLists
  Codes = {"OK", "ERROR"}
  MaxRequests = 1
INVARIANTS
  TypeOK
  AccountConfined
  AtMostOnce
  HeadOutstanding
PROPERTY
  OnlyRestackLoses
  ImplementsMailService
CHECK_DEADLOCK FALSE
SYMMETRY MCSymmetry

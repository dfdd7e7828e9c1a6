SPECIFICATION Spec
CONSTANTS
  alice = alice
  bob = bob
  e1 = e1
  e2 = e2
  e3 = e3
  Account = {alice, bob}
  DeviceId <- MCDeviceId
  Devices <- MCDevices
  Endpoint = {e1, e2}
  Owner <- MCOwner
  MessageLists <- MCSingles
  Codes = {"OK", "ERROR"}
  MaxRequests = 1
INVARIANT
  FiledForAddressee
CHECK_DEADLOCK FALSE

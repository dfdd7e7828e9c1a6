SPECIFICATION AllSpec
CONSTANTS
  GroupDigits = 2
  Digits = {0, 1, 9}
  MaxDigits = 6
  Times <- MCTimes
  Bytes = {165, 255}
  IntBits = 32
  Bodies <- MCBodies
  Messages <- MCMessages
  MaxHeaders = 2
  Cuts <- MCCuts
  Values = {"x", "{}", "provisioning", "code", ""}
  Queries = {"", "identity=aci", "agent=x"}
INVARIANTS
  
  LookupIsExact
  DayStarts
  RoundTrip
CHECK_DEADLOCK FALSE

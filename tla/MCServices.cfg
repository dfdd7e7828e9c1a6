SPECIFICATION ServicesSpec
CONSTANTS
  Requests <- MCRequests
  MaxRequests = 3
  Numbers = {"n1", "n2"}
  Lists <- MCLists
  Devices = {"device"}
  Messages = {m1, m2}
  BATCH_SIZE = 2
  BlockSize = 2
  MaxChunks = 4
  MaxDeviceChunks = 3
INVARIANTS
  TypesOK
  OneResponse
  EntityHasRequest
  NothingAfterClose
  
  
  NotCutOff
PROPERTIES
  OrderlyEnd
  
CHECK_DEADLOCK FALSE

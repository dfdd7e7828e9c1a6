SPECIFICATION ChatSpec
CONSTANTS
  p1 = p1
  p2 = p2
  u1 = u1
  u2 = u2
  u3 = u3
  c1 = c1
  c2 = c2
  Phone = {p1, p2}
  Uuid = {u1, u2, u3}
  Code = {c1, c2}
  NONE = NONE
  MaxRequests = 4
  MaxCodes = 3
  MaxSessions = 3
  Owner = {"alice"}
  OwnDevice = {1, 2}
  KeyId = {1, 2}
  Version = {"v1"}
  CapSets = {{"pni", "uuid"}, {"stories"}}
  GcmId = {1}
  MaxUploads = 2
  MaxQueries = 3
  MaxUpdates = 3
INVARIANTS
  KeysFit
  AnswersAreTrue
  TypesOK
  OneAccountPerNumber
  PniPermanent
  CodeIsUsedOnce
  OneSessionPerNumber
  AcceptedAfterPush
  CapabilitiesKept
PROPERTY
  DevicesKept
CHECK_DEADLOCK FALSE
SYMMETRY MCSymmetry

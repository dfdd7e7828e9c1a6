SPECIFICATION Spec
CONSTANTS
  p1 = p1
  p2 = p2
  s1 = s1
  s2 = s2
  s3 = s3
  Phone = {p1, p2}
  SessionId = {s1, s2, s3}
  NONE = NONE
  MaxRequests = 4
INVARIANT
  SessionIsFound
CHECK_DEADLOCK FALSE

CONSTANTS
  Requests = {r1, r2, r3}
  NoRequest = NoRequest
  Keys = {k1}
  NoKey = NoKey
  Callers = {c1}
SPECIFICATION StartSpec
CHECK_DEADLOCK FALSE
SYMMETRY StartSymmetry
INVARIANTS
  StartTypeOK
  AtMostOneRunning
  OnlyFailedStartsRaise
  

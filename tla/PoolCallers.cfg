\* Three callers and everything the pool does, up to its shutdown.
SPECIFICATION Spec
CONSTANTS
  u1 = u1
  u2 = u2
  u3 = u3
  s1 = s1
  s2 = s2
  s3 = s3
  s4 = s4
  NoSession = NoSession
  Users = {u1, u2, u3}
  Sessions = {s1, s2, s3}
  MaxPool = 1
  MaxReuse = 1
  ReleasesLate = FALSE
SYMMETRY PoolSymmetry
INVARIANTS SessionsAccounted PoolBoundedByCallers OneCallerPerSession
CHECK_DEADLOCK FALSE

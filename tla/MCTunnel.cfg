CONSTANTS
  kA = kA
  kB = kB
  o1 = o1
  o2 = o2
  m1 = m1
  s1 = s1
  s2 = s2
  s3 = s3
  Keys = {kA, kB}
  Openers = {o1, o2}
  Messages = {m1}
  Sessions = {s1, s2, s3}
  None = None
SYMMETRY Symmetry
SPECIFICATION Spec
INVARIANTS
  UntrustEndsSessions
  TrustLiftsBackoff
PROPERTIES
  BackoffIsRespected
  LiveSessionKept

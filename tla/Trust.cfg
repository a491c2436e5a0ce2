CONSTANTS
  k1 = k1
  h1 = h1
  h2 = h2
  cA = cA
  cB = cB
  x1 = x1
  x2 = x2
  x3 = x3
  r1 = r1
  r2 = r2
  m1 = m1
  Clusters = {k1}
  Hosts = {h1, h2}
  Certs = {cA, cB}
  Clients = {x1, x2, x3}
  Requests = {r1, r2}
  Messages = {m1}
  None = None
SYMMETRY Symmetry
SPECIFICATION Spec
INVARIANTS
  NeverOverWithdrawnTrust
  SentToItsOwnHost

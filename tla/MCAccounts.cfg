CONSTANTS
  bob = bob
  elasticvue = elasticvue
  t1 = t1
  w1 = w1
  w2 = w2
  Names = {elasticvue, bob}
  Shipped = elasticvue
  Tokens = {t1}
  Workers = {w1, w2}
SYMMETRY Symmetry
SPECIFICATION Spec
INVARIANTS
  AdminAlways
  ShippedIsAlone
  UnconfinedMeansChanged
  RevocationReachesSessions

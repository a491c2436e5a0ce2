CONSTANTS
  w1 = w1
  w2 = w2
  w3 = w3
  j1 = j1
  ra = ra
  rb = rb
  Workers = {w1, w2, w3}
  Jumps = {j1}
  Routes = {ra, rb}
  None = None
SYMMETRY Symmetry
SPECIFICATION Spec
INVARIANT
  NoBackgroundWriteByUnlock

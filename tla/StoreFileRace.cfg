CONSTANTS
  w1 = w1
  w2 = w2
  i1 = i1
  i2 = i2
  i3 = i3
  i4 = i4
  Writers = {w1, w2}
  Inodes = {i1, i2, i3, i4}
  NoInode = NoInode
  MaxChanges = 3
SPECIFICATION Spec
INVARIANTS
  TargetParses
CHECK_DEADLOCK FALSE

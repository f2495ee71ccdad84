CONSTANTS
  Writers = {w1, w2}
  Readers = {r1}
  Inodes = {i1, i2, i3, i4}
  Size = 2
  Old = Old
  Nothing = Nothing
  NoInode = NoInode
  Nobody = Nobody
  Locked = FALSE
  MaxMishaps = 0
SPECIFICATION Spec
INVARIANT NeverHalfWritten

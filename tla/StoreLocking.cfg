SPECIFICATION Spec
CONSTANTS
  p1 = p1
  p2 = p2
  p3 = p3
  i1 = i1
  i2 = i2
  i3 = i3
  Proc = {p1, p2, p3}
  Nobody = Nobody
  Inode = {i1, i2, i3}
  NoInode = NoInode
  Reuse = FALSE
  MaxWrites = 2
INVARIANTS
  TypeOK
  LockHeldInsideOnly
  ExclusiveOverARecord
PROPERTIES
  ImplementsSerialRecord

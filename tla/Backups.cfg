CONSTANTS
  x = x
  y = y
  z = z
  Orders = {x, y, z}
  Unreadable = Unreadable
  MaxBackups = 2
  Legacy = 1
  MaxTime = 5
SPECIFICATION Spec
SYMMETRY SymmetricOrders
INVARIANTS
  TypeOK
  BackedUpBeforeSet
  NoMoreThanMax
PROPERTY
  OnlyOldestRemoved

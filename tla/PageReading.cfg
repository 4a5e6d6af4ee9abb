SPECIFICATION Spec
CONSTANTS
  Pages <- SmallPages
  Chars <- CharsOf
  Cuts <- SomeCuts
  Budgets <- SomeBudgets
  NoLimit = NoLimit
  NoCursor = NoCursor
  Reader = {r1}
  Retention = 1
  MaxSnapshots = 2
INVARIANTS
  TypeOK
  NothingLostUndeclared
  ReadsInOrderOnce
  OutlineNests
PROPERTIES
  ReadingEnds
CHECK_DEADLOCK FALSE

SPECIFICATION Spec
CONSTANTS
  Op = {o1, o2}
  sc1 = sc1
  sc2 = sc2
  Scope = {sc1, sc2}
  t1 = t1
  t2 = t2
  Holder = {t1, t2}
  NoHolder = NoHolder
  HolderOf <- MCHolderOf
  Assigned <- MCAssigned
  Limit <- MCLimit
  s1 = s1
  Sid = {s1}
  NoSid = NoSid
  Kinds = {"search", "read", "shot_url"}
  Guards <- MCGuards
  Sizes = {1}
  MaxRetained = 1
  LeaseTTL = 1
  MaxTime = 1
SYMMETRY Symmetric
INVARIANTS
  TypeOK
  RequestsWithinBudget
  SuccessesFitBudget
  LedgerMatchesUse
  NoSuccessWhenCut
  AtMostOneLateCall
  TasksKeepApart
CHECK_DEADLOCK FALSE

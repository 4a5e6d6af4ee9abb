SPECIFICATION Spec
CONSTANTS
  Op = {o1, o2, o3}
  sc1 = sc1
  sc2 = sc2
  Scope = {sc1, sc2}
  t1 = t1
  t2 = t2
  Holder = {t1, t2}
  NoHolder = NoHolder
  HolderOf <- MCHolderOf
  Assigned <- MCAssigned
  Limit <- MCNoLimit
  s1 = s1
  Sid = {s1}
  NoSid = NoSid
  Kinds = {"read_live", "shot_ref", "press"}
  Guards <- MCNoGuard
  Sizes = {1}
  MaxRetained = 1
  LeaseTTL = 1
  MaxTime = 0
SYMMETRY Symmetric
INVARIANTS
  TasksNeverShare
CHECK_DEADLOCK FALSE

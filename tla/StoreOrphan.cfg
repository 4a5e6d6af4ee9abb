SPECIFICATION FairSpec
CONSTANTS
  s1 = s1
  p1 = p1
  p2 = p2
  q1 = q1
  Sid = {s1}
  NoSid = NoSid
  Proc = {p1, p2}
  Holder = {p1, p2}
  NoHolder = NoHolder
  HolderOf <- OwnHolder
  Pid = {q1}
  NoPid = NoPid
  Free = Free
  Stranger = Stranger
  Foreign = Foreign
  Host = {}
  MaxHosts = 1
  LeaseTTL = 2
  Retention = 1
  TTLs = {1}
  Filters <- OnlyUnfiltered
  CreateModes = {"launch"}
  Legacy = {}
  Faults = {"crash_after_launch"}
  MaxTime = 1
  MaxFaults = 1
  MaxGeneration = 0
PROPERTIES
  OrphanReaped

SPECIFICATION Spec
CONSTANTS
  s1 = s1
  p1 = p1
  p2 = p2
  Sid = {s1}
  NoSid = NoSid
  Proc = {p1, p2}
  Cli = Cli
  Holder = {Cli}
  NoHolder = NoHolder
  Pid = {}
  NoPid = NoPid
  h1 = h1
  Host = {h1}
  MaxHosts = 1
  LeaseTTL = 1
  Retention = 0
  f1 = f1
  Flow = {f1}
  Anonymous = Anonymous
  NoToken = NoToken
  Unborn = Unborn
  TTL = 2
  TTLs = {2}
  MinTTL = 2
  ReuseLimit = 1
  Openings = {"anonymous", "flow", "given", "create", "clean"}
  Breaks = {"kill", "interrupt"}
  MaxTime = 3
  MaxGeneration = 1
SYMMETRY Symmetric
INVARIANTS
  TypeOK
  ThrowawayEnds
  NotShared
  ReferencesGoStale
PROPERTIES
  SweepSparesInUse

SPECIFICATION Spec
CONSTANTS
  s1 = s1
  p1 = p1
  p2 = p2
  q1 = q1
  Sid = {s1}
  NoSid = NoSid
  Proc = {p1, p2}
  Holder = {p1, p2}
  NoHolder = NoHolder
  HolderOf <- OwnHolder
  Pid = {q1}
  NoPid = NoPid
  Free = Free
  Stranger = Stranger
  Foreign = Foreign
  h1 = h1
  h2 = h2
  Host = {h1, h2}
  MaxHosts = 1
  LeaseTTL = 2
  Retention = 1
  TTLs = {1}
  Filters <- TwoFilters
  CreateModes = {"launch"}
  Legacy = {}
  Faults = {"crash_after_kill"}
  MaxTime = 3
  MaxFaults = 1
  MaxGeneration = 0
SYMMETRY Symmetric
INVARIANTS
  TypeOK
  HostsAccountedFor
  GrantHonoured
  OneProcessAttached
  EndedHasNoBrowser
  NoOrphanBrowser
PROPERTIES
  GrantedBrowserStoppedByCloseOnly
  UseNeverShortensLife
  ImplementsLeasedSession

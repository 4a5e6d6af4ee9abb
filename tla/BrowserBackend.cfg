SPECIFICATION FairSpec
CONSTANTS
  p1 = p1
  p2 = p2
  b1 = b1
  b2 = b2
  Proc = {p1, p2}
  Browser = {b1, b2}
  NoProc = NoProc
  NoBrowser = NoBrowser
  Web <- ManyChains
  Policies <- AllPolicies
  Keys <- TwoKeys
  Limits = {1}
  NoLimit = NoLimit
  MaxPages = 2
  MaxOps = 3
  MaxWander = 1
  Address <- Addresses
  Unmapped <- UnmappedOf
  Loopback = {"loopback"}
  LinkLocal = {"imds"}
  Unspecified = {}
  Multicast = {}
  Reserved = {"mapped"}
  Private = {"loopback"}
  Global = {}
  MetadataAddresses = {"imds"}
  Name <- Names
  MetadataNames = {}
  LoopbackNames = {"app"}
  PrivateNames = {}
  Dotted = {"site", "app"}
  NoHost = NoHost
  NoPort = NoPort
  AnyPort = AnyPort
  NoScheme = NoScheme
  NoData = NoData
INVARIANTS
  TypeOK
  LaunchReportsItsOwn
PROPERTIES
  
  ReattachesToWorkingPage
  OperationsEnd
CHECK_DEADLOCK FALSE

SPECIFICATION FairSpec
CONSTANTS
  vpc = vpc
  net = net
  mine = mine
  aws = aws
  local = local
  igw = igw
  nat = nat
  bad = bad
  t1 = t1
  t2 = t2
  Destinations <- MCDestinations
  Prefixes <- MCPrefixes
  AWSPrefixes <- MCAWSPrefixes
  Targets <- MCTargets
  BadTargets <- MCBadTargets
  LocalRoute <- MCLocalRoute
  Tags <- MCTags
  SpecRoutes <- MCRoutes
  SpecTags <- MCSpecTags
  MissingIsError = TRUE
  OthersMayDelete = TRUE
  MaxTables = 5
  MaxFaults = 1
  MaxEdits = 1
  MaxDrifts = 1
\* When the CR is gone and no edit is left, nothing remains to be done.
CHECK_DEADLOCK FALSE
INVARIANTS
  TypeOK
  SyncedIsExact
  NeverCollide
  PlanIsPermitted
PROPERTIES
  DeclaredRouteStays
  ImplementsLifecycle
  Converges

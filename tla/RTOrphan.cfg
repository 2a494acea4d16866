SPECIFICATION Spec
CONSTANTS
  vpc = vpc
  net = net
  mine = mine
  aws = aws
  local = local
  igw = igw
  nat = nat
  bad = bad
  t1 = t1
  t2 = t2
  Destinations <- MCDestinations
  Prefixes <- MCPrefixes
  AWSPrefixes <- MCAWSPrefixes
  Targets <- MCTargets
  BadTargets <- MCBadTargets
  LocalRoute <- MCLocalRoute
  Tags <- MCTags
  SpecRoutes <- MCBrokenRoutes
  SpecTags <- MCOneTag
  MissingIsError = TRUE
  OthersMayDelete = FALSE
  MaxTables = 3
  MaxFaults = 0
  MaxEdits = 0
  MaxDrifts = 0
\* When the CR is gone and no edit is left, nothing remains to be done.
CHECK_DEADLOCK FALSE
INVARIANT
  MissingIdMeansNotCreated

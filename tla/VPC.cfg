SPECIFICATION FairSpec
CONSTANTS
  p = p
  a = a
  dns = dns
  t1 = t1
  CIDRs <- MCCIDRs
  Primary = p
  BadCIDRs = {}
  Attrs <- MCAttrs
  Tags <- MCTags
  SpecCIDRs <- MCGrowCIDRs
  SpecAttrs <- MCOneAttr
  SpecTags <- MCOneTag
  SpecDisallow = {TRUE, FALSE}
  OthersMayDelete = TRUE
  MaxVPCs = 4
  MaxFaults = 1
  MaxEdits = 1
  MaxDrifts = 1
\* When the CR is gone and no edit is left, nothing remains to be done.
CHECK_DEADLOCK FALSE
INVARIANTS
  TypeOK
  SyncedIsExact
PROPERTIES
  DeclaredCIDRStays
  ImplementsLifecycle
  CIDRsConverge
  DeletionCompletes

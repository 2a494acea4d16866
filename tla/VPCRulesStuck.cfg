SPECIFICATION FairSpec
CONSTANTS
  p = p
  a = a
  dns = dns
  t1 = t1
  CIDRs <- MCCIDRs
  Primary = p
  BadCIDRs = {}
  Attrs <- MCAttrs
  Tags <- MCTags
  SpecCIDRs <- MCOneCIDR
  SpecAttrs <- MCOneAttr
  SpecTags <- MCOneTag
  SpecDisallow <- MCYes
  OthersMayDelete = FALSE
  MaxVPCs = 2
  MaxFaults = 1
  MaxEdits = 0
  MaxDrifts = 0
\* When the CR is gone and no edit is left, nothing remains to be done.
CHECK_DEADLOCK FALSE
PROPERTY
  DisallowTakesEffect

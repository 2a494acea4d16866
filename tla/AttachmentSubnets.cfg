SPECIFICATION FairSpec
CONSTANTS
  s1 = s1
  s2 = s2
  s3 = s3
  g1 = g1
  g2 = g2
  p1 = p1
  p2 = p2
  t1 = t1
  t2 = t2
  Specs <- MCSubnetSpecs
  MaxObjects = 4
  MaxFaults = 0
  MaxEdits = 1
  MaxDrifts = 0
CHECK_DEADLOCK FALSE
INVARIANT
  SyncedInDeclaredSubnets

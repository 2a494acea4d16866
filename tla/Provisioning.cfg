SPECIFICATION FairSpec
CONSTANTS
  s1 = s1
  s2 = s2
  s3 = s3
  g1 = g1
  g2 = g2
  p1 = p1
  p2 = p2
  t1 = t1
  t2 = t2
  Specs <- MCSpecs
  MaxObjects = 4
  MaxFaults = 1
  MaxEdits = 1
  MaxDrifts = 1
\* When the CR is gone and no edit is left, nothing remains to be done.
CHECK_DEADLOCK FALSE
INVARIANTS
  SyncedIsExact
PROPERTIES
  ImplementsLifecycle
  Converges
  DeletionProceeds

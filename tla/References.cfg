SPECIFICATION FairSpec
CONSTANTS
  vpc = vpc
  a = a
  b = b
  CRs <- MCCRs
  KindOf <- MCKindOf
  Specs <- MCSpecs
  MaxObjects = 4
  MaxEvents = 1
\* When every CR is gone and no edit is left, nothing remains to be done.
CHECK_DEADLOCK FALSE
INVARIANTS
  TypeOK
  NoCircularWait
  SyncedIsExact
PROPERTIES
  ImplementsLifecycle
  Converges
  DeletionProceeds

SPECIFICATION FairSpec
CONSTANTS
  tcp22 = tcp22
  huge = huge
  all = all
  anywhere = anywhere
  self = self
  ref = ref
  t1 = t1
  t2 = t2
  Keys <- MCKeys
  EgressKeys <- MCEgressKeys
  BadKeys <- MCBadKeys
  Grants <- MCGrants
  SelfGrant = self
  RefGrant = ref
  DefaultPerm <- MCDefaultPerm
  Tags <- MCTags
  SpecRules <- MCRules
  SpecTags <- MCSpecTags
  BatchSize = 2
  MissingIsError = TRUE
  OthersMayDelete = TRUE
  MaxFaults = 1
  MaxEdits = 1
  MaxDrifts = 1
\* When the CR is gone and no edit is left, nothing remains to be done.
CHECK_DEADLOCK FALSE
INVARIANTS
  TypeOK
  NoOrphan
  SyncedIsExact
  NeverDuplicate
PROPERTIES
  NoSpuriousChange
  ImplementsLifecycle
  Converges
  DeletionProceeds

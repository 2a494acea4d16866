SPECIFICATION FairSpec
CONSTANTS
  tcp22 = tcp22
  huge = huge
  all = all
  anywhere = anywhere
  self = self
  ref = ref
  t1 = t1
  t2 = t2
  Keys <- MCKeys
  EgressKeys <- MCEgressKeys
  BadKeys <- MCBadKeys
  Grants <- MCGrants
  SelfGrant = self
  RefGrant = ref
  DefaultPerm <- MCDefaultPerm
  Tags <- MCTags
  SpecRules <- MCRefRules
  SpecTags <- MCOneTag
  BatchSize = 1
  MissingIsError = TRUE
  OthersMayDelete = FALSE
  MaxFaults = 1
  MaxEdits = 0
  MaxDrifts = 0
\* When the CR is gone and no edit is left, nothing remains to be done.
CHECK_DEADLOCK FALSE
PROPERTY
  DeletionCompletes

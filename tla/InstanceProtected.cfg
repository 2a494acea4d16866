SPECIFICATION FairSpec
CONSTANTS
  rt1 = rt1
  rt2 = rt2
  vpc1 = vpc1
  vpc2 = vpc2
  s1 = s1
  s2 = s2
  in100 = in100
  out100 = out100
  allow = allow
  deny = deny
  NoVPC = NoVPC
  g1 = g1
  g2 = g2
  c1 = c1
  c2 = c2
  info = info
  NoInfo = NoInfo
  t1 = t1
  t2 = t2
  Specs <- MCProtectedSpecs
  MaxObjects = 2
  MaxFaults = 0
  MaxEdits = 1
  MaxDrifts = 0
CHECK_DEADLOCK FALSE
INVARIANT
  SuccessReflectsSpec

\* Lists of up to four entries; two renewals in any of the three ways.
SPECIFICATION FairSpec
CONSTANTS
  s1 = s1
  s2 = s2
  c1 = c1
  Blank = Blank
  Other = Other
  Suites = {s1, s2}
  DefaultSuites = {s1}
  Curves = {c1}
  Ways = {"swap", "write", "replace"}
  MaxGen = 3
INVARIANTS TypeOK ServedWasPair TLSAsAsked
PROPERTIES ServedGoesForward RotationIsServed

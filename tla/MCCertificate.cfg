\* One list each; the kubelet renews the certificate once.
SPECIFICATION FairSpec
CONSTANTS
  s1 = s1
  c1 = c1
  Blank = Blank
  Other = Other
  Suites = {s1}
  DefaultSuites = {s1}
  Curves = {c1}
  Ways = {"swap"}
  MaxGen = 2
PROPERTIES ChangesAreRead

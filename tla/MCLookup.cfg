SPECIFICATION Spec
CONSTANTS
  d1 = d1
  d2 = d2
  k1 = k1
  k2 = k2
  k3 = k3
  s1 = s1
  None = None
  Invalid = Invalid
  Drivers = {d1, d2}
  Classes = {k1, k2, k3}
  Secrets = {s1}
  Names = {"target", "base"}
  MaxUid = 3
  ClassDriver <- MCClassDriver
  ClassSecret <- MCClassSecret
CONSTRAINT InstanceBound
INVARIANTS
  RequestWasTrue
  RefusalHasCause
  QuietMeansExact

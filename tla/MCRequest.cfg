SPECIFICATION RequestSpec
CONSTANTS
  d1 = d1
  k1 = k1
  s1 = s1
  Accounts = {a1}
  Audiences = {u1, u2}
  CAs = {c1, c2}
  Namespaces = {n1}
  MaxUid = 2
  None = None
  Human = Human
  BadCA = BadCA
  Invalid = Invalid
  Drivers = {d1}
  Classes = {k1}
  Secrets = {s1}
  Names = {"target", "base"}
  MaxIncarnation = 2
  ClassDriver <- MCClassDriver
  ClassSecret <- MCClassSecret
CONSTRAINT InstanceBound
SYMMETRY Symmetry
INVARIANTS
  AdmittedWasEntitled
  RefusalIsTrue
  QuietMeansExact
  ReadForTheEntitled
  FirstObstacleDecides

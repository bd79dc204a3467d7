\* Two calls in one process: what they share is the readiness, the driver's
\* connection, crashes and the stop.
SPECIFICATION Spec
CONSTANTS
  Sessions = {s1, s2}
  DeltaSessions = {}
  Records = {r1}
  DriverErrors = {}
  MaxRecords = 1
  CsiWindow = 1
  WriteQuota = 1
  ClientWindow = 0
SYMMETRY SessionSymmetry
INVARIANTS GracefulExitBreaksNoStream
PROPERTIES ImplementsPhases

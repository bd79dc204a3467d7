\* The operation names under which calls are recorded.
SPECIFICATION Spec
CONSTANTS
  Sessions = {s1, s2}
  DeltaSessions = {s2}
  Records = {r1}
  DriverErrors = {"DriverError", "Unknown"}
  MaxRecords = 1
  CsiWindow = 1
  WriteQuota = 1
  ClientWindow = 0
INVARIANTS MetricNamesOperation

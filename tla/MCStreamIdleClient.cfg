\* A client that stops reading without cancelling.
SPECIFICATION IdleClientSpec
CONSTANTS
  Sessions = {s1}
  DeltaSessions = {}
  Records = {r1}
  DriverErrors = {"DriverError", "Unknown"}
  MaxRecords = 3
  CsiWindow = 1
  WriteQuota = 1
  ClientWindow = 1
PROPERTIES HandlerAborts

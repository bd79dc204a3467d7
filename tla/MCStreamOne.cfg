\* One call, enough records to see order and loss in every queue, clients that
\* keep reading and a driver that may fall silent.
SPECIFICATION FairSpec
CONSTANTS
  Sessions = {s1}
  DeltaSessions = {s1}
  Records = {r1, r2}
  DriverErrors = {"DriverError", "Unknown"}
  MaxRecords = 3
  CsiWindow = 2
  WriteQuota = 1
  ClientWindow = 1
INVARIANTS TypeOK RecordsInOrder CompleteMeansWhole FailureHasItsCause
PROPERTIES ImplementsEnumeration EnumerationEnds DriverIsReleased StopReturns

\* Two callers and a watcher of the health service, none of which stays
\* connected for ever.
SPECIFICATION LeavingClientsSpec
CONSTANTS
  c1 = c1
  c2 = c2
  w1 = w1
  Callers = {c1, c2}
  Watchers = {w1}
INVARIANTS
  TypeOK
  ServedByCapableDriver
  WatchUpToDate
PROPERTIES
  ImplementsPhases
  StartupEnds
  SignalIsHeard
  StopTerminates

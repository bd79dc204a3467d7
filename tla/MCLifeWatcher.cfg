SPECIFICATION FairSpec
CONSTANTS
  c1 = c1
  w1 = w1
  Callers = {c1}
  Watchers = {w1}
PROPERTIES
  StopTerminates

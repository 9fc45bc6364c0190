\* One routed run, no failures.
SPECIFICATION Spec
CONSTANTS
  Run = {event}
  Routed = {event}
  Kit = {k1}
  MaxGeneration = 1
  MaxFailures = 0
  Torn = Torn
  None = None
CHECK_DEADLOCK FALSE
INVARIANTS PrelaunchCancelCloses

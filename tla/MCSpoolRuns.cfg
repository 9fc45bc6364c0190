\* A routed and a direct run over a pause and a resume, a kit that changes or a failure.
SPECIFICATION Spec
CONSTANTS
  Run = {event, direct}
  Routed = {event}
  Kit = {k1, k2}
  MaxGeneration = 2
  MaxFailures = 1
  Torn = Torn
  None = None
SYMMETRY Symmetry
CONSTRAINT OneAtATime
CHECK_DEADLOCK FALSE
INVARIANTS RunsSafe PausedRoundIsFrozen
PROPERTIES LaunchIsCurrent CustodySteps

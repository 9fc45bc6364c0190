\* One fact, two subscriptions that may succeed one another; one dispatch of two
\* entries, three controls of its cohort; one failure.
SPECIFICATION EventsSpec
CONSTANTS
  Fact = {f1}
  Name = {n1, n2}
  Slot = {s1}
  MaxControl = 2
  MaxGeneration = 2
  MaxLog = 5
  Batch = {d1}
  Entry = {e1, e2}
  Operator = Operator
  MaxEntries = 2
  MaxCohortControl = 3
  MaxFailures = 1
  MaxFaults = 1
  Torn = Torn
  None = None
  Unset = Unset
CONSTRAINT Bounded
SYMMETRY Symmetry
CHECK_DEADLOCK FALSE
INVARIANTS EventsSafe SuccessionNeverReplays EntriesInOrder DispatchSafe
PROPERTIES ApprovalsAreFresh PhasesOnlyAdvance OutcomeIsFinal

\* Three runs of two instances; two attempts of an instance, one without a state,
\* one artifact, three states, one copy, one dead process.
SPECIFICATION InstancesSpec
CONSTANTS
  Instance = {i1, i2}
  MaxRuns = 3
  MaxRevisions = 3
  MaxListed = 1
  MaxFaults = 1
  Artifacts = {a1}
  Checkpoints = {c1, c2, c3}
  First = c1
  Runs = {r1, r2}
  Stateless = {s1}
  Copies = {k1}
  MaxCrashes = 1
  None = None
  Nobody = Nobody
CONSTRAINT Bounded
SYMMETRY Symmetry
CHECK_DEADLOCK FALSE
INVARIANTS StoreSafe CustodySafe
PROPERTIES HeadsFollow ClosingIsFinal

\* A chain of three engagements, any of them reopened, two reviews; three processes
\* and four appends with any outcome.
SPECIFICATION RecordsSpec
CONSTANTS
  Principal = {p1, p2, p3}
  Incarnation = {i1}
  MountId = {m1}
  ReviewId = {r1, r2}
  Subject = {s1}
  Call = {c1}
  FactKind = {config}
  Revision = {v1, v2}
  Card = {k1}
  MaxEpoch = 1
  None = None
  Process = {q1, q2, q3}
  Event = {e1, e2, e3, e4}
  Nil = Nil
SYMMETRY Symmetry
INVARIANTS LedgerSafe TapeSafe
PROPERTIES ClosedForGood ApprovalsOneByOne TornIsKept

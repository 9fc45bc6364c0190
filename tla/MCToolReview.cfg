\* One review, two engagements or two calls, any one append failing with or without its line.
SPECIFICATION Spec
CONSTANTS
  kid = kid
  boss = boss
  asks = asks
  goes = goes
  gadget = gadget
  Principal = {kid, boss}
  Incarnation = {i1, i2}
  MountId = {}
  ReviewId = {r1}
  Subject = {gadget}
  Call = {c1, c2}
  FactKind = {config}
  Revision = {0, 1}
  MaxRevision = 1
  Card = {asks, goes}
  MaxEpoch = 1
  None = None
  Session = {s1, s2}
  CardId <- MCCardId
  MaxFailures = 1
  ToolOf <- MCToolOf
  Permit <- MCPermit
  Covers <- MCCovers
SYMMETRY Symmetry
CONSTRAINT ReviewsOrLives
INVARIANTS EvidenceSafe LifecycleSafe
PROPERTIES StartsApproved OneShotProtocol RemovalsEvidenced FinishOnlyConcludes

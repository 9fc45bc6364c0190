\* A cancellation of an idle agent reaches the run after the next.
SPECIFICATION Spec
CONSTANTS
  kid = kid
  boss = boss
  asks = asks
  goes = goes
  gadget = gadget
  Principal = {kid, boss}
  Incarnation = {i1}
  MountId = {}
  ReviewId = {r1}
  Subject = {gadget}
  Call = {c1}
  FactKind = {config}
  Revision = {0}
  MaxRevision = 0
  Card = {asks, goes}
  MaxEpoch = 1
  None = None
  Session = {s1, s2}
  CardId <- MCCardId
  MaxFailures = 0
  ToolOf <- MCToolOf
  Permit <- MCPermit
  Covers <- MCCovers
INVARIANTS ConsumedCancelIsGone

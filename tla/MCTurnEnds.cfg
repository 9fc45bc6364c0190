\* Fair runs of one agent engaged once, two names, one call, one failing append.
SPECIFICATION FairDelivery
CONSTANTS
  kid = kid
  boss = boss
  asks = asks
  goes = goes
  front = front
  back = back
  event = event
  Principal = {kid}
  Incarnation = {i1}
  MountId = {m1, m2}
  ReviewId = {r1}
  Subject = {front, back}
  Call = {c1}
  FactKind = {register}
  Revision = {0, 1, 2}
  MaxRevision = 2
  Card = {asks}
  MaxEpoch = 0
  None = None
  Session = {s1}
  CardId <- MCCardId
  MaxFailures = 1
  ToolOf <- MCToolOf
  Permit <- MCPermit
  Covers = {}
  Name = {front, back}
  Event = {event}
  RegisterKind = register
  Route <- MCRoute
PROPERTIES SlotIsFreed

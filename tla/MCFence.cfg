\* A child and its supervisor, two engagements, two names, one review, one failing
\* append.
SPECIFICATION DeliverySpec
CONSTANTS
  kid = kid
  boss = boss
  asks = asks
  goes = goes
  front = front
  back = back
  event = event
  Principal = {kid, boss}
  Incarnation = {i1, i2}
  MountId = {m1, m2}
  ReviewId = {r1}
  Subject = {front, back}
  Call = {}
  FactKind = {register}
  Revision = {0, 1, 2}
  MaxRevision = 2
  Card = {asks, goes}
  MaxEpoch = 1
  None = None
  Session = {s1, s2}
  CardId <- MCCardId
  MaxFailures = 1
  ToolOf <- MCNone
  Permit <- MCPermit
  Covers = {}
  Name = {front, back}
  Event = {event}
  RegisterKind = register
  Route <- MCRoute
SYMMETRY Symmetry
CONSTRAINT FencingOrReviewing
INVARIANTS DeliverySafe
PROPERTIES RepliesAreCurrent FailureDropsOnlyItself StoppedBodiesRest

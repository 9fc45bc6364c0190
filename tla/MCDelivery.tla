----------------------------- MODULE MCDelivery -----------------------------
(* Deliveries of one event to at most two bodies, for TLC. *)
EXTENDS Delivery, TLC

CONSTANTS kid, boss, asks, goes, front, back, event

MCCardId == [card \in Card |-> IF card = asks THEN kid ELSE boss]
MCNone == [x \in {} |-> x]
MCToolOf == [call \in Call |-> front]
MCPermit == [card \in Card |-> [t \in Subject |-> IF card = asks THEN "ask" ELSE "go"]]

\* The second registration takes the first name off the route.
MCRoute ==
  [g \in Revision |->
     CASE g = 0 -> MCNone
       [] g = 1 -> [e \in Event |-> <<front, back>>]
       [] g > 1 -> [e \in Event |-> <<back>>]]

\* Two sides are explored far.  Fencing: one agent that may be engaged twice, in
\* one session, while nobody reviews.  Reviewing: a supervised agent, each engaged
\* once, delivering to one name; nothing fails, nobody finishes or writes a
\* manifest, and only the child delivers.  What lies beyond both is entered by one
\* step.
Unrevoked == \A p \in Principal : Active(p) => instances[p].epoch = 0
Fencing ==
  /\ \A i \in engaged : i.principal = kid
  /\ Unrevoked
  /\ Cardinality({s \in Session : sessions[s].owner # None}) <= 1

ChildDelivers == turn # None => turn.agent = kid
AllLive == \A p \in Principal : Seated(p) => Live(p) /\ SessionOf(p).sealed = None
Reviewing ==
  /\ Cardinality({i.incarnation : i \in engaged}) <= 1
  /\ bodies[back] = None
  /\ failures = 0
  /\ AllLive /\ ChildDelivers

FencingOrReviewing == Fencing \/ Reviewing

Symmetry ==
  Permutations(MountId) \cup Permutations(Session) \cup Permutations(Incarnation)
=============================================================================

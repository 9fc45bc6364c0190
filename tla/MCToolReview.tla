---------------------------- MODULE MCToolReview ----------------------------
(* A child whose card asks, a supervisor whose card goes, for TLC. *)
EXTENDS ToolReview, TLC

CONSTANTS kid, boss, asks, goes, gadget

MCCardId == [card \in Card |-> IF card = asks THEN kid ELSE boss]
MCToolOf == [call \in Call |-> gadget]
MCPermit == [card \in Card |-> [t \in Subject |-> IF card = asks THEN "ask" ELSE "go"]]
MCCovers == {<<goes, asks, gadget>>}

\* Two sides are explored far.  Reviews: each agent is engaged once, and since
\* only a resume reads a manifest and only run takes a call, states that differ in
\* those are left out.  Lives: engaged twice, while nobody is revoked, the workspace
\* stays and one call is enough.  What lies beyond both is entered by one step.
Engagements == {i.incarnation : i \in engaged}
Unsealed == \A s \in Session : sessions[s].sealed = None
RunsOnly == turn # None => turn.call # None
Reviews == Cardinality(Engagements) <= 1 /\ Unsealed /\ RunsOnly

CallsInUse ==
  {pending[id].call : id \in {x \in ReviewId : IsPending(x)}}
    \cup {turn.call : x \in {y \in {turn} : y # None}}
Unrevoked == \A p \in Principal : Active(p) => instances[p].epoch = 0
Lives ==
  /\ \A kind \in FactKind : generation[kind] = 0
  /\ Unrevoked
  /\ Cardinality(CallsInUse \ {None}) <= 1

ReviewsOrLives == Reviews \/ Lives

Symmetry ==
  Permutations(Session) \cup Permutations(ReviewId) \cup Permutations(Call) \cup Permutations(Incarnation)
=============================================================================

------------------------------- MODULE OneShot -------------------------------
(***************************************************************************)
(* What the review protocol promises of one request: it is asked for once, *)
(* its approval admits at most one execution, and whatever ends it ends it *)
(* for good.  ToolReview is shown to implement this.                       *)
(***************************************************************************)
CONSTANT ReviewId

VARIABLE stage

Stage == {"fresh", "waiting", "approved", "used", "closed"}

Init == stage = [id \in ReviewId |-> "fresh"]

Move(id, from, to) == stage[id] = from /\ stage' = [stage EXCEPT ![id] = to]

Request(id) == Move(id, "fresh", "waiting")
Approve(id) == Move(id, "waiting", "approved")
Consult(id) == Move(id, "approved", "waiting")
Use(id) == Move(id, "approved", "used")

\* A revocation ends any number of requests at once, approved ones included.
End(ids) ==
  /\ \A id \in ids : stage[id] \in {"waiting", "approved"}
  /\ stage' = [id \in ReviewId |-> IF id \in ids THEN "closed" ELSE stage[id]]

Next ==
  \/ \E id \in ReviewId : Request(id) \/ Approve(id) \/ Consult(id) \/ Use(id)
  \/ \E ids \in SUBSET ReviewId : End(ids)

Spec == Init /\ [][Next]_stage
=============================================================================

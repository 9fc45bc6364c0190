----------------------------- MODULE RunCustody -----------------------------
(***************************************************************************)
(* What one instance of a native spool promises about its runs: a name is  *)
(* used for one attempt, what was started stays held until its end is      *)
(* confirmed, and a round closes over no held attempt.                     *)
(***************************************************************************)
CONSTANT Run

VARIABLES
  round,   \* "open", "closed" or "unloaded"
  custody  \* run -> what is known of its one attempt

vars == <<round, custody>>

Init == round = "open" /\ custody = [n \in Run |-> "free"]

Become(n, from, to) ==
  /\ custody[n] = from
  /\ custody' = [custody EXCEPT ![n] = to]
  /\ UNCHANGED round

\* A start or a reservation is admitted.
Hold(n) == round = "open" /\ Become(n, "free", "held")

\* "void": the attempt ended before anything of it was started.
Settle(n) == \E end \in {"void", "failed", "succeeded"} : Become(n, "held", end)

Accept(n) == Become(n, "succeeded", "accepted")

Quiet == \A n \in Run : custody[n] # "held"

Close ==
  /\ round = "open" /\ round' = "closed"
  /\ Quiet /\ \A n \in Run : custody[n] # "succeeded"
  /\ UNCHANGED custody

Reopen == round = "closed" /\ round' = "open" /\ UNCHANGED custody

Unload == round # "unloaded" /\ round' = "unloaded" /\ Quiet /\ UNCHANGED custody

Next ==
  \/ \E n \in Run : Hold(n) \/ Settle(n) \/ Accept(n)
  \/ Close \/ Reopen \/ Unload

Spec == Init /\ [][Next]_vars
=============================================================================

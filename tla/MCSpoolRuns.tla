---------------------------- MODULE MCSpoolRuns ----------------------------
(* The runs of one instance, for TLC. *)
EXTENDS SpoolRuns, TLC

Symmetry == Permutations(Kit)

\* A failure alone, or with it neither records of a kit that has changed since
\* nor a suspension, which is a pause that no pause follows.
PlansAreOfKit ==
  \A n \in Run : \A plan \in {runs[n].preview, runs[n].request} : plan \in Plan => plan.kit = kit
JournalIsOfKit ==
  \A g \in 1..MaxGeneration : journal[g] # None => journal[g].snapshot.kit = kit
OneAtATime == failures = 0 \/ (PlansAreOfKit /\ JournalIsOfKit /\ control.mode # "suspended")
=============================================================================

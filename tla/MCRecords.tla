----------------------------- MODULE MCRecords -----------------------------
(* What an agent's authority rests on, for TLC: the review ledger in memory or *)
(* the tape on disk.  Neither knows of the other.                              *)
EXTENDS Supervision, Tape, TLC

VARIABLE part  \* the record that is used

InLedger == part = "ledger" /\ UNCHANGED <<part, tapeVars>>
InTape == part = "tape" /\ UNCHANGED <<part, ledger>>

RecordsInit == part \in {"ledger", "tape"} /\ LedgerInit /\ TapeInit

\* LedgerNext and TapeNext, each action in its part.
RecordsNext ==
  \/ \E i \in InstanceRef : InLedger /\ Open(i)
  \/ \E m \in MountId : InLedger /\ Mount(m)
  \/ \E m \in MountId : InLedger /\ Unmount(m)
  \/ \E child, supervisor \in Principal : InLedger /\ Bind(child, supervisor)
  \/ \E supervisor \in Principal, id \in ReviewId, r \in Resolution, card \in Card :
       InLedger /\ Resolve(supervisor, id, r, card)
  \/ \E id \in ReviewId : InLedger /\ Close(id)
  \/ \E p \in Principal : InLedger /\ Revoke(p)
  \/ \E p \in Principal : InLedger /\ Retire(p)
  \/ \E kind \in FactKind, revision \in Revision : InLedger /\ InvalidateFact(kind, revision)
  \/ InLedger /\ InsertAny
  \/ \E p \in Process : InTape /\ OpenStore(p)
  \/ \E p \in Process : InTape /\ Drop(p)
  \/ \E p \in Process : InTape /\ KillProcess(p)
  \/ \E p \in Process : InTape /\ DropInherited(p)
  \/ \E p \in Process : InTape /\ ReadAll(p)
  \/ \E p, q \in Process : InTape /\ Fork(p, q)
  \/ \E p \in Process, id \in Event, outcome \in LineOutcome : InTape /\ AppendEvent(p, id, outcome)
  \/ InTape /\ TapePowerLoss

RecordsSpec == RecordsInit /\ [][RecordsNext]_<<part, ledger, tapeVars>>

\* Interesting in the ledger: revocations between a request and its answer, so few
\* ids, none of which is told apart from the others.
Symmetry ==
  Permutations(Principal) \cup Permutations(Incarnation) \cup Permutations(ReviewId) \cup Permutations(Revision)
=============================================================================

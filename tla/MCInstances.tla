---------------------------- MODULE MCInstances ----------------------------
(* Two generations of instances, for TLC: a publisher and a recipient, each the *)
(* other's, in one workspace; or attempts of an instance of a spool, which take  *)
(* custody of versioned artifacts.  They share nothing.                          *)
EXTENDS Instances, ArtifactCustody, TLC

VARIABLE part  \* what is used

InStore == part = "store" /\ UNCHANGED <<part, custody>>
InCustody == part = "custody" /\ UNCHANGED <<part, vars>>

InstancesInit == part \in {"store", "custody"} /\ Init /\ CustodyInit

\* Next and CustodyNext, each action in its part.
InstancesNext ==
  \/ \E i \in Instance : InStore /\ InitInstance(i)
  \/ \E i \in Instance : InStore /\ InitIsCut(i)
  \/ \E i \in Instance : InStore /\ \E k \in DOMAIN catalog[i] : RunState(i, k)
  \/ \E i \in Instance : InStore /\ \E r \in DOMAIN runs, manifest \in {None} \cup Offered : CommitBegins(i, r, manifest)
  \/ InStore /\ \E r \in DOMAIN runs : RunSeals(r)
  \/ InStore /\ CommitStages
  \/ InStore /\ CommitMovesHead
  \/ InStore /\ \E e \in Events : ReclaimBegins(e)
  \/ \E to \in Instance : InStore /\ \E e \in Events : Acknowledge(e, to)
  \/ \E to \in Instance : InStore /\ \E e \in Events : DeliverBegins(e, to)
  \/ InStore /\ \E a \in calls : DeliverRuns(a)
  \/ InStore /\ \E a \in calls : DeliverIsCut(a)
  \/ InStore /\ ReclaimRemoves
  \/ InStore /\ ReclaimReceipt
  \/ InStore /\ OpIsCut
  \/ InStore /\ OperatorUnlocks
  \/ \E r \in Attempts : InCustody /\ \E sel \in Selections(r) : Reserve(r, sel)
  \/ \E r \in Attempts : InCustody /\ \E sel \in Selections(r) : Acquire(r, sel)
  \/ \E r \in Attempts : InCustody /\ Submit(r)
  \/ \E r \in Attempts : InCustody /\ Withdraw(r)
  \/ \E r \in Attempts : InCustody /\ Snapshot(r)
  \/ \E r \in Attempts : InCustody /\ Clean(r)
  \/ \E r \in Attempts : InCustody /\ ReleaseInputs(r)
  \/ \E r \in Attempts, how \in {"cancelled", "failed", "needs-data", "needs-nothing"} : InCustody /\ Settle(r, how)
  \/ \E r \in Attempts, c \in Checkpoints : InCustody /\ Commit(r, c)
  \/ \E r \in Attempts, c \in Checkpoints : InCustody /\ CommitIsCut(r, c)
  \/ \E c \in Checkpoints : InCustody /\ ReleasePins(c)
  \/ \E c \in Checkpoints, a \in Artifacts : InCustody /\ Declare(c, <<a>>)
  \/ \E o \in Owners : InCustody /\ Pin(o)
  \/ \E o \in Owners : InCustody /\ WriteClaim(o)
  \/ \E o \in Owners : InCustody /\ Register(o)
  \/ \E o \in Owners : InCustody /\ MarkRelease(o)
  \/ \E o \in Owners : InCustody /\ Receipt(o)
  \/ \E v \in Versions : InCustody /\ Close(v)
  \/ \E a \in Artifacts : InCustody /\ Delete(a)
  \/ \E a \in Artifacts : InCustody /\ Drop(a)
  \/ \E a \in Artifacts, k \in Copies : InCustody /\ Checkout(a, k)
  \/ \E a \in Artifacts, k \in Copies : InCustody /\ ReadCopy(a, k)
  \/ \E a \in Artifacts, k \in Copies : InCustody /\ Copied(a, k)
  \/ \E a \in Artifacts, k \in Copies : InCustody /\ ReleaseCopy(a, k)
  \/ InCustody /\ \E p \in live : Crash(p)

InstancesSpec == InstancesInit /\ [][InstancesNext]_<<part, vars, custody>>

\* Three runs with nothing cut short, or two of them and a fault.  Nothing takes
\* back a manifest that keeps its product: it is committed, and not followed.
NothingKept == \A plan \in journal : plan.checkpoint # None => ~plan.checkpoint.manifest.keep
Followed == Len(runs) + faults <= MaxRuns /\ NothingKept

\* Two of: attempts, copies, dead processes; or all three, as long as the state is
\* the first one, of two attempts that keep it and a dead process.  (A copy holds no lock and nothing waits for it.)
Begun == {r \in Attempts : phase[r] # "idle"}
Made == {x \in Artifacts \X Copies : ledger[x[1]].copies[x[2]] # "none"}
Beside ==
  \/ Cardinality(Begun) + Cardinality(Made) + crashes <= 2
  \/ Begun \subseteq Runs /\ Made = {} /\ newest = First

Bounded == Followed /\ Beside

Symmetry == Permutations(Instance) \cup Permutations(Runs) \cup Permutations(Checkpoints \ {First})
=============================================================================

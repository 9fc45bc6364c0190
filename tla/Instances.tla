----------------------------- MODULE Instances -----------------------------
(***************************************************************************)
(* Instances and their checkpoints (an-agent-host, instance/* over         *)
(* execution/attempt, settled_run and artifact_versions).  An instance's   *)
(* HEAD names a committed revision; a run reads one and settles; a commit  *)
(* publishes its output as the next revision, with a product other         *)
(* instances are to consume and the events this one has.  A host operation *)
(* holds host.lock, whose file a crash leaves; runs hold nothing.          *)
(***************************************************************************)
EXTENDS Naturals, Sequences, FiniteSetsExt

CONSTANTS
  Instance,
  MaxRuns,      \* a bound of the model
  MaxRevisions, \* of one instance's catalog, a bound of the model
  MaxListed,    \* recipients and references of a manifest, a bound of the model
  MaxFaults,    \* operations cut short, a bound of the model
  None

VARIABLES
  halfMade, \* instances whose initialization was cut short
  catalog,  \* instance -> its revisions, the staged ones included
  head,     \* instance -> HEAD, 0 before it is initialized
  runs,     \* what each run read, and whether it is settled and accepted
  product,  \* run -> the product stored for its commit
  reclaim,  \* run -> what is on disk of the reclamation of that product
  journal,  \* intents of commits
  attempts, \* intents of deliveries
  acks,     \* acknowledgements of deliveries
  calls,    \* deliveries between their intent and their run
  op,       \* the operation that holds host.lock
  stale,    \* host.lock was left by a crash
  faults

vars == <<halfMade, catalog, head, runs, product, reclaim, journal, attempts, acks, calls, op, stale, faults>>

Rev == 1..MaxRevisions
Run == 1..MaxRuns
Event == [of : Instance, rev : Rev]
Manifest == [recipients : SUBSET Instance, refs : SUBSET Event, keep : BOOLEAN]
Checkpoint == [manifest : Manifest, consumed : SUBSET Event]
Revision == [parent : {0} \cup Rev, run : {0} \cup Run, checkpoint : Checkpoint \cup {None}]
Attempt == [event : Event, to : Instance, expected : Rev]
Input == [kind : {"state"}, of : Instance, rev : Rev]
           \cup [kind : {"delivery"}, attempt : Attempt]
Plan == [of : Instance, expected : Rev, run : Run, checkpoint : Checkpoint \cup {None}]
Operation == [kind : {"commit"}, at : {"stage", "head"}, plan : Plan]
               \cup [kind : {"reclaim"}, at : {"remove", "receipt"}, run : Run]

\* An instance begins with a revision; what is absent is neither a checkpoint nor
\* an operation.
ASSUME InstancesAssumption ==
  /\ MaxRuns \in Nat /\ MaxRevisions \in Nat \ {0} /\ MaxFaults \in Nat
  /\ None \notin Checkpoint /\ None \notin Operation

TypeOK ==
  /\ halfMade \subseteq Instance
  /\ catalog \in [Instance -> Seq(Revision)]
  /\ head \in [Instance -> Nat] /\ \A i \in Instance : head[i] <= Len(catalog[i])
  /\ runs \in Seq([input : Input, sealed : BOOLEAN])
  /\ product \in [Run -> {"none", "here", "gone"}]
  /\ reclaim \in [Run -> {"none", "intent", "receipt"}]
  /\ journal \subseteq Plan /\ attempts \subseteq Attempt /\ calls \subseteq attempts
  /\ acks \subseteq [event : Event, to : Instance, rev : Rev]
  /\ op \in Operation \cup {None} /\ stale \in BOOLEAN /\ faults \in 0..MaxFaults

Init ==
  /\ halfMade = {}
  /\ catalog = [i \in Instance |-> <<>>] /\ head = [i \in Instance |-> 0]
  /\ runs = <<>>
  /\ product = [r \in Run |-> "none"] /\ reclaim = [r \in Run |-> "none"]
  /\ journal = {} /\ attempts = {} /\ acks = {} /\ calls = {}
  /\ op = None /\ stale = FALSE /\ faults = 0

----------------------------------------------------------------------------
(* What is committed *)

\* A revision and its ancestors: the revisions before it only by their parents.
Ancestry(revisions) ==
  LET from[k \in 0..Len(revisions)] == IF k = 0 THEN {} ELSE {k} \cup from[revisions[k].parent]
  IN from

History(i) == Ancestry(catalog[i])[head[i]]

At(e) == catalog[e.of][e.rev]
Committed(e) == e.rev \in History(e.of)

\* A committed revision with a checkpoint, the bytes of its product still there.
IsEvent(e) == Committed(e) /\ At(e).checkpoint # None
Available(e) == IsEvent(e) /\ product[At(e).run] = "here"

Refs(rev) == IF rev.checkpoint = None THEN {} ELSE rev.checkpoint.manifest.refs
Consumed(rev) == IF rev.checkpoint = None THEN {} ELSE rev.checkpoint.consumed

\* The earliest retained checkpoint proves the consumption.
ConsumedAt(i, e) == {k \in History(i) : e \in Consumed(catalog[i][k])}
FirstAt(i, e) == CHOOSE k \in ConsumedAt(i, e) : \A j \in ConsumedAt(i, e) : k <= j

Accepted(r) == runs[r].sealed

\* The whole-store lock is taken by creating its file: who finds one is refused.
Free == op = None /\ ~stale

----------------------------------------------------------------------------
(* Instances and runs *)

InitInstance(i) ==
  /\ Free /\ head[i] = 0 /\ i \notin halfMade
  /\ catalog' = [catalog EXCEPT ![i] = <<[parent |-> 0, run |-> 0, checkpoint |-> None]>>]
  /\ head' = [head EXCEPT ![i] = 1]
  /\ UNCHANGED <<halfMade, runs, product, reclaim, journal, attempts, acks, calls, op, stale, faults>>

\* The pending directory of an initialization that was cut short stays.
InitIsCut(i) ==
  /\ Free /\ head[i] = 0 /\ faults < MaxFaults
  /\ halfMade' = halfMade \cup {i} /\ faults' = faults + 1 /\ stale' \in BOOLEAN
  /\ UNCHANGED <<catalog, head, runs, product, reclaim, journal, attempts, acks, calls, op>>

Started(input) == runs' = Append(runs, [input |-> input, sealed |-> FALSE])

\* Any committed revision may be run, with what its checkpoint refers to.
RunState(i, k) ==
  /\ Free /\ Len(runs) < MaxRuns
  /\ k \in History(i) /\ \A e \in Refs(catalog[i][k]) : Available(e)
  /\ Started([kind |-> "state", of |-> i, rev |-> k])
  /\ UNCHANGED <<halfMade, catalog, head, product, reclaim, journal, attempts, acks, calls, op, stale, faults>>

\* The seal is the last write, after the receipt, kernel finish and audit.  A
\* run that is refused, cancelled, unconfirmed or cut short is never sealed as
\* accepted, and stays as it is.
RunSeals(r) ==
  /\ ~Accepted(r) /\ runs' = [runs EXCEPT ![r].sealed = TRUE]
  /\ UNCHANGED <<halfMade, catalog, head, product, reclaim, journal, attempts, acks, calls, op, stale, faults>>

----------------------------------------------------------------------------
(* Commit *)

\* A delivery input binds this recipient, this state and its own attempt.
VerifyInput(i, expected, input) ==
  /\ input.kind = "delivery"
  /\ input.attempt.to = i /\ input.attempt.expected = expected
  /\ Available(input.attempt.event)
  /\ i \in At(input.attempt.event).checkpoint.manifest.recipients
  /\ input.attempt \in attempts

\* Mutant: what the parent had consumed is not looked at.
PrepareAgain(i, expected, input, manifest) ==
  LET own == input = [kind |-> "state", of |-> i, rev |-> expected] IN
  IF manifest = None
  THEN IF catalog[i][expected].checkpoint = None /\ own THEN {None} ELSE {}
  ELSE IF /\ \A to \in manifest.recipients : head[to] # 0
          /\ \A e \in manifest.refs : Available(e)
          /\ own \/ VerifyInput(i, expected, input)
       THEN {[manifest |-> manifest, consumed |-> IF own THEN {} ELSE {input.attempt.event}]}
       ELSE {}

\* The checkpoint a commit would publish, none without a manifest, or no commit.
Prepare(i, expected, input, manifest) ==
  LET previous == catalog[i][expected]
      own == input = [kind |-> "state", of |-> i, rev |-> expected] IN
  IF manifest = None
  THEN IF previous.checkpoint = None /\ own THEN {None} ELSE {}
  ELSE IF /\ \A to \in manifest.recipients : head[to] # 0
          /\ \A e \in manifest.refs : Available(e)
          /\ own \/ /\ VerifyInput(i, expected, input)
                    /\ input.attempt.event \notin Consumed(previous)
       THEN {[manifest |-> manifest,
              consumed |-> Consumed(previous) \cup IF own THEN {} ELSE {input.attempt.event}]}
       ELSE {}

\* Mutant: an older state may be followed again.
IsCurrent(i, expected) == expected \in History(i)

\* Otherwise the commit answers that there is a conflict and changes nothing.
IsHead(i, expected) == head[i] = expected

CommitBegins(i, r, manifest) ==
  /\ Free /\ head[i] # 0 /\ Accepted(r)
  /\ \E expected \in History(i) :
       /\ IsHead(i, expected)
       /\ \E checkpoint \in Prepare(i, expected, runs[r].input, manifest) :
            LET plan == [of |-> i, expected |-> expected, run |-> r, checkpoint |-> checkpoint] IN
            /\ plan \notin journal
            /\ journal' = journal \cup {plan}
            /\ op' = [kind |-> "commit", at |-> "stage", plan |-> plan]
  /\ UNCHANGED <<halfMade, catalog, head, runs, product, reclaim, attempts, acks, calls, stale, faults>>

Doing(kind, at) == op # None /\ op.kind = kind /\ op.at = at

\* The product, which has an identity of its own by its run and bytes, then
\* the revision: until HEAD names it a revision is published to nobody.
CommitStages ==
  /\ Doing("commit", "stage") /\ Len(catalog[op.plan.of]) < MaxRevisions
  /\ op' = [op EXCEPT !.at = "head"]
  /\ IF op.plan.checkpoint = None THEN UNCHANGED product
     ELSE /\ product[op.plan.run] # "gone"
          /\ product' = [product EXCEPT ![op.plan.run] = "here"]
  /\ catalog' = [catalog EXCEPT ![op.plan.of] = Append(@,
       [parent |-> op.plan.expected, run |-> op.plan.run, checkpoint |-> op.plan.checkpoint])]
  /\ UNCHANGED <<halfMade, head, runs, reclaim, journal, attempts, acks, calls, stale, faults>>

\* One pointer is replaced; a record of the result follows it.
CommitMovesHead ==
  /\ Doing("commit", "head")
  /\ op' = None
  /\ head' = [head EXCEPT ![op.plan.of] = Len(catalog[op.plan.of])]
  /\ UNCHANGED <<halfMade, catalog, runs, product, reclaim, journal, attempts, acks, calls, stale, faults>>

----------------------------------------------------------------------------
(* Delivery *)

IsFor(e, to) == IsEvent(e) /\ to \in At(e).checkpoint.manifest.recipients

\* Only a consumption that is committed is acknowledged.
Acknowledge(e, to) ==
  /\ Free /\ IsFor(e, to) /\ ConsumedAt(to, e) # {}
  /\ acks' = acks \cup {[event |-> e, to |-> to, rev |-> FirstAt(to, e)]}
  /\ UNCHANGED <<halfMade, catalog, head, runs, product, reclaim, journal, attempts, calls, op, stale, faults>>

\* An attempt is never tried again, whatever became of it.
Attempted(e, to) == \E a \in attempts : a.event = e /\ a.to = to

DeliverBegins(e, to) ==
  /\ Free /\ head[to] # 0
  /\ IsFor(e, to) /\ ConsumedAt(to, e) = {}
  /\ Available(e) /\ \A f \in Refs(catalog[to][head[to]]) : Available(f)
  /\ ~Attempted(e, to)
  /\ LET attempt == [event |-> e, to |-> to, expected |-> head[to]] IN
     attempts' = attempts \cup {attempt} /\ calls' = calls \cup {attempt}
  /\ UNCHANGED <<halfMade, catalog, head, runs, product, reclaim, journal, acks, op, stale, faults>>

\* The lock was released; the run needs it again for a moment.
DeliverRuns(attempt) ==
  /\ attempt \in calls
  /\ calls' = calls \ {attempt}
  /\ \/ Free /\ Len(runs) < MaxRuns /\ Started([kind |-> "delivery", attempt |-> attempt])
     \/ ~Free /\ UNCHANGED runs
  /\ UNCHANGED <<halfMade, catalog, head, product, reclaim, journal, attempts, acks, op, stale, faults>>

DeliverIsCut(attempt) ==
  /\ attempt \in calls /\ faults < MaxFaults
  /\ calls' = calls \ {attempt} /\ faults' = faults + 1
  /\ UNCHANGED <<halfMade, catalog, head, runs, product, reclaim, journal, attempts, acks, op, stale>>

----------------------------------------------------------------------------
(* Reclamation of a product *)

\* Any checkpoint in any history, all of which are retained.
Pinned(e) == \E i \in Instance : \E k \in History(i) : e \in Refs(catalog[i][k])

\* With an intent on disk there is nothing but a reading of what is there.
ReclaimBegins(e) ==
  /\ Free /\ halfMade = {}
  /\ IsEvent(e) /\ ~At(e).checkpoint.manifest.keep
  /\ \A to \in At(e).checkpoint.manifest.recipients : ConsumedAt(to, e) # {}
  /\ ~Pinned(e)
  /\ reclaim[At(e).run] = "none" /\ Available(e)
  /\ reclaim' = [reclaim EXCEPT ![At(e).run] = "intent"]
  /\ op' = [kind |-> "reclaim", at |-> "remove", run |-> At(e).run]
  /\ UNCHANGED <<halfMade, catalog, head, runs, product, journal, attempts, acks, calls, stale, faults>>

ReclaimRemoves ==
  /\ Doing("reclaim", "remove")
  /\ product' = [product EXCEPT ![op.run] = "gone"]
  /\ op' = [op EXCEPT !.at = "receipt"]
  /\ UNCHANGED <<halfMade, catalog, head, runs, reclaim, journal, attempts, acks, calls, stale, faults>>

ReclaimReceipt ==
  /\ Doing("reclaim", "receipt")
  /\ reclaim' = [reclaim EXCEPT ![op.run] = "receipt"]
  /\ op' = None
  /\ UNCHANGED <<halfMade, catalog, head, runs, product, journal, attempts, acks, calls, stale, faults>>

\* A write fails and the lock is let go, or the process ends and it is not.
OpIsCut ==
  /\ op # None /\ faults < MaxFaults
  /\ op' = None /\ stale' \in BOOLEAN /\ faults' = faults + 1
  /\ UNCHANGED <<halfMade, catalog, head, runs, product, reclaim, journal, attempts, acks, calls>>

\* The operator inspects the store and removes the lock.
OperatorUnlocks ==
  /\ stale /\ stale' = FALSE
  /\ UNCHANGED <<halfMade, catalog, head, runs, product, reclaim, journal, attempts, acks, calls, op, faults>>

Events == {e \in Event : e.rev <= Len(catalog[e.of])}

Offered ==
  {m \in [recipients : UNION {kSubset(n, Instance) : n \in 0..MaxListed},
           refs : UNION {kSubset(n, {e \in Events : Available(e)}) : n \in 0..MaxListed},
           keep : BOOLEAN] : Cardinality(m.recipients) + Cardinality(m.refs) <= MaxListed}

Next ==
  \/ \E i \in Instance :
       \/ InitInstance(i) \/ InitIsCut(i)
       \/ \E k \in DOMAIN catalog[i] : RunState(i, k)
       \/ \E r \in DOMAIN runs, manifest \in {None} \cup Offered : CommitBegins(i, r, manifest)
  \/ \E r \in DOMAIN runs : RunSeals(r)
  \/ CommitStages \/ CommitMovesHead
  \/ \E e \in Events : ReclaimBegins(e) \/ \E to \in Instance : Acknowledge(e, to) \/ DeliverBegins(e, to)
  \/ \E a \in calls : DeliverRuns(a) \/ DeliverIsCut(a)
  \/ ReclaimRemoves \/ ReclaimReceipt \/ OpIsCut \/ OperatorUnlocks

Spec == Init /\ [][Next]_vars

----------------------------------------------------------------------------
(* Properties *)

\* Each committed checkpoint has what its parent had consumed and at most one
\* event more: the one its run was delivered, published for this instance,
\* for the state it follows.  No manifest is dropped on the way, and an
\* acknowledgement says no more than the history (checkpoint::prepare,
\* delivery::verify_input, acknowledge).
ConsumptionIsTraced ==
  /\ \A i \in Instance : \A k \in History(i) :
       LET rev == catalog[i][k]
           had == IF rev.parent = 0 THEN {} ELSE Consumed(catalog[i][rev.parent]) IN
       /\ rev.checkpoint = None => rev.parent = 0 \/ catalog[i][rev.parent].checkpoint = None
       /\ had \subseteq Consumed(rev)
       /\ \A e \in Consumed(rev) \ had :
            /\ runs[rev.run].input = [kind |-> "delivery",
                                       attempt |-> [event |-> e, to |-> i, expected |-> rev.parent]]
            /\ IsFor(e, i)
  /\ \A ack \in acks : ack.rev \in History(ack.to) /\ ack.event \in Consumed(catalog[ack.to][ack.rev])

\* An event is run for a recipient at most once, however its first attempt
\* ended (delivery::deliver, "never auto-retry").
OneAttempt ==
  \A r, s \in DOMAIN runs :
    /\ runs[r].input.kind = "delivery" /\ runs[s].input.kind = "delivery"
    /\ runs[r].input.attempt.event = runs[s].input.attempt.event
    /\ runs[r].input.attempt.to = runs[s].input.attempt.to
    => r = s

\* The bytes of a product are there while a committed checkpoint anywhere
\* refers to them or a recipient has not consumed them (retention::reclaim).
NeededProductsStay ==
  \A e \in Events : IsEvent(e) /\ product[At(e).run] # "here" =>
    /\ \A i \in Instance : \A k \in History(i) : e \notin Refs(catalog[i][k])
    /\ \A to \in At(e).checkpoint.manifest.recipients : ConsumedAt(to, e) # {}

\* What histories, attempts and products of a store say of one another.
StoreSafe == TypeOK /\ ConsumptionIsTraced /\ OneAttempt /\ NeededProductsStay

\* HEAD only ever moves to a revision made from what it was: nothing that was
\* published is lost, two runs of one state have one winner (instance::commit).
HeadsFollow ==
  [][\A i \in Instance : head'[i] # head[i] => catalog'[i][head'[i]].parent = head[i]]_vars
=============================================================================

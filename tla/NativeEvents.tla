---------------------------- MODULE NativeEvents ----------------------------
(***************************************************************************)
(* The event workspace of native spools (native_spool/events): facts about *)
(* accepted artifacts, static subscriptions with their pauses, revocations *)
(* and successors, and deliveries, each of which starts one run of the     *)
(* receiver.  The receiver is what RunCustody promises of an instance, and *)
(* what its operators do to a run that ended: acceptance in several        *)
(* records, reclamation, deletion of the output, any of them cut short.    *)
(*                                                                         *)
(* Records are appended to one log under host.lock of the workspace, and   *)
(* whoever writes takes every decision again under it: an operation is one *)
(* step, which may fail or be killed between two of its writes.            *)
(***************************************************************************)
EXTENDS Naturals, Sequences, FiniteSets, TLC

CONSTANTS
  Fact,           \* accepted outputs of the producer
  Name,           \* names of subscriptions
  Slot,           \* declared outputs of the receiver
  MaxControl,     \* pauses and resumes of a subscription, a bound of the code
  MaxGeneration,  \* pauses and resumes of the receiver, a bound of the model
  MaxFailures,    \* failing writes and killed hosts, a bound of the model
  None

VARIABLES
  log,         \* facts/log.jsonl
  routes,      \* the configuration snapshot that registers a name
  revoked,     \* names with a file in revocations/
  offer,       \* the successor that was last previewed
  approved,    \* delivery -> control generation of the plan last previewed
  deliveries,  \* delivery -> its directory: intent.json and ack.json
  round, custody, generation,  \* of the receiver: RunCustody, and its round
  job,         \* delivery -> what became of the job of its run since its end
  failures

receiver == <<round, custody, generation, job>>
facts == <<log, routes, revoked>>
vars == <<facts, offer, approved, deliveries, receiver, failures>>

\* One delivery for an event and a subscription; its run has its identity.
Delivery == Fact \X Name
Event == Fact \cup Delivery  \* published, or the result of a delivery
Record == ({"event"} \X Event) \cup ({"route", "control"} \X Name)

Route == [slot : Slot, generation : 0..MaxGeneration, replaces : Name \cup {None}, cutover : Nat]
Offer == [previous : Name, next : Name, control : Nat, route : Route]
Written == {"none", "torn", "done"}
Job ==
  [accept : {"no", "intent", "torn", "job"},  \* how far an acceptance has come
   scratch : {"kept", "going", "gone"},       \* a reclamation under way, or cut
   output : {"kept", "closed", "going", "gone"}]

ASSUME NoneAssumption == None \notin Name /\ None \notin Route /\ None \notin Offer
ASSUME BoundsAssumption == MaxControl \in Nat /\ MaxGeneration \in Nat /\ MaxFailures \in Nat

Receiver == INSTANCE RunCustody WITH Run <- Delivery

TypeOK ==
  /\ log \in Seq(Record)
  /\ routes \in [Name -> Route \cup {None}]
  /\ revoked \subseteq Name
  /\ offer \in Offer \cup {None}
  /\ approved \in [Delivery -> 0..MaxControl \cup {None}]
  /\ deliveries \in [Delivery -> [intent : Written, ack : Written]]
  /\ generation \in 0..MaxGeneration
  /\ job \in [Delivery -> Job]
  /\ failures \in 0..MaxFailures

Init ==
  /\ log = <<>>
  /\ routes = [n \in Name |-> None]
  /\ revoked = {}
  /\ offer = None
  /\ approved = [d \in Delivery |-> None]
  /\ deliveries = [d \in Delivery |-> [intent |-> "none", ack |-> "none"]]
  /\ Receiver!Init /\ generation = 0
  /\ job = [d \in Delivery |-> [accept |-> "no", scratch |-> "kept", output |-> "kept"]]
  /\ failures = 0

----------------------------------------------------------------------------
(* What the log and the files say *)

Logged(record) == \E i \in DOMAIN log : log[i] = record
Registered(n) == Logged(<<"route", n>>)

\* Controls alternate, from active to paused and back.
Control(n) == Cardinality({i \in DOMAIN log : log[i] = <<"control", n>>})
Paused(n) == Control(n) % 2 = 1

RetiredBy(n) == {s \in Name : Registered(s) /\ routes[s].replaces = n}

CheckTarget(route) == round = "open" /\ route.generation = generation

CheckActive(n) ==
  /\ n \notin revoked /\ RetiredBy(n) = {} /\ ~Paused(n)
  /\ CheckTarget(routes[n])

\* Mutant: a successor takes over what its predecessor left undelivered.
Undelivered(f, n) ==
  routes[n].replaces # None => deliveries[<<f, routes[n].replaces>>].intent # "done"

\* Mutant: what was published up to a pause is not admitted after it.
ResumedAfter(f, n) ==
  \A i, j \in DOMAIN log : log[i] = <<"event", f>> /\ log[j] = <<"control", n>> => j < i

\* A successor does not admit what was published before its cutover.
Eligible(f, n) ==
  routes[n].replaces # None => \A i \in 1..routes[n].cutover : log[i] # <<"event", f>>

\* The evidence of an end is read again by every operation, and says nothing while
\* a reclamation is under way; one that was cut looks the same, and for good.
Readable(d) == job[d].scratch # "going"

\* The same of the accepted output, unless a deletion of it is unconfirmed.
Verified(d) == custody[d] = "accepted" /\ Readable(d) /\ job[d].output # "going"

Routed(f, n) == Logged(<<"event", f>>) /\ Registered(n) /\ Eligible(f, n)

----------------------------------------------------------------------------
(* Records *)

Fails == failures < MaxFailures /\ failures' = failures + 1
MayFail == UNCHANGED failures \/ Fails

With(record) == IF Logged(record) THEN log ELSE Append(log, record)

\* An append that fails may have left its line.
Appends(record) ==
  \/ log' = With(record) /\ MayFail
  \/ UNCHANGED log /\ Fails

Register(n, route) ==
  \/ log' = With(<<"route", n>>) /\ routes' = [routes EXCEPT ![n] = route] /\ MayFail
  \/ UNCHANGED <<log, routes>> /\ Fails

\* An accepted output; of a delivered run, with the intent that it names as cause.
Publish(e) ==
  /\ ~Logged(<<"event", e>>)
  /\ e \in Delivery => Verified(e) /\ job[e].output = "kept" /\ deliveries[e].intent = "done"
  /\ Appends(<<"event", e>>)
  /\ UNCHANGED <<routes, revoked, offer, approved, deliveries, receiver>>

Subscribe(n, slot) ==
  /\ round = "open" /\ ~Registered(n)
  /\ Register(n, [slot |-> slot, generation |-> generation, replaces |-> None, cutover |-> 0])
  /\ UNCHANGED <<revoked, offer, approved, deliveries, receiver>>

Revoke(n) ==
  /\ Registered(n) /\ n \notin revoked
  /\ revoked' = revoked \cup {n} /\ MayFail
  /\ UNCHANGED <<log, routes, offer, approved, deliveries, receiver>>

SubscriptionControl(n) ==
  /\ Registered(n) /\ n \notin revoked /\ RetiredBy(n) = {}
  /\ Paused(n) => CheckTarget(routes[n])
  /\ Control(n) < MaxControl
  /\ \/ log' = Append(log, <<"control", n>>) /\ MayFail
     \/ UNCHANGED log /\ Fails
  /\ UNCHANGED <<routes, revoked, offer, approved, deliveries, receiver>>

\* The receiver or its slot changes, the producer and its output never.
Successor(previous, next, slot) ==
  [previous |-> previous, next |-> next, control |-> Control(previous),
   route |-> [slot |-> slot, generation |-> generation,
              replaces |-> previous, cutover |-> Len(log)]]

Replaceable(previous, next, route) ==
  /\ previous # next /\ Registered(previous) /\ ~Registered(next)
  /\ previous \notin revoked /\ RetiredBy(previous) = {}
  /\ CheckTarget(route)
  /\ route.generation # routes[previous].generation \/ route.slot # routes[previous].slot

PreviewReplace(previous, next, slot) ==
  LET successor == Successor(previous, next, slot) IN
  /\ Replaceable(previous, next, successor.route)
  /\ offer' = successor
  /\ UNCHANGED <<facts, approved, deliveries, receiver, failures>>

\* Mutant: the cutover of the preview is not compared again.
ReplaceAsOffered ==
  /\ offer # None
  /\ Replaceable(offer.previous, offer.next, offer.route)
  /\ Register(offer.next, offer.route)
  /\ offer' = None
  /\ UNCHANGED <<revoked, approved, deliveries, receiver>>

\* What was approved binds the records before it: any append in between refuses it.
Replace ==
  /\ offer # None
  /\ Replaceable(offer.previous, offer.next, offer.route)
  /\ offer = Successor(offer.previous, offer.next, offer.route.slot)
  /\ Register(offer.next, offer.route)
  /\ offer' = None
  /\ UNCHANGED <<revoked, approved, deliveries, receiver>>

----------------------------------------------------------------------------
(* Deliveries *)

PreviewDelivery(f, n) ==
  /\ Routed(f, n) /\ deliveries[<<f, n>>].intent = "none" /\ CheckActive(n)
  /\ approved' = [approved EXCEPT ![<<f, n>>] = Control(n)]
  /\ UNCHANGED <<facts, offer, deliveries, receiver, failures>>

Intent(d, written) == deliveries' = [deliveries EXCEPT ![d].intent = written]

\* Mutant: an approval outlives a pause and a resume.
AdmitApproved(f, n) ==
  LET d == <<f, n>> IN
  /\ Routed(f, n) /\ CheckActive(n) /\ approved[d] # None
  /\ deliveries[d].intent = "none"
  /\ Intent(d, "done") /\ Receiver!Hold(d) /\ UNCHANGED failures
  /\ UNCHANGED <<facts, offer, approved, generation, job>>

\* The directory is created exclusively, then the intent, then the run is started
\* or reserved; one that failed on the way is not admitted again.
Admit(f, n) ==
  LET d == <<f, n>> IN
  /\ Routed(f, n) /\ CheckActive(n) /\ approved[d] = Control(n)
  /\ deliveries[d].intent = "none"
  /\ approved' = [approved EXCEPT ![d] = None]
  /\ \/ Intent(d, "done") /\ Receiver!Hold(d) /\ UNCHANGED failures
     \/ (Intent(d, "torn") \/ Intent(d, "done")) /\ Fails /\ UNCHANGED <<round, custody>>
  /\ UNCHANGED <<facts, offer, generation, job>>

\* The run ends, and is settled, by the receiver's own operations.
Settle(d) ==
  /\ Receiver!Settle(d)
  /\ UNCHANGED <<facts, offer, approved, deliveries, generation, job, failures>>

Turns(d, part, state) == job' = [job EXCEPT ![d][part] = state]

\* The intent and the acceptance of the job, then the record that binds it to the
\* instance: what an acceptance that failed has left refuses the next.
Accept(d) ==
  /\ Readable(d) /\ job[d].accept = "no" /\ job[d].scratch = "kept"
  /\ \/ Receiver!Accept(d) /\ Turns(d, "accept", "job") /\ UNCHANGED failures
     \/ /\ custody[d] = "succeeded" /\ Fails /\ UNCHANGED <<round, custody>>
        /\ \E left \in {"intent", "torn", "job"} : Turns(d, "accept", left)
  /\ UNCHANGED <<facts, offer, approved, deliveries, generation>>

ReconcileAccept(d) ==
  /\ Readable(d) /\ job[d].accept = "job" /\ job[d].output # "going"
  /\ Receiver!Accept(d)
  /\ UNCHANGED <<facts, offer, approved, deliveries, generation, job, failures>>

Accepted(d) == job[d].accept \in {"torn", "job"}

\* Scratch is removed between the intent and the receipt: observers see it going,
\* and a host that fails or dies leaves it so.
ReclaimBegins(d) ==
  /\ \/ custody[d] = "failed"
     \/ custody[d] \in {"succeeded", "accepted"} /\ Accepted(d) /\ job[d].output # "going"
  /\ job[d].scratch = "kept" /\ Turns(d, "scratch", "going")
  /\ UNCHANGED <<facts, offer, approved, deliveries, round, custody, generation, failures>>

ReclaimEnds(d) ==
  /\ job[d].scratch = "going" /\ Turns(d, "scratch", "gone")
  /\ UNCHANGED <<facts, offer, approved, deliveries, round, custody, generation, failures>>

\* The accepted version is closed and then deleted, in two transactions.
OutputGoes(d) ==
  /\ Accepted(d)
  /\ \E step \in {<<"kept", "closed">>, <<"closed", "going">>, <<"going", "gone">>} :
       job[d].output = step[1] /\ Turns(d, "output", step[2])
  /\ UNCHANGED <<facts, offer, approved, deliveries, round, custody, generation, failures>>

\* A boundary, a resume as well, reads the evidence of every run again.
Transition ==
  /\ generation < MaxGeneration /\ generation' = generation + 1
  /\ \A d \in Delivery : Readable(d) /\ job[d].output # "going"
  /\ Receiver!Close \/ Receiver!Reopen
  /\ UNCHANGED <<facts, offer, approved, deliveries, job, failures>>

Unload ==
  /\ \A d \in Delivery : Readable(d)
  /\ Receiver!Unload
  /\ UNCHANGED <<facts, offer, approved, deliveries, generation, job, failures>>

Ack(d, written) == deliveries' = [deliveries EXCEPT ![d].ack = written]

\* The result event, then ack.json: a lost acknowledgement is written again from
\* the fact, also when the subscription has been revoked since.
Complete(f, n) ==
  LET d == <<f, n>> IN
  /\ Routed(f, n) /\ deliveries[d].intent = "done" /\ Verified(d)
  /\ deliveries[d].ack = "none"
  /\ ~Logged(<<"event", d>>) => n \notin revoked /\ job[d].output = "kept"
  /\ \/ log' = With(<<"event", d>>) /\ Ack(d, "done") /\ UNCHANGED failures
     \/ Fails /\ log' = With(<<"event", d>>) /\ (Ack(d, "torn") \/ UNCHANGED deliveries)
     \/ Fails /\ UNCHANGED <<log, deliveries>>
  /\ UNCHANGED <<routes, revoked, offer, approved, receiver>>

Next ==
  \/ \E e \in Event : Publish(e)
  \/ \E n \in Name : Revoke(n) \/ SubscriptionControl(n) \/ \E slot \in Slot : Subscribe(n, slot)
  \/ \E previous, next \in Name, slot \in Slot : PreviewReplace(previous, next, slot)
  \/ Replace
  \/ \E f \in Fact, n \in Name : PreviewDelivery(f, n) \/ Admit(f, n) \/ Complete(f, n)
  \/ \E d \in Delivery :
       Settle(d) \/ Accept(d) \/ ReconcileAccept(d) \/ ReclaimBegins(d) \/ ReclaimEnds(d) \/ OutputGoes(d)
  \/ Transition \/ Unload

Spec == Init /\ [][Next]_vars

----------------------------------------------------------------------------
(* Properties *)

Admitted(f, n) == deliveries[<<f, n>>].intent # "none"

\* A name, those it replaces and those that replace it, however far.
Lineage(n) ==
  {m \in Name : \A S \in SUBSET Name :
     /\ n \in S
     /\ \A s \in Name : Registered(s) /\ routes[s].replaces # None =>
          (s \in S <=> routes[s].replaces \in S)
     => m \in S}

\* Succession never gives an event a second attempt, and never brings to a receiver
\* what was published before its cutover: admission moves, history does not.
SuccessionNeverReplays ==
  \A n \in Name : Registered(n) =>
    /\ \A f \in Fact, m \in Lineage(n) \ {n} : ~(Admitted(f, n) /\ Admitted(f, m))
    /\ routes[n].replaces # None => \A f \in Fact : Admitted(f, n) =>
         \A i \in 1..routes[n].cutover : log[i] # <<"event", f>>

\* Every registered route stays readable: its record is where its cutover says,
\* behind its one predecessor, which it alone replaces.
RoutesStayValid ==
  \A n \in Name :
    Registered(n) /\ routes[n].replaces # None =>
      /\ log[routes[n].cutover + 1] = <<"route", n>>
      /\ \E i \in 1..routes[n].cutover : log[i] = <<"route", routes[n].replaces>>
      /\ RetiredBy(routes[n].replaces) = {n}

\* An acknowledged delivery left its result in the log, behind the fact that caused
\* it, and its run is accepted: consumption is more than an exit.
ConsumedIsCaused ==
  \A f \in Fact, n \in Name :
    deliveries[<<f, n>>].ack # "none" =>
      /\ custody[<<f, n>>] = "accepted" /\ deliveries[<<f, n>>].intent = "done"
      /\ \E i, j \in DOMAIN log : i < j /\ log[i] = <<"event", f>> /\ log[j] = <<"event", <<f, n>>>>

\* What every reader of the log and of the deliveries relies on.
EventsSafe == TypeOK /\ RoutesStayValid /\ ConsumedIsCaused

\* No attempt begins on an approval older than a pause, a revocation or a successor.
ApprovalsAreFresh ==
  [][\A f \in Fact, n \in Name :
       ~Admitted(f, n) /\ Admitted(f, n)' =>
         /\ approved[<<f, n>>] = Control(n) /\ ~Paused(n)
         /\ n \notin revoked /\ RetiredBy(n) = {} /\ round = "open"]_vars

\* How far a delivery has come, as its records say if nothing of it is going.
Proven(f, n) ==
  LET d == <<f, n>> IN
  CASE ~Admitted(f, n) -> IF CheckActive(n) THEN "awaiting-authorization" ELSE "blocked"
    [] Admitted(f, n) /\ deliveries[d].ack = "done" -> "consumed"
    [] Admitted(f, n) /\ deliveries[d].ack # "done" ->
         CASE custody[d] \in {"free", "held"} -> "running-or-unconfirmed"
           [] custody[d] \in {"void", "failed"} -> "settled-unsuccessful"
           [] custody[d] = "succeeded" ->
                IF Accepted(d) THEN "needs-reconciliation" ELSE "awaiting-acceptance"
           [] custody[d] = "accepted" -> "awaiting-confirmation"

\* What spool-events-pending shows: the evidence of the run, read again each time.
Phase(f, n) ==
  LET d == <<f, n>> IN
  CASE ~Admitted(f, n) -> Proven(f, n)
    [] Admitted(f, n) /\ ~Readable(d) -> "running-or-unconfirmed"
    [] Admitted(f, n) /\ Readable(d) ->
         IF custody[d] = "accepted" /\ ~Verified(d) THEN "needs-reconciliation" ELSE Proven(f, n)

Later(phase) ==
  CASE phase \in {"awaiting-authorization", "blocked"} ->
         {"awaiting-authorization", "blocked", "running-or-unconfirmed"}
    [] phase = "running-or-unconfirmed" -> {phase, "settled-unsuccessful", "awaiting-acceptance"}
    [] phase = "awaiting-acceptance" -> {phase, "needs-reconciliation", "awaiting-confirmation"}
    [] phase = "needs-reconciliation" -> {phase, "awaiting-confirmation"}
    [] phase = "awaiting-confirmation" -> {phase, "consumed"}
    [] phase \in {"settled-unsuccessful", "consumed"} -> {phase}

\* Observed twice, a delivery is seen to go back only by what is done to its own
\* scratch or output, under way or cut: not by a pause, a revocation, an unload, or
\* a write that fails or a host that is killed anywhere else.  What was proven of it
\* never goes back, and does not go on behind what is shown: nothing is accepted,
\* bound or acknowledged of a run whose evidence cannot be read (run::settled,
\* artifacts::verified), so that it is shown again when the collection ends.
PhasesOnlyAdvance ==
  [][\A f \in Fact, n \in Name : Routed(f, n) =>
       /\ Routed(f, n)' /\ Proven(f, n)' \in Later(Proven(f, n))
       /\ Phase(f, n)' \notin Later(Phase(f, n)) => job'[<<f, n>>] # job[<<f, n>>]
       /\ Phase(f, n) # Proven(f, n) => Proven(f, n)' = Proven(f, n)]_vars
=============================================================================

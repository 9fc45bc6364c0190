------------------------------ MODULE MCEvents ------------------------------
(* The event workspace, for TLC: its log and deliveries, or its dispatches and *)
(* cohorts.  To a dispatch a delivery is a run that is begun at most once.     *)
EXTENDS NativeEvents, Dispatch

CONSTANT MaxLog  \* records after which a run of the model is not followed

VARIABLE part  \* what is used

InLog == part = "log" /\ UNCHANGED <<part, dispatchVars>>
InDispatch == part = "dispatch" /\ UNCHANGED <<part, vars>>

EventsInit == part \in {"log", "dispatch"} /\ Init /\ DispatchInit

\* Next and DispatchNext, each action in its part.
EventsNext ==
  \/ \E e \in Event : InLog /\ Publish(e)
  \/ \E n \in Name : InLog /\ Revoke(n)
  \/ \E n \in Name : InLog /\ SubscriptionControl(n)
  \/ \E n \in Name, slot \in Slot : InLog /\ Subscribe(n, slot)
  \/ \E previous, next \in Name, slot \in Slot : InLog /\ PreviewReplace(previous, next, slot)
  \/ InLog /\ Replace
  \/ \E f \in Fact, n \in Name : InLog /\ PreviewDelivery(f, n)
  \/ \E f \in Fact, n \in Name : InLog /\ Admit(f, n)
  \/ \E f \in Fact, n \in Name : InLog /\ Complete(f, n)
  \/ \E d \in Delivery : InLog /\ Settle(d)
  \/ \E d \in Delivery : InLog /\ Accept(d)
  \/ \E d \in Delivery : InLog /\ ReconcileAccept(d)
  \/ \E d \in Delivery : InLog /\ ReclaimBegins(d)
  \/ \E d \in Delivery : InLog /\ ReclaimEnds(d)
  \/ \E d \in Delivery : InLog /\ OutputGoes(d)
  \/ InLog /\ Transition
  \/ InLog /\ Unload
  \/ \E d \in Batch, entries \in Selection, inCohort, detached \in BOOLEAN :
       InDispatch /\ Preview(d, entries, inCohort, detached)
  \/ \E d \in Batch : InDispatch /\ StartDispatch(d)
  \/ \E d \in Batch : InDispatch /\ Claim(d)
  \/ \E d \in Batch : InDispatch /\ AdmitDispatch(d)
  \/ \E d \in Batch : InDispatch /\ Select(d)
  \/ \E d \in Batch : InDispatch /\ Deliver(d)
  \/ \E d \in Batch : InDispatch /\ Return(d)
  \/ \E d \in Batch : InDispatch /\ RecordEntry(d)
  \/ \E d \in Batch : InDispatch /\ Summarise(d)
  \/ \E d \in Batch : InDispatch /\ ThreadResult(d)
  \/ \E d \in Batch : InDispatch /\ ReportCompletion(d)
  \/ \E d \in Batch : InDispatch /\ Observe(d)
  \/ \E d \in Batch : InDispatch /\ WorkerDies(d)
  \/ \E d \in Batch : InDispatch /\ ControlDispatch(d)
  \/ \E d \in Batch : InDispatch /\ Signal(d)
  \/ \E d \in Batch : InDispatch /\ ReconcileDispatch(d)
  \/ \E e \in Entry : InDispatch /\ DeliverAlone(e)
  \/ \E e \in Entry, end \in Ended : InDispatch /\ RunEnds(e, end)
  \/ \E mode \in Mode : InDispatch /\ Change(mode)

EventsSpec == EventsInit /\ [][EventsNext]_<<part, vars, dispatchVars>>

\* Only a cohort reads its controls: beside a dispatch of its own they stay.
Beside ==
  \A d \in Batch : plan[d] # Unset /\ ~plan[d].cohort => Len(controls) = 1 /\ ~pending

\* What is being collected, or was, counts like a record, and so does a failure.
Collected == {d \in Delivery : job[d].scratch # "kept"} \cup {<<d>> : d \in {x \in Delivery : job[x].output # "kept"}}
Bounded == Len(log) + Cardinality(Collected) + failures <= MaxLog /\ Beside

Symmetry ==
  Permutations(Fact) \cup Permutations(Name) \cup Permutations(Slot)
    \cup Permutations(Batch) \cup Permutations(Entry)
=============================================================================

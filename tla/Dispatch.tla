------------------------------ MODULE Dispatch ------------------------------
(***************************************************************************)
(* Finite dispatches of the event workspace and the cohorts that group     *)
(* them (native_spool/events: dispatch, dispatch_reconcile, cohorts,       *)
(* coordinator).  A dispatch is an approved list of deliveries; one worker *)
(* takes them in order, in the process of its client or, detached, in a    *)
(* process of its own that claims a single ticket.  Everything is decided  *)
(* from files that are created exclusively and never written again, and    *)
(* any process may be killed anywhere.                                     *)
(***************************************************************************)
EXTENDS Naturals, Sequences, FiniteSets, TLC

CONSTANTS
  Batch,       \* names of dispatches; in a cohort, of its threads
  Entry,       \* deliveries that may be selected
  Operator,    \* who delivers outside of any dispatch
  MaxEntries,  \* selected in one dispatch (16 in the code)
  MaxCohortControl,  \* control records of the cohort (128 in the code)
  MaxFaults,   \* killed processes and failing writes, a bound of the model
  Torn,        \* a file created and not written out
  Unset

VARIABLES
  controls,  \* controls/NNN.json of the cohort: the modes it went through
  pending,   \* control.pending was left behind
  plan,      \* dispatch -> what was last previewed, and approved once it is admitted
  thread,    \* dispatch -> threads/NAME of the cohort
  batch,     \* dispatch -> dispatches/NAME
  owner,     \* dispatch -> supervisor/ of a detached dispatch
  worker,    \* dispatch -> where its worker is, its flags and what it has in hand
  run,       \* delivery -> its run, and the records of the cohort when it began
  faults

dispatchVars == <<controls, pending, plan, thread, batch, owner, worker, run, faults>>
files == <<thread, batch, owner>>
cohort == <<controls, pending>>

Mode == {"open", "paused", "cancelled", "closed"}
Ended == {"succeeded", "failed", "timed_out", "cancelled", "prelaunch"}
\* "early": cancelled by its client before anything was reserved.
Outcome == Ended \cup {"early", "uncertain"}
Status == {"succeeded", "failed", "timed_out", "cancelled", "uncertain"}
Result == [status : Status,
           reason : {"completed", "stopped", "cancelled", "entry", "before-admission", "error"}]
File(S) == S \cup {Unset, Torn}

Selection ==
  {s \in UNION {[1..k -> Entry] : k \in 1..MaxEntries} :
     \A i, j \in DOMAIN s : s[i] = s[j] => i = j}

Plan == [cohort : BOOLEAN, detached : BOOLEAN, entries : Selection, control : Nat]
ThreadFiles == [intent : File({"written"}), result : File(Result)]
BatchFiles == [intent : File({"written"}), entries : Seq(Outcome), result : File(Result)]
OwnerFiles == [ticket : {Unset, "launch", "claimed"}, owner : BOOLEAN,
               stop : BOOLEAN, cancel : BOOLEAN, completion : File(Result)]
Worker == [at : {"none", "ticket", "admit", "entry", "deliver", "wait", "record",
                 "summary", "thread", "complete", "done", "dead"},
           stop : BOOLEAN, cancel : BOOLEAN, outcome : Outcome \cup {Unset}, result : Result \cup {Unset}]
RunRecord == [by : Batch \cup {Operator, Unset}, state : {"free", "held"} \cup Ended, control : Nat]

ASSUME WorkersAssumption == MaxEntries \in Nat /\ MaxFaults \in Nat
ASSUME MarkAssumption ==
  /\ Unset # Torn /\ Unset \notin Plan
  /\ {Unset, Torn} \cap (Result \cup Outcome \cup {"written", "launch", "claimed"}) = {}
ASSUME OperatorAssumption == Operator # Unset /\ {Operator, Unset} \cap Batch = {}

DispatchTypeOK ==
  /\ controls \in Seq(Mode) /\ pending \in BOOLEAN
  /\ plan \in [Batch -> Plan \cup {Unset}]
  /\ thread \in [Batch -> ThreadFiles] /\ batch \in [Batch -> BatchFiles]
  /\ owner \in [Batch -> OwnerFiles] /\ worker \in [Batch -> Worker]
  /\ run \in [Entry -> RunRecord]
  /\ faults \in 0..MaxFaults

DispatchInit ==
  /\ controls = <<"open">> /\ pending = FALSE
  /\ plan = [d \in Batch |-> Unset]
  /\ thread = [d \in Batch |-> [intent |-> Unset, result |-> Unset]]
  /\ batch = [d \in Batch |-> [intent |-> Unset, entries |-> <<>>, result |-> Unset]]
  /\ owner = [d \in Batch |-> [ticket |-> Unset, owner |-> FALSE, stop |-> FALSE, cancel |-> FALSE,
                               completion |-> Unset]]
  /\ worker = [d \in Batch |-> [at |-> "none", stop |-> FALSE, cancel |-> FALSE,
                                outcome |-> Unset, result |-> Unset]]
  /\ run = [e \in Entry |-> [by |-> Unset, state |-> "free", control |-> 0]]
  /\ faults = 0

----------------------------------------------------------------------------
(* What the files prove *)

CurrentMode == controls[Len(controls)]

Is(file) == file \notin {Unset, Torn}

Begun(d) == thread[d].intent # Unset \/ batch[d].intent # Unset

Free(entries) == \A i \in DOMAIN entries : run[entries[i]].by = Unset

\* The record of an entry repeats the settlement of the run it started.
SettledEntries(d) ==
  \A i \in DOMAIN batch[d].entries :
    LET r == run[plan[d].entries[i]] IN r.by = d /\ r.state = batch[d].entries[i]

\* The controller's last record, of the result its protocol wrote before.
Completion(d) ==
  /\ Is(owner[d].completion) /\ owner[d].owner
  /\ owner[d].completion = IF plan[d].cohort THEN thread[d].result ELSE batch[d].result

\* Mutant: the outcome is read off the last entry that was recorded.
InspectLast(d) ==
  LET recorded == batch[d].entries IN
  IF recorded = <<>> \/ recorded[Len(recorded)] \notin Status THEN "uncertain" ELSE recorded[Len(recorded)]

\* What spool-events-dispatch-show answers.
InspectDispatch(d) ==
  IF /\ batch[d].intent = "written" /\ Is(batch[d].result)
     /\ plan[d].detached /\ ~plan[d].cohort => Completion(d) /\ SettledEntries(d)
  THEN batch[d].result.status ELSE "uncertain"

Settled(d) ==
  /\ thread[d].intent = "written"
  /\ plan[d].detached => Completion(d)
  /\ IF batch[d].intent = Unset
     THEN Is(thread[d].result) /\ thread[d].result.reason = "before-admission"
     ELSE /\ Is(thread[d].result) /\ thread[d].result = batch[d].result
          /\ InspectDispatch(d) # "uncertain" /\ SettledEntries(d)

----------------------------------------------------------------------------
(* The worker *)

Alive(d) == worker[d].at \notin {"none", "done", "dead"}
Detached(d) == plan[d].detached
InCohort(d) == plan[d].cohort

WriteFails == faults < MaxFaults /\ faults' = faults + 1

GoesOn(d, at) == worker' = [worker EXCEPT ![d].at = at]
Decides(d, at, result) == worker' = [worker EXCEPT ![d].at = at, ![d].result = result]

\* Where the result of a dispatch is reported to, in turn.
Above(d) == IF InCohort(d) THEN "thread" ELSE IF Detached(d) THEN "complete" ELSE "done"

Error == [status |-> "uncertain", reason |-> "error"]

CancelRequested(d) ==
  \/ worker[d].cancel
  \/ Detached(d) /\ owner[d].cancel
  \/ InCohort(d) /\ CurrentMode = "cancelled"

\* Mutant: the worker looks at the mode alone and misses a pause that was lifted.
StopByMode(d) ==
  \/ worker[d].stop
  \/ Detached(d) /\ owner[d].stop
  \/ InCohort(d) /\ CurrentMode # "open"

StopRequested(d) ==
  \/ worker[d].stop
  \/ Detached(d) /\ owner[d].stop
  \/ InCohort(d) /\ Len(controls) # plan[d].control

\* An approval binds the selection, in this order, and the control of the cohort.
Preview(d, entries, inCohort, detached) ==
  /\ ~Begun(d) /\ Free(entries)
  /\ inCohort => CurrentMode = "open"
  /\ plan' = [plan EXCEPT ![d] =
       [cohort |-> inCohort, detached |-> detached, entries |-> entries, control |-> Len(controls)]]
  /\ UNCHANGED <<cohort, files, worker, run, faults>>

WriteIntent(d, written) ==
  IF InCohort(d)
  THEN thread' = [thread EXCEPT ![d].intent = written] /\ UNCHANGED batch
  ELSE batch' = [batch EXCEPT ![d].intent = written] /\ UNCHANGED thread

Ticket(d) == owner' = [owner EXCEPT ![d].ticket = "launch"]

Begin(d) ==
  \/ Detached(d) /\ WriteIntent(d, "written") /\ Ticket(d) /\ GoesOn(d, "ticket") /\ UNCHANGED faults
  \/ Detached(d) /\ WriteIntent(d, "written") /\ (Ticket(d) \/ UNCHANGED owner) /\ WriteFails /\ UNCHANGED worker
  \/ ~Detached(d) /\ WriteIntent(d, "written") /\ GoesOn(d, IF InCohort(d) THEN "admit" ELSE "entry")
     /\ UNCHANGED <<owner, faults>>
  \/ WriteIntent(d, Torn) /\ WriteFails /\ UNCHANGED <<owner, worker>>

Approved(d) == plan[d] # Unset /\ ~Begun(d) /\ Free(plan[d].entries)

\* The intent is durable before anything runs, in a directory made exclusively.
StartDispatch(d) ==
  /\ Approved(d)
  /\ InCohort(d) => CurrentMode = "open" /\ plan[d].control = Len(controls)
  /\ Begin(d)
  /\ UNCHANGED <<cohort, plan, run>>

\* Renaming the one ticket admits one worker, which then says who it is.
Claim(d) ==
  /\ worker[d].at = "ticket"
  /\ \/ /\ owner' = [owner EXCEPT ![d].ticket = "claimed", ![d].owner = TRUE]
        /\ worker' = [worker EXCEPT ![d].at = IF InCohort(d) THEN "admit" ELSE "entry",
                                    ![d].stop = StopRequested(d), ![d].cancel = CancelRequested(d)]
        /\ UNCHANGED faults
     \/ owner' = [owner EXCEPT ![d].ticket = "claimed"] /\ GoesOn(d, "dead") /\ WriteFails
  /\ UNCHANGED <<cohort, plan, thread, batch, run>>

\* Every 25 ms another thread of the worker looks at the controls.
Observe(d) ==
  /\ worker[d].at \in {"admit", "entry", "deliver", "wait", "record", "summary"}
  /\ InCohort(d) \/ Detached(d)
  /\ worker' = [worker EXCEPT ![d].stop = StopRequested(d), ![d].cancel = CancelRequested(d)]
  /\ UNCHANGED <<cohort, plan, files, run, faults>>

\* The dispatch of a thread: its selection is previewed again, then admitted.
AdmitDispatch(d) ==
  LET w == worker[d] IN
  /\ w.at = "admit"
  /\ \/ ~Free(plan[d].entries) /\ Decides(d, "thread", Error) /\ UNCHANGED <<batch, faults>>
     \/ /\ Free(plan[d].entries) /\ (w.stop \/ w.cancel)
        /\ Decides(d, "thread", [status |-> IF w.cancel THEN "cancelled" ELSE "succeeded",
                                 reason |-> "before-admission"])
        /\ UNCHANGED <<batch, faults>>
     \/ /\ Free(plan[d].entries) /\ ~w.stop /\ ~w.cancel
        /\ \/ batch' = [batch EXCEPT ![d].intent = "written"] /\ GoesOn(d, "entry") /\ UNCHANGED faults
           \/ batch' = [batch EXCEPT ![d].intent = Torn] /\ Decides(d, "thread", Error) /\ WriteFails
  /\ UNCHANGED <<cohort, plan, thread, owner, run>>

Next1(d) == Len(batch[d].entries) + 1

\* The controls are read before each entry: a stop lets the current one finish.
Select(d) ==
  /\ worker[d].at = "entry"
  /\ \/ /\ Next1(d) > Len(plan[d].entries)
        /\ Decides(d, "summary", [status |-> "succeeded", reason |-> "completed"])
     \/ /\ Next1(d) <= Len(plan[d].entries) /\ CancelRequested(d)
        /\ Decides(d, "summary", [status |-> "cancelled", reason |-> "cancelled"])
     \/ /\ Next1(d) <= Len(plan[d].entries) /\ StopRequested(d) /\ ~CancelRequested(d)
        /\ Decides(d, "summary", [status |-> "succeeded", reason |-> "stopped"])
     \/ /\ Next1(d) <= Len(plan[d].entries) /\ ~StopRequested(d) /\ ~CancelRequested(d)
        /\ GoesOn(d, "deliver")
  /\ UNCHANGED <<cohort, plan, files, run, faults>>

Returns(d, outcome) == worker' = [worker EXCEPT ![d].at = "record", ![d].outcome = outcome]

\* The delivery may be refused, or find that it was admitted before.
Deliver(d) ==
  LET e == plan[d].entries[Next1(d)] IN
  /\ worker[d].at = "deliver"
  /\ \/ /\ run[e].by = Unset /\ ~worker[d].cancel
        /\ run' = [run EXCEPT ![e] = [by |-> d, state |-> "held", control |-> Len(controls)]]
        /\ GoesOn(d, "wait")
     \/ run[e].by = Unset /\ worker[d].cancel /\ Returns(d, "early") /\ UNCHANGED run
     \/ Returns(d, "uncertain") /\ UNCHANGED run
  /\ UNCHANGED <<cohort, plan, files, faults>>

\* A run is bounded by its deadline.  Detached, it has a supervisor of its own, which
\* outlives the worker and sees the cancellations of its parents.
RunEnds(e, end) ==
  LET d == run[e].by IN
  /\ d \in Batch /\ run[e].state = "held"
  /\ end \in {"cancelled", "prelaunch"} => CancelRequested(d)
  /\ end = "prelaunch" => Detached(d)
  /\ ~Detached(d) => worker[d].at = "wait"
  /\ run' = [run EXCEPT ![e].state = end]
  /\ UNCHANGED <<cohort, plan, files, worker, faults>>

\* "uncertain": the end was not confirmed in time.
Return(d) ==
  LET state == run[plan[d].entries[Next1(d)]].state IN
  /\ worker[d].at = "wait"
  /\ IF state = "held" THEN Returns(d, "uncertain") ELSE Returns(d, state)
  /\ UNCHANGED <<cohort, plan, files, run, faults>>

StatusOf(d, outcome) ==
  CASE outcome \in {"cancelled", "prelaunch", "early"} -> "cancelled"
    [] outcome \in {"failed", "timed_out"} /\ Detached(d) -> outcome
    [] OTHER -> "uncertain"

\* Mutant: an outcome that is not known does not stop the batch.
RecordAny(d) ==
  LET outcome == worker[d].outcome IN
  /\ worker[d].at = "record"
  /\ batch' = [batch EXCEPT ![d].entries = Append(@, outcome)]
  /\ IF outcome \in {"succeeded", "uncertain"} THEN GoesOn(d, "entry")
     ELSE Decides(d, "summary", [status |-> StatusOf(d, outcome), reason |-> "entry"])
  /\ UNCHANGED <<cohort, plan, thread, owner, run, faults>>

\* Only a success with a confirmed end lets the next entry be selected.
RecordEntry(d) ==
  LET outcome == worker[d].outcome IN
  /\ worker[d].at = "record"
  /\ \/ /\ batch' = [batch EXCEPT ![d].entries = Append(@, outcome)]
        /\ IF outcome = "succeeded" THEN GoesOn(d, "entry")
           ELSE Decides(d, "summary", [status |-> StatusOf(d, outcome), reason |-> "entry"])
        /\ UNCHANGED faults
     \/ Decides(d, Above(d), Error) /\ WriteFails /\ UNCHANGED batch
  /\ UNCHANGED <<cohort, plan, thread, owner, run>>

\* result.json is made once; a reconciliation may have been faster.
Summarise(d) ==
  /\ worker[d].at = "summary"
  /\ \/ /\ batch[d].result = Unset
        /\ batch' = [batch EXCEPT ![d].result = worker[d].result]
        /\ GoesOn(d, Above(d)) /\ UNCHANGED faults
     \/ batch[d].result # Unset /\ Decides(d, Above(d), Error) /\ UNCHANGED <<batch, faults>>
     \/ /\ batch[d].result = Unset
        /\ batch' = [batch EXCEPT ![d].result = Torn] /\ Decides(d, Above(d), Error) /\ WriteFails
  /\ UNCHANGED <<cohort, plan, thread, owner, run>>

ThreadResult(d) ==
  LET at == IF Detached(d) THEN "complete" ELSE "done" IN
  /\ worker[d].at = "thread"
  /\ \/ thread' = [thread EXCEPT ![d].result = worker[d].result] /\ GoesOn(d, at) /\ UNCHANGED faults
     \/ thread' = [thread EXCEPT ![d].result = Torn] /\ Decides(d, at, Error) /\ WriteFails
  /\ UNCHANGED <<cohort, plan, batch, owner, run>>

ReportCompletion(d) ==
  /\ worker[d].at = "complete" /\ GoesOn(d, "done")
  /\ \/ owner' = [owner EXCEPT ![d].completion = worker[d].result] /\ UNCHANGED faults
     \/ owner' = [owner EXCEPT ![d].completion = Torn] /\ WriteFails
  /\ UNCHANGED <<cohort, plan, thread, batch, run>>

WorkerDies(d) ==
  /\ Alive(d) /\ GoesOn(d, "dead") /\ WriteFails
  /\ UNCHANGED <<cohort, plan, files, run>>

----------------------------------------------------------------------------
(* What others do *)

\* A delivery of its own takes the event and the subscription for good.
DeliverAlone(e) ==
  /\ run[e].by = Unset
  /\ run' = [run EXCEPT ![e] = [@ EXCEPT !.by = Operator, !.state = "held"]]
  /\ UNCHANGED <<cohort, plan, files, worker, faults>>

\* Stop or cancel of a detached dispatch, by whoever has its name.
ControlDispatch(d) ==
  /\ owner[d].ticket # Unset
  /\ owner' = [owner EXCEPT ![d].stop = TRUE] \/ owner' = [owner EXCEPT ![d].cancel = TRUE]
  /\ owner' # owner
  /\ UNCHANGED <<cohort, plan, thread, batch, worker, run, faults>>

\* SIGTERM and SIGINT, in the process of the client; a cohort knows only the second.
Signal(d) ==
  /\ Alive(d) /\ ~Detached(d)
  /\ \/ worker' = [worker EXCEPT ![d].cancel = TRUE]
     \/ ~InCohort(d) /\ worker' = [worker EXCEPT ![d].stop = TRUE]
  /\ worker' # worker
  /\ UNCHANGED <<cohort, plan, files, run, faults>>

\* Under the lock of the cohort, staged and renamed: a staging that failed stays.
Change(mode) ==
  /\ CurrentMode # "closed" /\ (CurrentMode = "cancelled" => mode = "closed")
  /\ Len(controls) < MaxCohortControl /\ ~pending
  /\ mode = "closed" =>
       \A d \in Batch : plan[d] # Unset /\ plan[d].cohort /\ thread[d].intent # Unset => Settled(d)
  /\ \/ controls' = Append(controls, mode) /\ UNCHANGED <<pending, faults>>
     \/ pending' = TRUE /\ WriteFails /\ UNCHANGED controls
  /\ UNCHANGED <<plan, files, worker, run>>

\* The missing summary of a batch that is proved to have completed.
ReconcileDispatch(d) ==
  /\ batch[d].intent = "written" /\ batch[d].result = Unset
  /\ Len(batch[d].entries) = Len(plan[d].entries)
  /\ \A i \in DOMAIN batch[d].entries : batch[d].entries[i] = "succeeded"
  /\ SettledEntries(d)
  /\ \/ /\ batch' = [batch EXCEPT ![d].result = [status |-> "succeeded", reason |-> "completed"]]
        /\ UNCHANGED faults
     \/ batch' = [batch EXCEPT ![d].result = Torn] /\ WriteFails
  /\ UNCHANGED <<cohort, plan, thread, owner, worker, run>>

Work(d) ==
  Claim(d) \/ AdmitDispatch(d) \/ Select(d) \/ Deliver(d) \/ Return(d) \/ RecordEntry(d)
  \/ Summarise(d) \/ ThreadResult(d) \/ ReportCompletion(d)

DispatchNext ==
  \/ \E d \in Batch : \E entries \in Selection, inCohort, detached \in BOOLEAN :
       Preview(d, entries, inCohort, detached)
  \/ \E d \in Batch :
       StartDispatch(d) \/ Work(d) \/ Observe(d) \/ WorkerDies(d) \/ ControlDispatch(d) \/ Signal(d) \/ ReconcileDispatch(d)
  \/ \E e \in Entry : DeliverAlone(e) \/ \E end \in Ended : RunEnds(e, end)
  \/ \E mode \in Mode : Change(mode)

DispatchSpec == DispatchInit /\ [][DispatchNext]_dispatchVars

----------------------------------------------------------------------------
(* Properties *)

\* An entry is started only behind the recorded successes of those before it, each by
\* the same dispatch: not after a crash, a reconciliation or a lost record either.
EntriesInOrder ==
  \A d \in Batch : Begun(d) =>
    \A i \in DOMAIN plan[d].entries : run[plan[d].entries[i]].by = d =>
      /\ Len(batch[d].entries) >= i - 1
      /\ \A j \in 1..(i - 1) :
           batch[d].entries[j] = "succeeded" /\ run[plan[d].entries[j]] = [run[plan[d].entries[j]] EXCEPT
             !.by = d, !.state = "succeeded"]

\* A cohort is closed over nothing that runs or may still run.
ClosedIsQuiet ==
  CurrentMode = "closed" =>
    \A d \in Batch : plan[d] # Unset /\ plan[d].cohort =>
      ~Alive(d) /\ \A e \in Entry : run[e].by = d => run[e].state \in Ended

\* Once the cohort was paused, cancelled or reopened, a thread starts one more entry at
\* most: the one that was crossing.
DrainsAfterChange ==
  \A d \in Batch : plan[d] # Unset /\ plan[d].cohort =>
    Cardinality({e \in Entry : run[e].by = d /\ run[e].control > plan[d].control}) <= 1

\* What is shown of a dispatch as settled is what its runs proved.
OutcomeIsProved ==
  \A d \in Batch :
    Begun(d) /\ InspectDispatch(d) # "uncertain" /\ batch[d].result.reason \in {"completed", "entry"} =>
      \A i \in DOMAIN batch[d].entries :
        batch[d].entries[i] \in Ended =>
          run[plan[d].entries[i]].by = d /\ run[plan[d].entries[i]].state = batch[d].entries[i]

\* What a client may conclude from the files of a dispatch and of its cohort.
DispatchSafe == DispatchTypeOK /\ ClosedIsQuiet /\ DrainsAfterChange /\ OutcomeIsProved

\* An outcome that was shown once is shown ever after.
OutcomeIsFinal ==
  [][\A d \in Batch :
       batch[d].intent # Unset /\ InspectDispatch(d) # "uncertain" => InspectDispatch(d)' = InspectDispatch(d)]_dispatchVars
=============================================================================

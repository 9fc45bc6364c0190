----------------------------- MODULE SpoolRuns -----------------------------
(***************************************************************************)
(* The runs of one instance of a native spool (native_spool and            *)
(* workspace_job of an-agent-host): started by a command or by a separate  *)
(* supervisor process, their custody, the rounds that close over them, the *)
(* kit they read and the state they commit.  Everything is a file of the   *)
(* instance; host.lock is created by an operation and removed at its end,  *)
(* and a killed host leaves it behind.                                     *)
(*                                                                         *)
(* An operation is previewed, and approved by the hash of what the preview *)
(* showed: a plan is here the approval of itself.  Operations that hold    *)
(* the lock are one step, which may fail or be killed between two writes;  *)
(* the start of a run, which lasts, is a step for each of its writes.      *)
(***************************************************************************)
EXTENDS Naturals, Sequences, FiniteSets

CONSTANTS
  Run,            \* names of runs
  Routed,         \* those that carry an event, always supervised
  Kit,            \* contents of the editable working copies
  MaxGeneration,  \* transitions of a round, a bound of the model
  MaxFailures,    \* failing writes and killed hosts, a bound of the model
  Torn,           \* a file created and not written out
  None

ASSUME RunAssumption == IsFiniteSet(Run) /\ Routed \subseteq Run
ASSUME BoundsAssumption == MaxGeneration \in Nat /\ MaxFailures \in Nat

VARIABLES
  lock,       \* host.lock: "free", "held", or "stale" after its host died
  control,    \* round-control.json: generation, mode and pinned snapshot
  journal,    \* round-control/: generation -> the head prepared for it
  unloaded,   \* unloaded.json
  kit,        \* the working copies
  history,    \* the runs whose output became the state, oldest first
  runs,       \* the files of each run
  host,       \* run -> where the process that owns its attempt is
  answer,     \* run -> what a supervisor is about to report
  group,      \* run -> its process group
  failures

instance == <<control, journal, unloaded, kit, history>>
processes == <<host, answer, group>>
vars == <<lock, instance, runs, processes, failures>>

\* A position in the history: 0 is the seed of the state.
Revision == 0..Cardinality(Run)
Plan == [kit : Kit, from : Revision \cup {None}, generation : 0..MaxGeneration]

\* Receipts: "unstarted" proves no process began, "unconfirmed" proves nothing.
Confirmed == {"succeeded", "failed", "unstarted"}
Receipt == Confirmed \cup {"unconfirmed"}
Answer == Receipt \cup {"cancelled", "unlaunched", "error"}
Custody == {"no", "intent", "job", "bound"}

Files ==
  [preview : Plan \cup {None},             \* profile.json and the plan last shown
   request : Plan \cup {None, Torn},     \* supervisor/request.json
   cancel : BOOLEAN,                       \* supervisor/cancel.json
   owner : {"none", Torn, "claimed"},    \* supervisor/owner.json
   completion : Answer \cup {None, Torn},
   reached : {"none", "claims", "start", "job", "launch"},
   start : Plan \cup {None},               \* start.json
   receipt : Receipt \cup {None},          \* job/attempts/ID/receipt.json
   result : Receipt \cup {"unlaunched", Torn, None},
   accepted : Custody,
   reclaimed : Custody]

\* What marks a file as absent or cut short is no contents of one.
ASSUME MarkAssumption ==
  None # Torn /\ {None, Torn} \cap (Plan \cup Answer \cup {"none", "claimed"}) = {}

Mode == {"active", "paused", "suspended"}
Snapshot == [kit : Kit, state : Revision, runs : [Run -> Confirmed \cup {"cancelled", None}]]
ControlHead == [generation : 0..MaxGeneration, mode : Mode, snapshot : Snapshot \cup {None}]

\* The files hold what the writers of each can leave: typed, or torn where named.
TypeOK ==
  /\ lock \in {"free", "held", "stale"}
  /\ control \in ControlHead
  /\ journal \in [1..MaxGeneration -> ControlHead \cup {None}]
  /\ unloaded \in BOOLEAN
  /\ kit \in Kit
  /\ history \in Seq(Run) /\ Len(history) \in Revision
  /\ runs \in [Run -> Files]
  /\ host \in [Run -> {"idle", "claimed", "polled", "starting", "answering"}]
  /\ answer \in [Run -> Answer \cup {None}]
  /\ group \in [Run -> {"none", "running", "orphan", "gone"}]
  /\ failures \in 0..MaxFailures

NoFiles ==
  [preview |-> None, request |-> None, cancel |-> FALSE, owner |-> "none",
   completion |-> None, reached |-> "none", start |-> None, receipt |-> None,
   result |-> None, accepted |-> "no", reclaimed |-> "no"]

Init ==
  /\ lock = "free"
  /\ control = [generation |-> 0, mode |-> "active", snapshot |-> None]
  /\ journal = [g \in 1..MaxGeneration |-> None]
  /\ unloaded = FALSE
  /\ kit \in Kit
  /\ history = <<>>
  /\ runs = [n \in Run |-> NoFiles]
  /\ host = [n \in Run |-> "idle"]
  /\ answer = [n \in Run |-> None]
  /\ group = [n \in Run |-> "none"]
  /\ failures = 0

----------------------------------------------------------------------------
(* What the files prove *)

Free == lock = "free"
Loaded == ~unloaded
Active == Loaded /\ control.mode = "active"

Reserved(n) == runs[n].request # None
HasJob(n) == runs[n].reached \in {"job", "launch"}
FromArtifacts(n) == n \in Routed \/ runs[n].preview.from # None

\* The records of a start are created once: one that left any is the last.
Unstarted(n) == runs[n].reached = "none"

PlanNow(from) == [kit |-> kit, from |-> from, generation |-> control.generation]

\* A routed run needs its supervisor's own completion as well.
VerifySettled(n, result) ==
  n \in Routed => runs[n].owner = "claimed" /\ runs[n].completion = result

Settled(n) ==
  /\ runs[n].result \in Confirmed
  /\ runs[n].result = runs[n].receipt
  /\ runs[n].reclaimed # "intent"
  /\ VerifySettled(n, runs[n].result)

SettledPrelaunch(n) ==
  /\ runs[n].request \in Plan
  /\ runs[n].owner = "claimed"
  /\ runs[n].completion = "cancelled"
  /\ runs[n].reached = "none"

\* Mutant: start.json alone is no evidence of anything.
SettledJob(n) ==
  CASE HasJob(n) -> Settled(n)
    [] ~HasJob(n) /\ Reserved(n) -> SettledPrelaunch(n)
    [] ~HasJob(n) /\ ~Reserved(n) -> TRUE

\* A round boundary requires this of every run.
SettledRun(n) ==
  CASE HasJob(n) -> Settled(n)
    [] ~HasJob(n) /\ Reserved(n) -> SettledPrelaunch(n)
    [] ~HasJob(n) /\ ~Reserved(n) -> runs[n].reached # "start"

Evidence(n) ==
  CASE HasJob(n) -> runs[n].result
    [] ~HasJob(n) /\ Reserved(n) -> "cancelled"
    [] ~HasJob(n) /\ ~Reserved(n) -> None

SnapshotNow == [kit |-> kit, state |-> Len(history), runs |-> [n \in Run |-> Evidence(n)]]

\* What a boundary asks of a run: an end, and of a success its accepted output.
CanClose(n) == SettledRun(n) /\ (Evidence(n) = "succeeded" => runs[n].accepted = "bound")

CanSnapshot == \A n \in Run : CanClose(n)

----------------------------------------------------------------------------
(* Failing writes and killed hosts *)

Fails == failures < MaxFailures /\ failures' = failures + 1

\* A locked operation does all of its writes, or fails or dies before one.
Completes == UNCHANGED <<lock, failures>>
Breaks == Fails /\ lock' \in {"free", "stale"}

Put(n, field, value) == runs' = [runs EXCEPT ![n][field] = value]

HostDies ==
  /\ Free /\ Fails /\ lock' = "stale"
  /\ UNCHANGED <<instance, runs, processes>>

\* The operator inspects, then removes, the lock of a host that is no more.
RemoveStaleLock ==
  /\ lock = "stale" /\ lock' = "free"
  /\ UNCHANGED <<instance, runs, processes, failures>>

----------------------------------------------------------------------------
(* Previews, reservations and supervisors *)

\* The name keeps the input of its first preview; the plan shown is of now.  One
\* of a name that was started already can no more be executed.
Preview(n, from) ==
  /\ Free /\ Active /\ ~Reserved(n) /\ runs[n].reached \in {"none", "claims"}
  /\ from \in 0..Len(history) \cup {None}
  /\ runs[n].preview # None => runs[n].preview.from = from
  /\ Put(n, "preview", PlanNow(from))
  /\ UNCHANGED <<lock, instance, processes, failures>>

\* prepare previews, lets go of the lock and takes it again; a routed start is
\* previewed and reserved under one lock.  The directory is made first.
Reserve(n) ==
  LET plan == runs[n].preview IN
  /\ Free /\ Active /\ ~Reserved(n) /\ plan # None
  /\ n \in Routed => plan = PlanNow(plan.from)
  /\ plan.generation = control.generation
  /\ runs[n].reached \in {"none", "claims"}
  /\ \/ Put(n, "request", plan) /\ Completes
     \/ Put(n, "request", Torn) /\ Breaks
  /\ UNCHANGED <<instance, processes>>

\* Without the lock of the instance, for any request.  Once the worker has polled
\* it is one of the reasons a worker, a launch or a process has to stop.
CancelSupervised(n) ==
  /\ runs[n].request \in Plan /\ ~runs[n].cancel
  /\ runs[n].owner = "none" \/ host[n] = "claimed"
  /\ Put(n, "cancel", TRUE)
  /\ UNCHANGED <<lock, instance, processes, failures>>

Goes(n, phase) == host' = [host EXCEPT ![n] = phase]

\* owner.json is created exclusively: one worker ever, started by anyone.
Claim(n) ==
  /\ runs[n].request \in Plan /\ runs[n].owner = "none"
  /\ \/ /\ Put(n, "owner", "claimed") /\ Goes(n, "claimed")
        /\ UNCHANGED failures
     \/ Put(n, "owner", Torn) /\ Fails /\ UNCHANGED host
  /\ UNCHANGED <<lock, instance, answer, group>>

Reports(n, what) == Goes(n, "answering") /\ answer' = [answer EXCEPT ![n] = what]

\* cancel.json is polled once before the body of the worker, and then beside it.
Poll(n) ==
  /\ host[n] = "claimed"
  /\ IF runs[n].cancel THEN Reports(n, "cancelled") ELSE Goes(n, "polled") /\ UNCHANGED answer
  /\ UNCHANGED <<lock, instance, runs, group, failures>>

\* A later cancel.json, a signal or the cancelled parent, before start.json.
WorkerCancelled(n) ==
  /\ host[n] = "polled"
  /\ Reports(n, "cancelled")
  /\ UNCHANGED <<lock, instance, runs, group, failures>>

\* Mutant: the worker starts what is there, whatever was approved.
WorkerStartsAny(n) ==
  /\ host[n] = "polled"
  /\ IF Free /\ Active /\ Unstarted(n)
     THEN Goes(n, "starting") /\ lock' = "held" /\ UNCHANGED answer
     ELSE Reports(n, "error") /\ UNCHANGED lock
  /\ UNCHANGED <<instance, runs, group, failures>>

\* The lock is tried once; whatever refuses the start is reported as an error.
WorkerStarts(n) ==
  LET plan == runs[n].request IN
  /\ host[n] = "polled"
  /\ IF Free /\ Active /\ Unstarted(n) /\ plan = PlanNow(plan.from)
     THEN Goes(n, "starting") /\ lock' = "held" /\ UNCHANGED answer
     ELSE Reports(n, "error") /\ UNCHANGED lock
  /\ UNCHANGED <<instance, runs, group, failures>>

Completion(n) ==
  /\ host[n] = "answering"
  /\ Goes(n, "idle") /\ answer' = [answer EXCEPT ![n] = None]
  /\ \/ Put(n, "completion", answer[n]) /\ UNCHANGED failures
     \/ Put(n, "completion", Torn) /\ Fails
  /\ UNCHANGED <<lock, instance, group>>

WorkerDies(n) ==
  /\ host[n] \in {"claimed", "polled", "answering"} /\ Fails
  /\ Goes(n, "idle") /\ answer' = [answer EXCEPT ![n] = None]
  /\ UNCHANGED <<lock, instance, runs, group>>

----------------------------------------------------------------------------
(* The attempt, under the lock from its admission to its result *)

StartDirect(n) ==
  /\ Free /\ Active /\ n \notin Routed /\ ~Reserved(n) /\ runs[n].preview # None
  /\ Unstarted(n) /\ runs[n].preview = PlanNow(runs[n].preview.from)
  /\ lock' = "held" /\ Goes(n, "starting")
  /\ UNCHANGED <<instance, runs, answer, group, failures>>

Starting(n) == host[n] = "starting" /\ UNCHANGED instance

\* The lock is given back; a supervisor goes on to report.
EndStart(n, what) ==
  /\ lock' = "free"
  /\ IF Reserved(n) THEN Reports(n, what) ELSE Goes(n, "idle") /\ UNCHANGED answer

Reach(n, from, to) ==
  /\ Starting(n) /\ runs[n].reached = from
  /\ UNCHANGED <<lock, host, answer, group, failures>>
  /\ Put(n, "reached", to)

Acquire(n) == Starting(n) /\ FromArtifacts(n) /\ Reach(n, "none", "claims")

WriteStart(n) ==
  /\ Starting(n) /\ runs[n].reached = IF FromArtifacts(n) THEN "claims" ELSE "none"
  /\ runs' = [runs EXCEPT ![n].reached = "start", ![n].start = PlanNow(runs[n].preview.from)]
  /\ UNCHANGED <<lock, host, answer, group, failures>>

\* run_inner looks at the cancellation once more, before it makes the job.
CancelGap(n) ==
  /\ Starting(n) /\ runs[n].reached = "start"
  /\ Put(n, "result", "unlaunched")
  /\ EndStart(n, "unlaunched")
  /\ UNCHANGED <<group, failures>>

MakeJob(n) == Reach(n, "start", "job")
Fence(n) == runs[n].receipt = None /\ Reach(n, "job", "launch")

Receive(n, receipt) == Put(n, "receipt", receipt) /\ UNCHANGED <<lock, host, answer, failures>>

\* A failing or cancelled preparation, or a cancellation before the spawn.
NotStarted(n) ==
  /\ Starting(n) /\ HasJob(n) /\ runs[n].receipt = None /\ group[n] = "none"
  /\ Receive(n, "unstarted")
  /\ UNCHANGED group

Launchable(n) ==
  Starting(n) /\ runs[n].reached = "launch" /\ runs[n].receipt = None /\ group[n] = "none"

Refused(n) == Launchable(n) /\ Receive(n, "unconfirmed") /\ UNCHANGED group

Launch(n) ==
  /\ Launchable(n)
  /\ group' = [group EXCEPT ![n] = "running"]
  /\ UNCHANGED <<lock, runs, host, answer, failures>>

\* The leader is reaped; the group may not be seen empty in time.
Reap(n) ==
  /\ Starting(n) /\ group[n] = "running"
  /\ \/ /\ group' = [group EXCEPT ![n] = "gone"]
        /\ \E receipt \in {"succeeded", "failed", "unconfirmed"} : Receive(n, receipt)
     \/ group' = [group EXCEPT ![n] = "orphan"] /\ Receive(n, "unconfirmed")

Record(n) ==
  /\ Starting(n) /\ runs[n].receipt # None
  /\ Put(n, "result", runs[n].receipt)
  /\ EndStart(n, runs[n].receipt)
  /\ UNCHANGED <<group, failures>>

\* A write fails; after result.json it can still be the peer's record of it.
StartFails(n) ==
  /\ Starting(n) /\ group[n] # "running" /\ Fails
  /\ \/ UNCHANGED runs
     \/ runs[n].receipt # None /\ Put(n, "result", Torn)
     \/ runs[n].receipt # None /\ n \in Routed /\ Put(n, "result", runs[n].receipt)
  /\ EndStart(n, "error")
  /\ UNCHANGED group

\* The host is killed: its lock stays, and so may the process group.
StartDies(n) ==
  /\ Starting(n) /\ Fails
  /\ lock' = "stale" /\ Goes(n, "idle")
  /\ group' = [group EXCEPT ![n] = IF @ = "running" THEN "orphan" ELSE @]
  /\ UNCHANGED <<runs, answer>>

OrphanEnds(n) ==
  /\ group[n] = "orphan"
  /\ group' = [group EXCEPT ![n] = "gone"]
  /\ UNCHANGED <<lock, instance, runs, host, answer, failures>>

----------------------------------------------------------------------------
(* Records and custody of an attempt *)

\* result.json is written again only from the receipt of a process that ended.
ReconcileRun(n) ==
  /\ Free /\ runs[n].start # None /\ runs[n].result = None
  /\ runs[n].receipt \in {"succeeded", "failed"}
  /\ VerifySettled(n, runs[n].receipt)
  /\ Put(n, "result", runs[n].receipt)
  /\ UNCHANGED <<lock, instance, processes, failures>>

\* Three records; what one left behind refuses the next.
Advances(n, field) ==
  \/ Put(n, field, "bound") /\ Completes
  \/ \E reached \in {"intent", "job"} : Put(n, field, reached) /\ Breaks

Accept(n) ==
  /\ Free /\ Settled(n) /\ runs[n].result = "succeeded"
  /\ runs[n].accepted = "no" /\ runs[n].reclaimed = "no"
  /\ Advances(n, "accepted")
  /\ UNCHANGED <<instance, processes>>

ReconcileAccept(n) ==
  /\ Free /\ Settled(n) /\ runs[n].accepted = "job"
  /\ Put(n, "accepted", "bound")
  /\ UNCHANGED <<lock, instance, processes, failures>>

\* Scratch is removed between the intent and the record of the job.
Reclaim(n) ==
  /\ Free /\ Settled(n) /\ runs[n].reclaimed = "no"
  /\ runs[n].result = "succeeded" => runs[n].accepted \in {"job", "bound"}
  /\ Advances(n, "reclaimed")
  /\ UNCHANGED <<instance, processes>>

----------------------------------------------------------------------------
(* Rounds, the kit and the state *)

ValidTransition(from, to) ==
  <<from, to>> \in {<<"active", "paused">>, <<"active", "suspended">>,
                    <<"paused", "suspended">>, <<"paused", "active">>, <<"suspended", "active">>}

\* The head is prepared in the journal, then renamed over round-control.json;
\* an interrupted transition is finished only by the same one.
Transition(mode) ==
  LET generation == control.generation + 1
      next == [generation |-> generation, mode |-> mode, snapshot |-> SnapshotNow] IN
  /\ Free /\ Loaded /\ CanSnapshot
  /\ ValidTransition(control.mode, mode)
  /\ control.mode # "active" => control.snapshot = SnapshotNow
  /\ generation <= MaxGeneration
  /\ journal[generation] \in {None, next}
  /\ journal' = [journal EXCEPT ![generation] = next]
  /\ \/ control' = next /\ Completes
     \/ UNCHANGED control /\ Breaks
  /\ UNCHANGED <<unloaded, kit, history, runs, processes>>

Unload ==
  /\ Free /\ Loaded /\ \A n \in Run : SettledRun(n)
  /\ unloaded' = TRUE
  /\ UNCHANGED <<lock, control, journal, kit, history, runs, processes, failures>>

\* Mutant: an edit asks only that the instance is loaded.
UpdateLoadedKit(content) ==
  /\ Free /\ Loaded
  /\ kit' = content
  /\ UNCHANGED <<lock, control, journal, unloaded, history, runs, processes, failures>>

UpdateKit(content) ==
  /\ Free /\ Active
  /\ kit' = content
  /\ UNCHANGED <<lock, control, journal, unloaded, history, runs, processes, failures>>

\* Mutant: the state committed meanwhile is not compared.
CommitOver(n, expected) ==
  /\ Free /\ Active /\ Settled(n) /\ runs[n].accepted = "bound"
  /\ runs[n].start.from = expected
  /\ history' = Append(history, n)
  /\ UNCHANGED <<lock, control, journal, unloaded, kit, runs, processes, failures>>

\* Only the accepted output of a run that read the state it replaces.
Commit(n, expected) ==
  /\ Free /\ Active /\ Settled(n) /\ runs[n].accepted = "bound"
  /\ runs[n].start.from = expected
  /\ expected = Len(history)
  /\ history' = Append(history, n)
  /\ UNCHANGED <<lock, control, journal, unloaded, kit, runs, processes, failures>>

Attempt(n) ==
  \/ Acquire(n) \/ WriteStart(n) \/ CancelGap(n) \/ MakeJob(n) \/ NotStarted(n)
  \/ Fence(n) \/ Refused(n) \/ Launch(n) \/ Reap(n) \/ Record(n)

Next ==
  \/ HostDies \/ RemoveStaleLock
  \/ \E n \in Run :
       \/ \E from \in Revision \cup {None} : Preview(n, from)
       \/ Reserve(n) \/ CancelSupervised(n)
       \/ Claim(n) \/ Poll(n) \/ WorkerCancelled(n) \/ WorkerStarts(n) \/ Completion(n) \/ WorkerDies(n)
       \/ StartDirect(n) \/ Attempt(n) \/ StartFails(n) \/ StartDies(n) \/ OrphanEnds(n)
       \/ ReconcileRun(n) \/ Accept(n) \/ ReconcileAccept(n) \/ Reclaim(n)
       \/ \E expected \in Revision : Commit(n, expected)
  \/ \E mode \in Mode : Transition(mode)
  \/ Unload
  \/ \E content \in Kit : UpdateKit(content)

Spec == Init /\ [][Next]_vars

----------------------------------------------------------------------------
(* Properties *)

Alive(n) == group[n] \in {"running", "orphan"}

\* A paused, suspended or unloaded instance has no process of a run, no start
\* under way and no reservation a worker could still take up.
RoundIsQuiet ==
  ~Active => \A n \in Run :
    /\ ~Alive(n) /\ host[n] \notin {"claimed", "polled", "starting"}
    /\ runs[n].request \in Plan => runs[n].owner = "claimed"

\* While it is paused or suspended, nothing its snapshot pins changes, and of all
\* the custody of its settled runs that goes on only a reclamation cut short keeps
\* a run from passing the boundary again, which the resume asks (round_control).
PausedRoundIsFrozen ==
  control.mode # "active" =>
    /\ control.snapshot = SnapshotNow
    /\ \A n \in Run : runs[n].reclaimed # "intent" => CanClose(n)

\* The evidence that lets a run be reclaimed, and its round be closed, exists
\* only after its process group and its supervisor are done with it.
ConfirmedMeansEnded ==
  \A n \in Run :
    Settled(n) \/ SettledPrelaunch(n) =>
      ~Alive(n) /\ host[n] \notin {"claimed", "polled", "starting"}

\* Each committed run read the state that its output replaced, accepted and
\* settled: no commit is lost under another.
NoLostUpdate ==
  \A i \in DOMAIN history :
    LET n == history[i] IN
    runs[n].start.from = i - 1 /\ runs[n].result = "succeeded" /\ runs[n].accepted = "bound"

\* What the files prove of runs and rounds, whatever was cut short.
RunsSafe == TypeOK /\ RoundIsQuiet /\ ConfirmedMeansEnded /\ NoLostUpdate

\* When a process is launched, the kit, the round and the state it was approved
\* for are still those of the instance, though the approval is older.
LaunchIsCurrent ==
  [][\A n \in Run :
       group[n] # "running" /\ group'[n] = "running" =>
         /\ Active /\ group[n] = "none"
         /\ runs[n].start = PlanNow(runs[n].start.from)
         /\ runs[n].start = IF Reserved(n) THEN runs[n].request ELSE runs[n].preview]_vars

\* A start that is answered "cancelled, no process started, termination
\* confirmed" leaves a round that can close (doc/status.md).
PrelaunchCancelCloses ==
  \A n \in Run : runs[n].result = "unlaunched" /\ host[n] = "idle" => SettledRun(n)

----------------------------------------------------------------------------
(* What is promised of every run *)

round ==
  CASE unloaded -> "unloaded"
    [] ~unloaded /\ control.mode = "active" -> "open"
    [] ~unloaded /\ control.mode # "active" -> "closed"

Ended(n) ==
  /\ runs[n].result \in Confirmed /\ runs[n].result = runs[n].receipt
  /\ VerifySettled(n, runs[n].result)

custody ==
  [n \in Run |->
     CASE Ended(n) -> IF runs[n].accepted = "bound" THEN "accepted"
                      ELSE IF runs[n].result = "succeeded" THEN "succeeded" ELSE "failed"
       [] ~Ended(n) /\ SettledPrelaunch(n) -> "void"
       [] OTHER -> IF Reserved(n) \/ runs[n].start # None THEN "held" ELSE "free"]

Promise == INSTANCE RunCustody

\* The files keep the promise, through failing writes and killed hosts: this is
\* Promise!Spec, with the steps that do not show looked at first.
CustodySteps ==
  Promise!Init /\ [][UNCHANGED <<round, custody>> \/ Promise!Next]_vars
=============================================================================

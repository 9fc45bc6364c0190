-------------------------- MODULE SpoolRunsProofs --------------------------
(***************************************************************************)
(* What the files of a native spool prove of its runs, for any runs, kits  *)
(* and bounds.                                                             *)
(***************************************************************************)
EXTENDS SpoolRuns, FiniteSetTheorems, TLAPS

----------------------------------------------------------------------------
(* The inductive invariant *)

\* The start of a run is the only one, in a loaded and active instance, of
\* what was approved, with nothing recorded of its end.
StartIsApproved(n) ==
  host[n] = "starting" =>
    /\ lock = "held" /\ Active
    /\ runs[n].preview \in Plan
    /\ runs[n].preview = PlanNow(runs[n].preview.from)
    /\ n \in Routed \/ Reserved(n) => runs[n].owner = "claimed"
    /\ runs[n].result = None /\ runs[n].completion = None
    /\ runs[n].start # None => runs[n].start = runs[n].preview

OneStart == \A m, n \in Run : host[m] = "starting" /\ host[n] = "starting" => m = n

\* A supervisor owns a reservation of what was shown, and has not reported.
WorkerOwns(n) ==
  /\ host[n] \in {"claimed", "polled", "answering"} =>
       runs[n].owner = "claimed" /\ runs[n].completion = None
  /\ host[n] \in {"claimed", "polled"} => runs[n].reached \in {"none", "claims"}

\* The records of a reservation and of its supervisor are made in order.
ReservedInOrder(n) ==
  /\ runs[n].request \in Plan => runs[n].request = runs[n].preview
  /\ runs[n].owner # "none" => runs[n].request \in Plan
  /\ runs[n].completion # None => runs[n].owner = "claimed" /\ host[n] = "idle"
  /\ Reserved(n) /\ runs[n].owner # "claimed" => runs[n].reached \in {"none", "claims"}

\* And so are those of an attempt.
AttemptedInOrder(n) ==
  /\ runs[n].start = None <=> runs[n].reached \in {"none", "claims"}
  /\ runs[n].result # None => runs[n].start # None
  /\ runs[n].receipt # None => HasJob(n)

\* A process belongs to a launched attempt; a receipt beside it confirms nothing.
GroupIsOfLaunch(n) ==
  /\ group[n] # "none" => runs[n].reached = "launch"
  /\ group[n] = "running" => host[n] = "starting" /\ runs[n].receipt = None
  /\ group[n] = "orphan" => runs[n].receipt \in {None, "unconfirmed"}

\* Only what ended in success is accepted.
AcceptedEnded(n) == runs[n].accepted # "no" => Ended(n) /\ runs[n].result = "succeeded"

\* Of every run there is an end, or nothing that was begun.
Over(n) ==
  CASE HasJob(n) -> Ended(n)
    [] ~HasJob(n) /\ Reserved(n) -> SettledPrelaunch(n)
    [] ~HasJob(n) /\ ~Reserved(n) -> runs[n].reached # "start"

RunInv(n) ==
  /\ StartIsApproved(n) /\ WorkerOwns(n) /\ ReservedInOrder(n) /\ AttemptedInOrder(n)
  /\ GroupIsOfLaunch(n) /\ AcceptedEnded(n)
  /\ ~Active => Over(n)

\* The two parts of what a closed round promises.
Pinned == control.mode # "active" => control.snapshot = SnapshotNow
Reopens == control.mode # "active" => \A n \in Run : runs[n].reclaimed # "intent" => CanClose(n)

LEMMA FrozenIs == PausedRoundIsFrozen <=> Pinned /\ Reopens
BY DEF PausedRoundIsFrozen, Pinned, Reopens

RunsInv ==
  /\ TypeOK /\ OneStart /\ NoLostUpdate /\ PausedRoundIsFrozen
  /\ \A n \in Run : RunInv(n)

----------------------------------------------------------------------------
(* Types *)

LEMMA MarksAreOwn ==
  /\ None # Torn /\ None \notin Plan /\ Torn \notin Plan
  /\ None \notin Answer /\ Torn \notin Answer
  /\ None \notin {"none", "claimed"} /\ Torn \notin {"none", "claimed"}
BY MarkAssumption

LEMMA RevisionIsNat == Revision = 0..Cardinality(Run) /\ Cardinality(Run) \in Nat
BY RunAssumption, FS_CardinalityType DEF Revision

\* The kit, the round and any state that was read make a plan.
LEMMA PlanNowIsPlan ==
  ASSUME TypeOK, NEW from \in Revision \cup {None}
  PROVE  PlanNow(from) \in Plan /\ PlanNow(from).from = from
BY DEF TypeOK, PlanNow, Plan, ControlHead

\* What the files of settled runs say can be pinned.
LEMMA SnapshotIsTyped ==
  ASSUME TypeOK, CanSnapshot
  PROVE  SnapshotNow \in Snapshot
<1>1. ASSUME NEW n \in Run PROVE Evidence(n) \in Confirmed \cup {"cancelled", None}
  BY DEF CanSnapshot, CanClose, SettledRun, Settled, Evidence
<1>2. [n \in Run |-> Evidence(n)] \in [Run -> Confirmed \cup {"cancelled", None}]
  BY <1>1
<1> QED
  BY <1>2 DEF SnapshotNow, Snapshot, TypeOK

\* One file of one run is written, or none.
Kept(old, new, n, field) ==
  /\ field # "preview" => new[n].preview = old[n].preview
  /\ field # "request" => new[n].request = old[n].request
  /\ field # "cancel" => new[n].cancel = old[n].cancel
  /\ field # "owner" => new[n].owner = old[n].owner
  /\ field # "completion" => new[n].completion = old[n].completion
  /\ field # "reached" => new[n].reached = old[n].reached
  /\ field # "start" => new[n].start = old[n].start
  /\ field # "receipt" => new[n].receipt = old[n].receipt
  /\ field # "result" => new[n].result = old[n].result
  /\ field # "accepted" => new[n].accepted = old[n].accepted
  /\ field # "reclaimed" => new[n].reclaimed = old[n].reclaimed
  /\ \A m \in Run \ {n} : new[m] = old[m]

AllBut(n, field) == Kept(runs, runs', n, field)

\* What each may hold.
Fits(field, value) ==
  \/ field = "preview" /\ value \in Plan \cup {None}
  \/ field = "request" /\ value \in Plan \cup {None, Torn}
  \/ field = "cancel" /\ value \in BOOLEAN
  \/ field = "owner" /\ value \in {"none", Torn, "claimed"}
  \/ field = "completion" /\ value \in Answer \cup {None, Torn}
  \/ field = "reached" /\ value \in {"none", "claims", "start", "job", "launch"}
  \/ field = "start" /\ value \in Plan \cup {None}
  \/ field = "receipt" /\ value \in Receipt \cup {None}
  \/ field = "result" /\ value \in Receipt \cup {"unlaunched", Torn, None}
  \/ field = "accepted" /\ value \in Custody
  \/ field = "reclaimed" /\ value \in Custody

With(old, n, field, value) == [old EXCEPT ![n][field] = value]

\* The others keep theirs, and every record its type.
LEMMA FileIsWritten ==
  ASSUME NEW old \in [Run -> Files], NEW new, NEW n \in Run, NEW field, NEW value,
         new = With(old, n, field, value), Fits(field, value)
  PROVE  new \in [Run -> Files] /\ Kept(old, new, n, field) /\ new[n][field] = value
<1>1. CASE field = "preview" /\ value \in Plan \cup {None}
  <2>1. new = [old EXCEPT ![n].preview = value]
    BY <1>1 DEF With
  <2>2. new \in [Run -> Files]
    BY <1>1, <2>1 DEF Files
  <2>3. Kept(old, new, n, field) /\ new[n].preview = value
    BY <1>1, <2>1 DEF Kept, Files
  <2> QED
    BY <1>1, <2>2, <2>3
<1>2. CASE field = "request" /\ value \in Plan \cup {None, Torn}
  <2>1. new = [old EXCEPT ![n].request = value]
    BY <1>2 DEF With
  <2>2. new \in [Run -> Files]
    BY <1>2, <2>1 DEF Files
  <2>3. Kept(old, new, n, field) /\ new[n].request = value
    BY <1>2, <2>1 DEF Kept, Files
  <2> QED
    BY <1>2, <2>2, <2>3
<1>3. CASE field = "cancel" /\ value \in BOOLEAN
  <2>1. new = [old EXCEPT ![n].cancel = value]
    BY <1>3 DEF With
  <2>2. new \in [Run -> Files]
    BY <1>3, <2>1 DEF Files
  <2>3. Kept(old, new, n, field) /\ new[n].cancel = value
    BY <1>3, <2>1 DEF Kept, Files
  <2> QED
    BY <1>3, <2>2, <2>3
<1>4. CASE field = "owner" /\ value \in {"none", Torn, "claimed"}
  <2>1. new = [old EXCEPT ![n].owner = value]
    BY <1>4 DEF With
  <2>2. new \in [Run -> Files]
    BY <1>4, <2>1 DEF Files
  <2>3. Kept(old, new, n, field) /\ new[n].owner = value
    BY <1>4, <2>1 DEF Kept, Files
  <2> QED
    BY <1>4, <2>2, <2>3
<1>5. CASE field = "completion" /\ value \in Answer \cup {None, Torn}
  <2>1. new = [old EXCEPT ![n].completion = value]
    BY <1>5 DEF With
  <2>2. new \in [Run -> Files]
    BY <1>5, <2>1 DEF Files
  <2>3. Kept(old, new, n, field) /\ new[n].completion = value
    BY <1>5, <2>1 DEF Kept, Files
  <2> QED
    BY <1>5, <2>2, <2>3
<1>6. CASE field = "reached" /\ value \in {"none", "claims", "start", "job", "launch"}
  <2>1. new = [old EXCEPT ![n].reached = value]
    BY <1>6 DEF With
  <2>2. new \in [Run -> Files]
    BY <1>6, <2>1 DEF Files
  <2>3. Kept(old, new, n, field) /\ new[n].reached = value
    BY <1>6, <2>1 DEF Kept, Files
  <2> QED
    BY <1>6, <2>2, <2>3
<1>7. CASE field = "start" /\ value \in Plan \cup {None}
  <2>1. new = [old EXCEPT ![n].start = value]
    BY <1>7 DEF With
  <2>2. new \in [Run -> Files]
    BY <1>7, <2>1 DEF Files
  <2>3. Kept(old, new, n, field) /\ new[n].start = value
    BY <1>7, <2>1 DEF Kept, Files
  <2> QED
    BY <1>7, <2>2, <2>3
<1>8. CASE field = "receipt" /\ value \in Receipt \cup {None}
  <2>1. new = [old EXCEPT ![n].receipt = value]
    BY <1>8 DEF With
  <2>2. new \in [Run -> Files]
    BY <1>8, <2>1 DEF Files
  <2>3. Kept(old, new, n, field) /\ new[n].receipt = value
    BY <1>8, <2>1 DEF Kept, Files
  <2> QED
    BY <1>8, <2>2, <2>3
<1>9. CASE field = "result" /\ value \in Receipt \cup {"unlaunched", Torn, None}
  <2>1. new = [old EXCEPT ![n].result = value]
    BY <1>9 DEF With
  <2>2. new \in [Run -> Files]
    BY <1>9, <2>1 DEF Files
  <2>3. Kept(old, new, n, field) /\ new[n].result = value
    BY <1>9, <2>1 DEF Kept, Files
  <2> QED
    BY <1>9, <2>2, <2>3
<1>10. CASE field = "accepted" /\ value \in Custody
  <2>1. new = [old EXCEPT ![n].accepted = value]
    BY <1>10 DEF With
  <2>2. new \in [Run -> Files]
    BY <1>10, <2>1 DEF Files
  <2>3. Kept(old, new, n, field) /\ new[n].accepted = value
    BY <1>10, <2>1 DEF Kept, Files
  <2> QED
    BY <1>10, <2>2, <2>3
<1>11. CASE field = "reclaimed" /\ value \in Custody
  <2>1. new = [old EXCEPT ![n].reclaimed = value]
    BY <1>11 DEF With
  <2>2. new \in [Run -> Files]
    BY <1>11, <2>1 DEF Files
  <2>3. Kept(old, new, n, field) /\ new[n].reclaimed = value
    BY <1>11, <2>1 DEF Kept, Files
  <2> QED
    BY <1>11, <2>2, <2>3
<1> QED
  BY <1>1, <1>2, <1>3, <1>4, <1>5, <1>6, <1>7, <1>8, <1>9, <1>10, <1>11 DEF Fits

LEMMA PutOne ==
  ASSUME runs \in [Run -> Files], NEW n \in Run, NEW field, NEW value,
         Put(n, field, value), Fits(field, value)
  PROVE  runs' \in [Run -> Files] /\ AllBut(n, field) /\ runs'[n][field] = value
<1>1. runs' = With(runs, n, field, value)
  BY DEF Put, With
<1> QED
  BY <1>1, FileIsWritten DEF AllBut

\* The start of an attempt is two of them.
LEMMA PutStart ==
  ASSUME runs \in [Run -> Files], NEW n \in Run, NEW plan \in Plan,
         runs' = [runs EXCEPT ![n].reached = "start", ![n].start = plan]
  PROVE  /\ runs' \in [Run -> Files]
         /\ runs'[n].reached = "start" /\ runs'[n].start = plan
         /\ runs'[n].preview = runs[n].preview
         /\ runs'[n].request = runs[n].request
         /\ runs'[n].cancel = runs[n].cancel
         /\ runs'[n].owner = runs[n].owner
         /\ runs'[n].completion = runs[n].completion
         /\ runs'[n].receipt = runs[n].receipt
         /\ runs'[n].result = runs[n].result
         /\ runs'[n].accepted = runs[n].accepted
         /\ runs'[n].reclaimed = runs[n].reclaimed
         /\ \A m \in Run \ {n} : runs'[m] = runs[m]
<1> DEFINE reaching == With(runs, n, "reached", "start")
<1>1. Fits("reached", "start") /\ Fits("start", plan)
  BY DEF Fits
<1>2. reaching \in [Run -> Files] /\ Kept(runs, reaching, n, "reached") /\ reaching[n].reached = "start"
  BY <1>1, FileIsWritten
<1>3. runs' = With(reaching, n, "start", plan)
  BY DEF With
<1> HIDE DEF reaching
<1>4. runs' \in [Run -> Files] /\ Kept(reaching, runs', n, "start") /\ runs'[n].start = plan
  <2>1. \A new : new = With(reaching, n, "start", plan) =>
          new \in [Run -> Files] /\ Kept(reaching, new, n, "start") /\ new[n]["start"] = plan
    BY <1>1, <1>2, FileIsWritten
  <2> QED
    BY <1>3, <2>1
<1> QED
  BY <1>2, <1>4 DEF Kept

FilesOK ==
  /\ lock \in {"free", "held", "stale"}
  /\ runs \in [Run -> Files]
  /\ host \in [Run -> {"idle", "claimed", "polled", "starting", "answering"}]
  /\ answer \in [Run -> Answer \cup {None}]
  /\ group \in [Run -> {"none", "running", "orphan", "gone"}]
  /\ failures \in 0..MaxFailures

LEMMA FilesStep ==
  ASSUME TypeOK, \A n \in Run : StartIsApproved(n), [Next]_vars
  PROVE  FilesOK'
<1> USE BoundsAssumption
<1>1. FilesOK
  BY DEF TypeOK, FilesOK
<1>2. Fails => failures' \in 0..MaxFailures
  BY <1>1 DEF Fails, FilesOK
<1>3. CASE HostDies \/ RemoveStaleLock
  BY <1>1, <1>2, <1>3 DEF HostDies, RemoveStaleLock, processes, FilesOK
<1>put. ASSUME NEW n \in Run, NEW field, NEW value, Put(n, field, value), Fits(field, value)
        PROVE  runs' \in [Run -> Files]
  BY <1>1, <1>put, PutOne DEF FilesOK
<1>is. ASSUME NEW n \in Run
       PROVE  runs[n].preview \in Plan \cup {None} /\ runs[n].receipt \in Receipt \cup {None}
  BY <1>1 DEF FilesOK, Files
<1>4. ASSUME NEW n \in Run, NEW from \in Revision \cup {None}, Preview(n, from) PROVE FilesOK'
  <2>1. PlanNow(from) \in Plan
    BY PlanNowIsPlan
  <2>2. Put(n, "preview", PlanNow(from)) /\ Fits("preview", PlanNow(from))
    BY <1>4, <2>1 DEF Preview, Fits
  <2>3. runs' \in [Run -> Files]
    BY <1>put, <2>2
  <2> QED
    BY <1>1, <1>4, <2>3 DEF Preview, processes, FilesOK
<1>5. ASSUME NEW n \in Run, Reserve(n) PROVE FilesOK'
  <2>1. \E value \in Plan \cup {Torn} : Put(n, "request", value)
    BY <1>5, <1>is DEF Reserve
  <2>2. runs' \in [Run -> Files]
    BY <1>put, <2>1 DEF Fits
  <2> QED
    BY <1>1, <1>2, <1>5, <2>2 DEF Reserve, Completes, Breaks, processes, FilesOK
<1>6. ASSUME NEW n \in Run, CancelSupervised(n) PROVE FilesOK'
  <2>1. runs' \in [Run -> Files]
    BY <1>put, <1>6 DEF CancelSupervised, Fits
  <2> QED
    BY <1>1, <1>6, <2>1 DEF CancelSupervised, processes, FilesOK
<1>7. ASSUME NEW n \in Run, Claim(n) PROVE FilesOK'
  <2>1. runs' \in [Run -> Files]
    BY <1>put, <1>7 DEF Claim, Fits
  <2> QED
    BY <1>1, <1>2, <1>7, <2>1 DEF Claim, Goes, FilesOK
<1>8. ASSUME NEW n \in Run, Poll(n) \/ WorkerCancelled(n) \/ WorkerStarts(n) PROVE FilesOK'
  BY <1>1, <1>8 DEF Poll, WorkerCancelled, WorkerStarts, Reports, Goes, FilesOK, Answer
<1>9. ASSUME NEW n \in Run, Completion(n) PROVE FilesOK'
  <2>1. \E value \in Answer \cup {None, Torn} : Put(n, "completion", value)
    BY <1>1, <1>9 DEF Completion, FilesOK
  <2>2. runs' \in [Run -> Files]
    BY <1>put, <2>1 DEF Fits
  <2> QED
    BY <1>1, <1>2, <1>9, <2>2 DEF Completion, Goes, FilesOK
<1>10. ASSUME NEW n \in Run, WorkerDies(n) \/ StartDirect(n) PROVE FilesOK'
  BY <1>1, <1>2, <1>10 DEF WorkerDies, StartDirect, Goes, FilesOK
<1>11. ASSUME NEW n \in Run, Acquire(n) \/ MakeJob(n) \/ Fence(n) PROVE FilesOK'
  <2>1. \E value \in {"claims", "job", "launch"} : Put(n, "reached", value)
    BY <1>11 DEF Acquire, MakeJob, Fence, Reach
  <2>2. runs' \in [Run -> Files]
    BY <1>put, <2>1 DEF Fits
  <2> QED
    BY <1>1, <1>11, <2>2 DEF Acquire, MakeJob, Fence, Reach, FilesOK
<1>12. ASSUME NEW n \in Run, WriteStart(n) PROVE FilesOK'
  <2>1. PlanNow(runs[n].preview.from) \in Plan
    BY <1>12 DEF WriteStart, Starting, StartIsApproved
  <2>2. runs' \in [Run -> Files]
    BY <1>1, <1>12, <2>1, PutStart DEF WriteStart, FilesOK
  <2> QED
    BY <1>1, <1>12, <2>2 DEF WriteStart, FilesOK
<1>13. ASSUME NEW n \in Run, NEW what \in Answer, EndStart(n, what)
       PROVE  /\ lock' = "free" /\ answer' \in [Run -> Answer \cup {None}]
              /\ host' \in [Run -> {"idle", "claimed", "polled", "starting", "answering"}]
  BY <1>1, <1>13 DEF EndStart, Reports, Goes, FilesOK
<1>14. ASSUME NEW n \in Run, CancelGap(n) PROVE FilesOK'
  <2>1. EndStart(n, "unlaunched") /\ "unlaunched" \in Answer
    BY <1>14 DEF CancelGap, Answer
  <2>2. runs' \in [Run -> Files]
    BY <1>put, <1>14 DEF CancelGap, Fits
  <2> QED
    BY <1>1, <1>13, <1>14, <2>1, <2>2 DEF CancelGap, FilesOK
<1>15. ASSUME NEW n \in Run, NotStarted(n) \/ Refused(n) \/ Reap(n) PROVE FilesOK'
  <2>1. \E value \in Receipt : Receive(n, value)
    BY <1>15 DEF NotStarted, Refused, Reap, Receipt, Confirmed
  <2>2. runs' \in [Run -> Files]
    BY <1>put, <2>1 DEF Receive, Fits
  <2> QED
    BY <1>1, <1>15, <2>2 DEF NotStarted, Refused, Reap, Receive, FilesOK
<1>16. ASSUME NEW n \in Run, Launch(n) PROVE FilesOK'
  BY <1>1, <1>16 DEF Launch, FilesOK
<1>17. ASSUME NEW n \in Run, Record(n) PROVE FilesOK'
  <2>1. EndStart(n, runs[n].receipt) /\ runs[n].receipt \in Receipt
    BY <1>is, <1>17 DEF Record
  <2>2. runs[n].receipt \in Answer
    BY <2>1 DEF Answer
  <2>3. runs' \in [Run -> Files]
    BY <1>put, <1>17, <2>1 DEF Record, Fits
  <2> QED
    BY <1>1, <1>13, <1>17, <2>1, <2>2, <2>3 DEF Record, FilesOK
<1>18. ASSUME NEW n \in Run, StartFails(n) PROVE FilesOK'
  <2>1. EndStart(n, "error") /\ "error" \in Answer
    BY <1>18 DEF StartFails, Answer
  <2>2. UNCHANGED runs \/ \E value \in Receipt \cup {Torn} : Put(n, "result", value)
    BY <1>is, <1>18 DEF StartFails
  <2>3. runs' \in [Run -> Files]
    BY <1>1, <1>put, <2>2 DEF Fits, FilesOK
  <2> QED
    BY <1>1, <1>2, <1>13, <1>18, <2>1, <2>3 DEF StartFails, FilesOK
<1>19. ASSUME NEW n \in Run, StartDies(n) \/ OrphanEnds(n) PROVE FilesOK'
  BY <1>1, <1>2, <1>19 DEF StartDies, OrphanEnds, Goes, FilesOK
<1>20. ASSUME NEW n \in Run, ReconcileRun(n) PROVE FilesOK'
  <2>1. runs' \in [Run -> Files]
    BY <1>put, <1>is, <1>20 DEF ReconcileRun, Fits, Receipt, Confirmed
  <2> QED
    BY <1>1, <1>20, <2>1 DEF ReconcileRun, processes, FilesOK
<1>21. ASSUME NEW n \in Run, Accept(n) \/ ReconcileAccept(n) \/ Reclaim(n) PROVE FilesOK'
  <2>1. \E field \in {"accepted", "reclaimed"}, value \in Custody : Put(n, field, value)
    BY <1>21 DEF Accept, ReconcileAccept, Reclaim, Advances, Custody
  <2>2. runs' \in [Run -> Files]
    BY <1>put, <2>1 DEF Fits
  <2> QED
    BY <1>1, <1>2, <1>21, <2>2
      DEF Accept, ReconcileAccept, Reclaim, Advances, Completes, Breaks, processes, FilesOK
<1>22. ASSUME NEW n \in Run, NEW expected \in Revision, Commit(n, expected) PROVE FilesOK'
  BY <1>1, <1>22 DEF Commit, processes, FilesOK
<1>23. ASSUME NEW mode \in Mode, Transition(mode) PROVE FilesOK'
  BY <1>1, <1>2, <1>23 DEF Transition, Completes, Breaks, processes, FilesOK
<1>24. ASSUME NEW content \in Kit, UpdateKit(content) PROVE FilesOK'
  BY <1>1, <1>24 DEF UpdateKit, processes, FilesOK
<1>25. CASE Unload \/ UNCHANGED vars
  BY <1>1, <1>25 DEF Unload, vars, processes, FilesOK
<1> QED
  BY <1>3, <1>4, <1>5, <1>6, <1>7, <1>8, <1>9, <1>10, <1>11, <1>12, <1>14, <1>15, <1>16, <1>17,
    <1>18, <1>19, <1>20, <1>21, <1>22, <1>23, <1>24, <1>25 DEF Next, Attempt

----------------------------------------------------------------------------
(* One run *)

\* What is known of one run by its types.
Typed(n) ==
  /\ runs[n].preview \in Plan \cup {None}
  /\ runs[n].request \in Plan \cup {None, Torn}
  /\ runs[n].cancel \in BOOLEAN
  /\ runs[n].owner \in {"none", Torn, "claimed"}
  /\ runs[n].completion \in Answer \cup {None, Torn}
  /\ runs[n].reached \in {"none", "claims", "start", "job", "launch"}
  /\ runs[n].start \in Plan \cup {None}
  /\ runs[n].receipt \in Receipt \cup {None}
  /\ runs[n].result \in Receipt \cup {"unlaunched", Torn, None}
  /\ runs[n].accepted \in Custody
  /\ runs[n].reclaimed \in Custody
  /\ host[n] \in {"idle", "claimed", "polled", "starting", "answering"}
  /\ group[n] \in {"none", "running", "orphan", "gone"}

LEMMA RunIsTyped ==
  ASSUME TypeOK, NEW n \in Run
  PROVE  Typed(n)
BY DEF TypeOK, Typed, Files

\* A step of another run, or of none, that leaves the instance alone.
LEMMA OthersStay ==
  ASSUME NEW n \in Run, RunInv(n), UNCHANGED <<runs[n], host[n], group[n], instance>>,
         host[n] = "starting" => UNCHANGED lock
  PROVE  RunInv(n)'
<1>1. StartIsApproved(n)'
  BY DEF RunInv, StartIsApproved, instance, Active, Loaded, PlanNow, Reserved
<1>2. WorkerOwns(n)' /\ ReservedInOrder(n)' /\ AttemptedInOrder(n)' /\ GroupIsOfLaunch(n)'
  BY DEF RunInv, WorkerOwns, ReservedInOrder, AttemptedInOrder, GroupIsOfLaunch, Reserved, HasJob
<1>3. AcceptedEnded(n)'
  BY DEF RunInv, AcceptedEnded, Ended, VerifySettled
<1>4. (~Active => Over(n))'
  BY DEF RunInv, Over, HasJob, Ended, VerifySettled, Reserved, SettledPrelaunch, Active, Loaded, instance
<1> QED
  BY <1>1, <1>2, <1>3, <1>4 DEF RunInv

\* The records of a supervisor.
LEMMA SupervisorKeeps ==
  ASSUME TypeOK, NEW n \in Run, RunInv(n),
         \/ \E from \in Revision \cup {None} : Preview(n, from)
         \/ Reserve(n) \/ CancelSupervised(n) \/ Claim(n) \/ Completion(n)
  PROVE  RunInv(n)'
<1> USE MarksAreOwn
<1>1. /\ Typed(n) /\ runs \in [Run -> Files] /\ UNCHANGED instance
      /\ host \in [Run -> {"idle", "claimed", "polled", "starting", "answering"}]
  BY RunIsTyped DEF TypeOK, Preview, Reserve, CancelSupervised, Claim, Completion
<1>2. UNCHANGED <<Active, Routed>> /\ \A from : PlanNow(from)' = PlanNow(from)
  BY <1>1 DEF instance, Active, Loaded, PlanNow
<1>3. CASE \E from \in Revision \cup {None} : Preview(n, from)
  <2>1. PICK plan \in Plan : Put(n, "preview", plan) /\ Fits("preview", plan)
    BY <1>3, PlanNowIsPlan DEF Preview, Fits
  <2>2. AllBut(n, "preview")
    BY <1>1, <2>1, PutOne
  <2>3. /\ UNCHANGED <<lock, host, group>>
        /\ lock = "free" /\ runs[n].request = None
    BY <1>3 DEF Preview, processes, Free, Reserved
  <2> QED
    BY <1>1, <1>2, <2>2, <2>3 DEF AllBut, Kept, RunInv, StartIsApproved, WorkerOwns, ReservedInOrder, AttemptedInOrder, GroupIsOfLaunch,
      AcceptedEnded, Over, Ended, VerifySettled, SettledPrelaunch, Reserved, HasJob, Typed
<1>4. CASE Reserve(n)
  <2>1. PICK plan \in {runs[n].preview, Torn} : Put(n, "request", plan)
    BY <1>4 DEF Reserve
  <2>2. /\ UNCHANGED <<host, group>> /\ lock = "free" /\ runs[n].request = None
        /\ runs[n].preview # None /\ runs[n].reached \in {"none", "claims"} /\ Active
    BY <1>4 DEF Reserve, processes, Free, Reserved
  <2>3. Fits("request", plan)
    BY <1>1, <2>1, <2>2 DEF Fits, Typed
  <2>4. AllBut(n, "request") /\ runs'[n]["request"] = plan
    BY <1>1, <2>1, <2>3, PutOne
  <2> QED
    BY <1>1, <1>2, <2>1, <2>2, <2>4 DEF AllBut, Kept, RunInv, StartIsApproved, WorkerOwns, ReservedInOrder, AttemptedInOrder, GroupIsOfLaunch,
      AcceptedEnded, Over, Ended, VerifySettled, SettledPrelaunch, Reserved, HasJob, Typed
<1>5. CASE CancelSupervised(n)
  <2>1. AllBut(n, "cancel")
    BY <1>1, <1>5, PutOne DEF CancelSupervised, Fits
  <2>2. UNCHANGED <<lock, host, group>>
    BY <1>5 DEF CancelSupervised, processes
  <2>3. StartIsApproved(n)' /\ WorkerOwns(n)' /\ ReservedInOrder(n)'
    BY <1>1, <1>2, <2>1, <2>2
      DEF AllBut, Kept, RunInv, StartIsApproved, WorkerOwns, ReservedInOrder, Reserved, Typed
  <2>4. AttemptedInOrder(n)' /\ GroupIsOfLaunch(n)'
    BY <1>1, <2>1, <2>2 DEF AllBut, Kept, RunInv, AttemptedInOrder, GroupIsOfLaunch, HasJob, Typed
  <2>5. AcceptedEnded(n)' /\ (~Active => Over(n))'
    BY <1>1, <1>2, <2>1, <2>2
      DEF AllBut, Kept, RunInv, AcceptedEnded, Over, Ended, VerifySettled, SettledPrelaunch, Reserved, HasJob, Typed
  <2> QED
    BY <2>3, <2>4, <2>5 DEF RunInv
<1>6. CASE Claim(n)
  <2>1. PICK owner \in {Torn, "claimed"} :
          /\ Put(n, "owner", owner) /\ runs[n].request \in Plan /\ runs[n].owner = "none"
          /\ UNCHANGED <<lock, group>>
          /\ (owner = "claimed" /\ host' = [host EXCEPT ![n] = "claimed"]) \/ UNCHANGED host
    BY <1>6 DEF Claim, Goes
  <2>2. AllBut(n, "owner") /\ runs'[n]["owner"] = owner
    BY <1>1, <2>1, PutOne DEF Fits
  <2>3. UNCHANGED host[n] \/ (owner = "claimed" /\ host'[n] = "claimed")
    BY <1>1, <2>1
  <2>4. Active
    BY <1>1, <2>1 DEF RunInv, StartIsApproved, WorkerOwns, ReservedInOrder, AttemptedInOrder, GroupIsOfLaunch,
      AcceptedEnded, Over, Ended, VerifySettled, SettledPrelaunch, Reserved, HasJob, Typed
  <2> QED
    BY <1>1, <1>2, <2>1, <2>2, <2>3, <2>4 DEF AllBut, Kept, RunInv, StartIsApproved, WorkerOwns, ReservedInOrder, AttemptedInOrder, GroupIsOfLaunch,
      AcceptedEnded, Over, Ended, VerifySettled, SettledPrelaunch, Reserved, HasJob, Typed
<1>7. CASE Completion(n)
  <2>1. PICK what \in Answer \cup {None, Torn} : Put(n, "completion", what)
    BY <1>7 DEF Completion, TypeOK
  <2>2. AllBut(n, "completion") /\ runs'[n]["completion"] = what
    BY <1>1, <2>1, PutOne DEF Fits
  <2>3. host[n] = "answering" /\ host'[n] = "idle" /\ UNCHANGED <<lock, group>>
    BY <1>7 DEF Completion, Goes, TypeOK
  <2>4. StartIsApproved(n)' /\ WorkerOwns(n)' /\ ReservedInOrder(n)'
    BY <1>1, <1>2, <2>2, <2>3
      DEF AllBut, Kept, RunInv, StartIsApproved, WorkerOwns, ReservedInOrder, Reserved, Typed
  <2>5. AttemptedInOrder(n)' /\ GroupIsOfLaunch(n)'
    BY <1>1, <2>2, <2>3 DEF AllBut, Kept, RunInv, AttemptedInOrder, GroupIsOfLaunch, HasJob, Typed
  <2>6. /\ runs[n].completion = None /\ runs[n].owner = "claimed"
        /\ None \notin Confirmed /\ None # "cancelled"
    BY <2>3 DEF RunInv, WorkerOwns, Answer, Receipt
  <2>7. AcceptedEnded(n)'
    BY <1>1, <2>2, <2>6 DEF AllBut, Kept, RunInv, AcceptedEnded, Ended, VerifySettled, Typed
  <2>8. (~Active => Over(n))'
    BY <1>1, <1>2, <2>2, <2>6
      DEF AllBut, Kept, RunInv, Over, Ended, VerifySettled, SettledPrelaunch, Reserved, HasJob, Typed
  <2> QED
    BY <2>4, <2>5, <2>7, <2>8 DEF RunInv
<1> QED
  BY <1>3, <1>4, <1>5, <1>6, <1>7

\* The life of a worker and the admission of a start.
LEMMA WorkerKeeps ==
  ASSUME TypeOK, NEW n \in Run, RunInv(n),
         \/ Poll(n) \/ WorkerCancelled(n) \/ WorkerStarts(n) \/ WorkerDies(n) \/ StartDirect(n)
  PROVE  RunInv(n)'
<1> USE MarksAreOwn
<1>1. /\ Typed(n) /\ UNCHANGED <<runs, group, instance>>
      /\ host \in [Run -> {"idle", "claimed", "polled", "starting", "answering"}]
  BY RunIsTyped DEF TypeOK, Poll, WorkerCancelled, WorkerStarts, WorkerDies, StartDirect
<1>2. UNCHANGED <<Active, Routed>> /\ \A from : PlanNow(from)' = PlanNow(from)
  BY <1>1 DEF instance, Active, Loaded, PlanNow
<1>3. /\ AttemptedInOrder(n)' /\ AcceptedEnded(n)' /\ (~Active => Over(n))'
  BY <1>1, <1>2
    DEF RunInv, AttemptedInOrder, AcceptedEnded, Over, Ended, VerifySettled, SettledPrelaunch, Reserved, HasJob
<1>4. CASE Poll(n) \/ WorkerCancelled(n)
  <2>1. /\ host[n] \in {"claimed", "polled"} /\ host'[n] \in {"polled", "answering"}
        /\ UNCHANGED lock
    BY <1>1, <1>4 DEF Poll, WorkerCancelled, Reports, Goes
  <2>2. StartIsApproved(n)' /\ WorkerOwns(n)' /\ ReservedInOrder(n)' /\ GroupIsOfLaunch(n)'
    BY <1>1, <1>2, <2>1
      DEF RunInv, StartIsApproved, WorkerOwns, ReservedInOrder, GroupIsOfLaunch, Reserved, HasJob
  <2> QED
    BY <1>3, <2>2 DEF RunInv
<1>5. CASE WorkerStarts(n)
  <2>1. CASE host'[n] = "answering"
    <3>1. host[n] = "polled"
      BY <1>5 DEF WorkerStarts
    <3> QED
      BY <1>1, <1>2, <1>3, <2>1, <3>1
        DEF RunInv, StartIsApproved, WorkerOwns, ReservedInOrder, GroupIsOfLaunch, Reserved, HasJob
  <2>2. CASE host'[n] # "answering"
    <3>1. /\ host[n] = "polled" /\ host'[n] = "starting" /\ lock' = "held" /\ Active
          /\ runs[n].request = PlanNow(runs[n].request.from) /\ runs[n].reached = "none"
      BY <1>1, <1>5, <2>2 DEF WorkerStarts, Goes, Reports, Unstarted
    <3>2. /\ runs[n].owner = "claimed" /\ runs[n].completion = None
          /\ runs[n].request \in Plan /\ runs[n].request = runs[n].preview
          /\ runs[n].start = None /\ runs[n].result = None /\ group[n] = "none"
      BY <1>1, <3>1 DEF RunInv, WorkerOwns, ReservedInOrder, AttemptedInOrder, GroupIsOfLaunch, Typed
    <3>3. StartIsApproved(n)' /\ WorkerOwns(n)' /\ ReservedInOrder(n)' /\ GroupIsOfLaunch(n)'
      BY <1>1, <1>2, <3>1, <3>2
        DEF RunInv, StartIsApproved, WorkerOwns, ReservedInOrder, GroupIsOfLaunch, Reserved
    <3> QED
      BY <1>3, <3>3 DEF RunInv
  <2> QED
    BY <2>1, <2>2
<1>6. CASE WorkerDies(n)
  <2>1. host[n] \in {"claimed", "polled", "answering"} /\ host'[n] = "idle" /\ UNCHANGED lock
    BY <1>1, <1>6 DEF WorkerDies, Goes
  <2>2. StartIsApproved(n)' /\ WorkerOwns(n)' /\ ReservedInOrder(n)' /\ GroupIsOfLaunch(n)'
    BY <1>1, <1>2, <2>1
      DEF RunInv, StartIsApproved, WorkerOwns, ReservedInOrder, GroupIsOfLaunch, Reserved, HasJob
  <2> QED
    BY <1>3, <2>2 DEF RunInv
<1>7. CASE StartDirect(n)
  <2>1. /\ host'[n] = "starting" /\ lock' = "held" /\ Active /\ n \notin Routed /\ ~Reserved(n)
        /\ runs[n].preview \in Plan /\ runs[n].preview = PlanNow(runs[n].preview.from)
        /\ runs[n].reached = "none"
    BY <1>1, <1>7 DEF StartDirect, Goes, Unstarted, Typed
  <2>2. /\ runs[n].owner = "none" /\ runs[n].completion = None
        /\ runs[n].start = None /\ runs[n].result = None /\ group[n] = "none"
    BY <1>1, <2>1 DEF RunInv, ReservedInOrder, AttemptedInOrder, GroupIsOfLaunch, Reserved
  <2>3. StartIsApproved(n)' /\ WorkerOwns(n)' /\ ReservedInOrder(n)' /\ GroupIsOfLaunch(n)'
    BY <1>1, <1>2, <2>1, <2>2
      DEF RunInv, StartIsApproved, WorkerOwns, ReservedInOrder, GroupIsOfLaunch, Reserved
  <2> QED
    BY <1>3, <2>3 DEF RunInv
<1> QED
  BY <1>4, <1>5, <1>6, <1>7

\* The steps of an attempt, each after the one before it.
LEMMA AttemptKeeps ==
  ASSUME TypeOK, NEW n \in Run, RunInv(n),
         Attempt(n) \/ StartFails(n) \/ StartDies(n) \/ OrphanEnds(n)
  PROVE  RunInv(n)'
<1> USE MarksAreOwn
<1>1. /\ Typed(n) /\ runs \in [Run -> Files] /\ UNCHANGED instance
      /\ host \in [Run -> {"idle", "claimed", "polled", "starting", "answering"}]
      /\ group \in [Run -> {"none", "running", "orphan", "gone"}]
  BY RunIsTyped DEF TypeOK, Attempt, Acquire, WriteStart, CancelGap, MakeJob, NotStarted, Fence,
    Refused, Launchable, Launch, Reap, Record, StartFails, StartDies, OrphanEnds, Starting, Reach
<1>2. UNCHANGED <<Active, Routed>> /\ \A from : PlanNow(from)' = PlanNow(from)
  BY <1>1 DEF instance, Active, Loaded, PlanNow
<1>3. ASSUME host[n] = "starting"
      PROVE  /\ Active /\ lock = "held"
             /\ runs[n].preview \in Plan /\ runs[n].preview = PlanNow(runs[n].preview.from)
             /\ n \in Routed \/ Reserved(n) => runs[n].owner = "claimed"
             /\ runs[n].result = None /\ runs[n].completion = None /\ runs[n].accepted = "no"
             /\ runs[n].start # None => runs[n].start = runs[n].preview
  <2>1. None \notin Confirmed
    BY DEF Answer, Receipt
  <2> QED
    BY <1>1, <1>3, <2>1 DEF RunInv, StartIsApproved, AcceptedEnded, Ended
\* The lock is held on, and the attempt goes on.
<1>4. ASSUME host[n] = "starting", UNCHANGED <<lock, host>>, UNCHANGED runs[n].preview,
             UNCHANGED runs[n].request, UNCHANGED runs[n].owner, UNCHANGED runs[n].completion,
             UNCHANGED runs[n].result, UNCHANGED runs[n].accepted,
             runs'[n].start # None => runs'[n].start = runs[n].preview
      PROVE  /\ StartIsApproved(n)' /\ WorkerOwns(n)' /\ ReservedInOrder(n)' /\ AcceptedEnded(n)'
             /\ (~Active => Over(n))'
  BY <1>1, <1>2, <1>3, <1>4
    DEF RunInv, StartIsApproved, WorkerOwns, ReservedInOrder, AcceptedEnded, Reserved
<1>5. ASSUME Acquire(n) \/ MakeJob(n) \/ Fence(n) PROVE RunInv(n)'
  <2>1. PICK from, to :
          /\ <<from, to>> \in {<<"none", "claims">>, <<"start", "job">>, <<"job", "launch">>}
          /\ host[n] = "starting" /\ runs[n].reached = from /\ Put(n, "reached", to)
          /\ UNCHANGED <<lock, host, group>>
          /\ Fits("reached", to)
    BY <1>5 DEF Acquire, MakeJob, Fence, Reach, Starting, Fits
  <2>2. AllBut(n, "reached") /\ runs'[n]["reached"] = to
    BY <1>1, <2>1, PutOne
  <2>3. AttemptedInOrder(n)' /\ GroupIsOfLaunch(n)'
    BY <1>1, <2>1, <2>2 DEF AllBut, Kept, RunInv, AttemptedInOrder, GroupIsOfLaunch, HasJob, Typed
  <2> QED
    BY <1>3, <1>4, <2>1, <2>2, <2>3 DEF AllBut, Kept, RunInv
<1>6. ASSUME WriteStart(n) PROVE RunInv(n)'
  <2>1. /\ host[n] = "starting" /\ UNCHANGED <<lock, host, group>>
        /\ runs' = [runs EXCEPT ![n].reached = "start", ![n].start = PlanNow(runs[n].preview.from)]
        /\ runs[n].reached \in {"none", "claims"}
    BY <1>6 DEF WriteStart, Starting
  <2>2. runs[n].preview = PlanNow(runs[n].preview.from) /\ runs[n].preview \in Plan
    BY <1>3, <2>1
  <2>3. /\ runs'[n].reached = "start" /\ runs'[n].start = runs[n].preview
        /\ UNCHANGED runs[n].preview /\ UNCHANGED runs[n].request /\ UNCHANGED runs[n].owner
        /\ UNCHANGED runs[n].completion /\ UNCHANGED runs[n].result /\ UNCHANGED runs[n].accepted
        /\ UNCHANGED runs[n].receipt
    <3>1. runs' = [runs EXCEPT ![n].reached = "start", ![n].start = runs[n].preview]
      BY <2>1, <2>2
    <3> QED
      BY <1>1, <2>2, <3>1, PutStart
  <2>4. AttemptedInOrder(n)' /\ GroupIsOfLaunch(n)'
    BY <1>1, <1>3, <2>1, <2>2, <2>3 DEF RunInv, AttemptedInOrder, GroupIsOfLaunch, HasJob, Typed
  <2> QED
    BY <1>4, <2>1, <2>3, <2>4 DEF RunInv
<1>7. CASE NotStarted(n) \/ Refused(n) \/ Reap(n)
  <2>1. PICK receipt \in Receipt :
          /\ Put(n, "receipt", receipt) /\ UNCHANGED <<lock, host>>
          /\ \/ group[n] = "none" /\ UNCHANGED group
             \/ group[n] = "running" /\ group' = [group EXCEPT ![n] = "gone"]
             \/ group[n] = "running" /\ group' = [group EXCEPT ![n] = "orphan"] /\ receipt = "unconfirmed"
    BY <1>7 DEF NotStarted, Refused, Launchable, Reap, Receive, Receipt, Confirmed
  <2>2. AllBut(n, "receipt") /\ runs'[n]["receipt"] = receipt
    BY <1>1, <2>1, PutOne DEF Fits
  <2>3. host[n] = "starting" /\ HasJob(n)
    BY <1>7, <1>1 DEF NotStarted, Refused, Launchable, Reap, Starting, HasJob, RunInv, GroupIsOfLaunch
  <2>4. \/ group[n] = "none" /\ group'[n] = "none"
        \/ group[n] = "running" /\ group'[n] = "gone"
        \/ group[n] = "running" /\ group'[n] = "orphan" /\ receipt = "unconfirmed"
    BY <1>1, <2>1
  <2>5. AttemptedInOrder(n)' /\ GroupIsOfLaunch(n)'
    BY <1>1, <2>2, <2>3, <2>4 DEF AllBut, Kept, RunInv, AttemptedInOrder, GroupIsOfLaunch, HasJob, Typed
  <2> QED
    BY <1>3, <1>4, <2>1, <2>2, <2>3, <2>5 DEF AllBut, Kept, RunInv
<1>8. CASE Launch(n)
  <2>1. /\ host[n] = "starting" /\ runs[n].reached = "launch" /\ runs[n].receipt = None
        /\ group'[n] = "running" /\ UNCHANGED <<lock, host, runs>>
    BY <1>1, <1>8 DEF Launch, Launchable, Starting
  <2>2. AttemptedInOrder(n)' /\ GroupIsOfLaunch(n)'
    BY <1>1, <2>1 DEF RunInv, AttemptedInOrder, GroupIsOfLaunch, HasJob
  <2> QED
    BY <1>3, <1>4, <2>1, <2>2 DEF RunInv
\* The lock is let go: of the files, none or the result was written.
<1>9. ASSUME NEW result, host[n] = "starting", UNCHANGED group[n],
             AllBut(n, "result"), runs'[n].result = result, result # None => runs[n].start # None,
             group[n] # "running", host'[n] = IF Reserved(n) THEN "answering" ELSE "idle"
      PROVE  RunInv(n)'
  <2>1. StartIsApproved(n)' /\ WorkerOwns(n)' /\ ReservedInOrder(n)'
    BY <1>1, <1>3, <1>9 DEF AllBut, Kept, RunInv, StartIsApproved, WorkerOwns, ReservedInOrder, Reserved, Typed
  <2>2. AttemptedInOrder(n)' /\ GroupIsOfLaunch(n)'
    BY <1>1, <1>9 DEF AllBut, Kept, RunInv, AttemptedInOrder, GroupIsOfLaunch, HasJob, Typed
  <2>3. AcceptedEnded(n)' /\ (~Active => Over(n))'
    BY <1>1, <1>2, <1>3, <1>9 DEF AllBut, Kept, AcceptedEnded
  <2> QED
    BY <2>1, <2>2, <2>3 DEF RunInv
<1>10. ASSUME NEW what, EndStart(n, what)
       PROVE  host'[n] = IF Reserved(n) THEN "answering" ELSE "idle"
  BY <1>1, <1>10 DEF EndStart, Reports, Goes
<1>11. CASE CancelGap(n) \/ Record(n) \/ StartFails(n)
  <2>1. /\ host[n] = "starting" /\ UNCHANGED group
        /\ group[n] # "running"
        /\ host'[n] = IF Reserved(n) THEN "answering" ELSE "idle"
    BY <1>1, <1>10, <1>11 DEF CancelGap, Record, StartFails, Starting, RunInv, GroupIsOfLaunch
  <2>2. \/ UNCHANGED runs
        \/ \E result \in Receipt \cup {"unlaunched", Torn} :
             Put(n, "result", result) /\ runs[n].start # None
    BY <1>1, <1>11 DEF CancelGap, Record, StartFails, RunInv, AttemptedInOrder, HasJob, Typed
  <2>3. AllBut(n, "result") /\ (runs'[n].result # None => runs[n].start # None)
    <3>1. CASE UNCHANGED runs
      BY <1>3, <2>1, <3>1 DEF AllBut, Kept
    <3>2. ASSUME NEW result \in Receipt \cup {"unlaunched", Torn}, Put(n, "result", result)
          PROVE  AllBut(n, "result")
      BY <1>1, <3>2, PutOne DEF Fits
    <3> QED
      BY <2>2, <3>1, <3>2
  <2> QED
    BY <1>9, <2>1, <2>3
<1>12. CASE StartDies(n)
  <2>1. /\ host[n] = "starting" /\ host'[n] = "idle" /\ UNCHANGED runs
        /\ group'[n] = IF group[n] = "running" THEN "orphan" ELSE group[n]
    BY <1>1, <1>12 DEF StartDies, Starting, Goes
  <2>2. StartIsApproved(n)' /\ WorkerOwns(n)' /\ ReservedInOrder(n)'
    BY <1>1, <1>3, <2>1 DEF RunInv, StartIsApproved, WorkerOwns, ReservedInOrder, Reserved, Typed
  <2>3. AttemptedInOrder(n)' /\ GroupIsOfLaunch(n)'
    BY <1>1, <2>1 DEF RunInv, AttemptedInOrder, GroupIsOfLaunch, HasJob, Typed
  <2>4. AcceptedEnded(n)' /\ (~Active => Over(n))'
    BY <1>2, <1>3, <2>1 DEF AcceptedEnded
  <2> QED
    BY <2>2, <2>3, <2>4 DEF RunInv
<1>13. CASE OrphanEnds(n)
  <2>1. group[n] = "orphan" /\ group'[n] = "gone" /\ UNCHANGED <<lock, runs, host>>
    BY <1>1, <1>13 DEF OrphanEnds
  <2>2. StartIsApproved(n)' /\ WorkerOwns(n)' /\ ReservedInOrder(n)' /\ AttemptedInOrder(n)'
    BY <1>1, <1>2, <2>1
      DEF RunInv, StartIsApproved, WorkerOwns, ReservedInOrder, AttemptedInOrder, Reserved, HasJob
  <2>3. GroupIsOfLaunch(n)'
    BY <2>1 DEF RunInv, GroupIsOfLaunch
  <2>4. AcceptedEnded(n)' /\ (~Active => Over(n))'
    BY <1>2, <2>1
      DEF RunInv, AcceptedEnded, Over, Ended, VerifySettled, SettledPrelaunch, Reserved, HasJob
  <2> QED
    BY <2>2, <2>3, <2>4 DEF RunInv
<1> QED
  BY <1>5, <1>6, <1>7, <1>8, <1>11, <1>12, <1>13 DEF Attempt

\* Records of an attempt that is over.
LEMMA RecordsKeep ==
  ASSUME TypeOK, NEW n \in Run, RunInv(n),
         ReconcileRun(n) \/ Accept(n) \/ ReconcileAccept(n) \/ Reclaim(n)
  PROVE  RunInv(n)'
<1> USE MarksAreOwn
<1>1. /\ Typed(n) /\ runs \in [Run -> Files] /\ UNCHANGED <<instance, host, group>>
      /\ lock = "free"
  BY RunIsTyped
    DEF TypeOK, ReconcileRun, Accept, ReconcileAccept, Reclaim, processes, Free
<1>2. UNCHANGED <<Active, Routed>> /\ \A from : PlanNow(from)' = PlanNow(from)
  BY <1>1 DEF instance, Active, Loaded, PlanNow
<1>3. host[n] # "starting"
  BY <1>1 DEF RunInv, StartIsApproved
<1>4. CASE ReconcileRun(n)
  <2>1. /\ Put(n, "result", runs[n].receipt) /\ runs[n].receipt \in {"succeeded", "failed"}
        /\ runs[n].start # None /\ runs[n].result = None
        /\ n \in Routed => runs[n].owner = "claimed" /\ runs[n].completion = runs[n].receipt
    BY <1>4 DEF ReconcileRun, VerifySettled
  <2>2. AllBut(n, "result") /\ runs'[n]["result"] = runs[n].receipt
    BY <1>1, <2>1, PutOne DEF Fits, Receipt, Confirmed
  <2>3. StartIsApproved(n)' /\ WorkerOwns(n)' /\ ReservedInOrder(n)'
    BY <1>1, <1>3, <2>2 DEF AllBut, Kept, RunInv, StartIsApproved, WorkerOwns, ReservedInOrder, Reserved
  <2>4. AttemptedInOrder(n)' /\ GroupIsOfLaunch(n)'
    BY <1>1, <2>1, <2>2 DEF AllBut, Kept, RunInv, AttemptedInOrder, GroupIsOfLaunch, HasJob
  <2>5. Ended(n)' /\ HasJob(n)' /\ runs[n].accepted = "no"
    <3>0. runs[n].receipt # None
      BY <2>1 DEF Answer, Receipt, Confirmed
    <3>1. Ended(n)' /\ HasJob(n)'
      BY <1>1, <2>1, <2>2, <3>0
        DEF AllBut, Kept, Ended, VerifySettled, Confirmed, RunInv, AttemptedInOrder, HasJob
    <3>2. None \notin Confirmed
      BY DEF Answer, Receipt
    <3> QED
      BY <2>1, <3>1, <3>2 DEF RunInv, AcceptedEnded, Ended
  <2> QED
    BY <2>2, <2>3, <2>4, <2>5 DEF AllBut, Kept, RunInv, AcceptedEnded, Over
<1>5. CASE Accept(n) \/ ReconcileAccept(n) \/ Reclaim(n)
  <2>1. PICK field \in {"accepted", "reclaimed"}, value \in Custody : Put(n, field, value)
    BY <1>5 DEF Accept, ReconcileAccept, Reclaim, Advances, Custody
  <2>2. AllBut(n, field)
    BY <1>1, <2>1, PutOne DEF Fits
  <2>3. /\ \A f \in {"preview", "request", "owner", "completion", "start", "result"} : f # field
        /\ \A f \in {"receipt", "reached"} : f # field
    BY <2>1
  <2>4. /\ UNCHANGED runs[n].preview /\ UNCHANGED runs[n].request /\ UNCHANGED runs[n].owner
        /\ UNCHANGED runs[n].completion /\ UNCHANGED runs[n].reached /\ UNCHANGED runs[n].start
        /\ UNCHANGED runs[n].result /\ UNCHANGED runs[n].receipt
    BY <2>2, <2>3 DEF AllBut, Kept
  <2>5. StartIsApproved(n)' /\ WorkerOwns(n)' /\ ReservedInOrder(n)'
    BY <1>1, <1>3, <2>4 DEF RunInv, StartIsApproved, WorkerOwns, ReservedInOrder, Reserved
  <2>6. AttemptedInOrder(n)' /\ GroupIsOfLaunch(n)'
    BY <1>1, <2>4 DEF RunInv, AttemptedInOrder, GroupIsOfLaunch, HasJob
  <2>7. Ended(n)' <=> Ended(n)
    BY <2>4 DEF Ended, VerifySettled
  <2>8. (~Active => Over(n))'
    BY <1>2, <2>4, <2>7 DEF RunInv, Over, SettledPrelaunch, HasJob, Reserved
  <2>9. AcceptedEnded(n)'
    <3>1. CASE Accept(n)
      <4>1. Ended(n) /\ runs[n].result = "succeeded"
        BY <3>1 DEF Accept, Settled, Ended
      <4> QED
        BY <2>4, <2>7, <4>1 DEF AcceptedEnded
    <3>2. CASE ReconcileAccept(n)
      <4>1. runs[n].accepted # "no"
        BY <3>2 DEF ReconcileAccept
      <4> QED
        BY <2>4, <2>7, <4>1 DEF RunInv, AcceptedEnded
    <3>3. CASE Reclaim(n)
      <4>1. PICK reached \in Custody : Put(n, "reclaimed", reached)
        BY <3>3 DEF Reclaim, Advances, Custody
      <4>2. AllBut(n, "reclaimed")
        BY <1>1, <4>1, PutOne DEF Fits
      <4>3. UNCHANGED runs[n].accepted
        BY <4>2 DEF AllBut, Kept
      <4> QED
        BY <2>4, <2>7, <4>3 DEF RunInv, AcceptedEnded
    <3> QED
      BY <1>5, <3>1, <3>2, <3>3
  <2> QED
    BY <2>5, <2>6, <2>8, <2>9 DEF RunInv
<1> QED
  BY <1>4, <1>5

\* What closes a round proves every run to be over.
LEMMA SettledIsOver ==
  ASSUME NEW n \in Run, SettledRun(n)
  PROVE  Over(n)
BY DEF SettledRun, Over, Settled, Ended

\* The operations on the whole instance wait for the lock.
LEMMA InstanceKeeps ==
  ASSUME NEW n \in Run, RunInv(n), Free, UNCHANGED <<runs, host, group>>,
         (~Active)' => ~Active \/ SettledRun(n)
  PROVE  RunInv(n)'
<1>1. host[n] # "starting"
  BY DEF RunInv, StartIsApproved, Free
<1>2. StartIsApproved(n)' /\ WorkerOwns(n)' /\ ReservedInOrder(n)' /\ AttemptedInOrder(n)' /\ GroupIsOfLaunch(n)'
  BY <1>1
    DEF RunInv, StartIsApproved, WorkerOwns, ReservedInOrder, AttemptedInOrder, GroupIsOfLaunch, Reserved, HasJob
<1>3. /\ Over(n)' <=> Over(n)
      /\ AcceptedEnded(n)'
  BY DEF RunInv, AcceptedEnded, Over, Ended, VerifySettled, SettledPrelaunch, Reserved, HasJob
<1> QED
  BY <1>2, <1>3, SettledIsOver DEF RunInv

\* A step of the files or processes of one run.
OfRun(n) ==
  \/ \E from \in Revision \cup {None} : Preview(n, from)
  \/ Reserve(n) \/ CancelSupervised(n) \/ Claim(n) \/ Completion(n)
  \/ Poll(n) \/ WorkerCancelled(n) \/ WorkerStarts(n) \/ WorkerDies(n) \/ StartDirect(n)
  \/ Attempt(n) \/ StartFails(n) \/ StartDies(n) \/ OrphanEnds(n)
  \/ ReconcileRun(n) \/ Accept(n) \/ ReconcileAccept(n) \/ Reclaim(n)

LEMMA OfRunKeepsInstance ==
  ASSUME NEW n, OfRun(n)
  PROVE  UNCHANGED instance
BY DEF OfRun, Preview, Reserve, CancelSupervised, Claim, Completion, Poll, WorkerCancelled,
  WorkerStarts, WorkerDies, StartDirect, Attempt, Acquire, WriteStart, CancelGap, MakeJob,
  NotStarted, Fence, Refused, Launchable, Launch, Reap, Record, Reach, StartFails, StartDies, OrphanEnds,
  Starting, ReconcileRun, Accept, ReconcileAccept, Reclaim

\* It shows in no other.
LEMMA OthersApart ==
  ASSUME TypeOK, NEW n \in Run, NEW m \in Run, m # n, OfRun(n)
  PROVE  UNCHANGED <<runs[m], host[m], group[m], instance>>
<1> USE DEF OfRun
<1>1. /\ runs \in [Run -> Files]
      /\ host \in [Run -> {"idle", "claimed", "polled", "starting", "answering"}]
      /\ group \in [Run -> {"none", "running", "orphan", "gone"}]
  BY DEF TypeOK
<1>2. ASSUME NEW field, NEW value, Put(n, field, value) PROVE UNCHANGED runs[m]
  BY <1>1, <1>2 DEF Put
<1>3. ASSUME NEW phase, Goes(n, phase) PROVE UNCHANGED host[m]
  BY <1>1, <1>3 DEF Goes
<1>4. ASSUME NEW what, EndStart(n, what) PROVE UNCHANGED host[m]
  BY <1>1, <1>3, <1>4 DEF EndStart, Reports
<1>5. UNCHANGED runs[m]
  <2>1. CASE WriteStart(n)
    BY <1>1, <2>1 DEF WriteStart
  <2>2. CASE (\E from \in Revision \cup {None} : Preview(n, from)) \/ Reserve(n)
             \/ CancelSupervised(n) \/ Claim(n) \/ Completion(n)
    BY <1>2, <2>2 DEF Preview, Reserve, CancelSupervised, Claim, Completion
  <2>3. CASE Acquire(n) \/ CancelGap(n) \/ MakeJob(n) \/ NotStarted(n) \/ Fence(n) \/ Refused(n)
             \/ Reap(n) \/ Record(n) \/ StartFails(n)
    BY <1>2, <2>3
      DEF Acquire, CancelGap, MakeJob, NotStarted, Fence, Refused, Reap, Record, StartFails, Receive, Reach
  <2>4. CASE ReconcileRun(n) \/ Accept(n) \/ ReconcileAccept(n) \/ Reclaim(n)
    BY <1>2, <2>4 DEF ReconcileRun, Accept, ReconcileAccept, Reclaim, Advances
  <2>5. CASE Poll(n) \/ WorkerCancelled(n) \/ WorkerStarts(n) \/ WorkerDies(n) \/ StartDirect(n)
             \/ Launch(n) \/ StartDies(n) \/ OrphanEnds(n)
    BY <2>5 DEF Poll, WorkerCancelled, WorkerStarts, WorkerDies, StartDirect, Launch, StartDies, OrphanEnds
  <2> QED
    BY <2>1, <2>2, <2>3, <2>4, <2>5 DEF Attempt
<1>6. UNCHANGED group[m]
  <2>1. CASE (\E from \in Revision \cup {None} : Preview(n, from)) \/ Reserve(n)
             \/ CancelSupervised(n) \/ Claim(n) \/ Completion(n)
    BY <2>1 DEF Preview, Reserve, CancelSupervised, Claim, Completion, processes
  <2>2. CASE Poll(n) \/ WorkerCancelled(n) \/ WorkerStarts(n) \/ WorkerDies(n) \/ StartDirect(n)
    BY <2>2 DEF Poll, WorkerCancelled, WorkerStarts, WorkerDies, StartDirect
  <2>3. CASE Attempt(n) \/ StartFails(n) \/ StartDies(n) \/ OrphanEnds(n)
    BY <1>1, <2>3 DEF Attempt, Acquire, WriteStart, CancelGap, MakeJob, NotStarted, Fence,
      Refused, Launch, Reap, Record, Reach, StartFails, StartDies, OrphanEnds
  <2>4. CASE ReconcileRun(n) \/ Accept(n) \/ ReconcileAccept(n) \/ Reclaim(n)
    BY <2>4 DEF ReconcileRun, Accept, ReconcileAccept, Reclaim, processes
  <2> QED
    BY <2>1, <2>2, <2>3, <2>4
<1>7. UNCHANGED host[m]
  <2>1. CASE (\E from \in Revision \cup {None} : Preview(n, from)) \/ Reserve(n) \/ CancelSupervised(n)
             \/ ReconcileRun(n) \/ Accept(n) \/ ReconcileAccept(n) \/ Reclaim(n)
    BY <2>1 DEF Preview, Reserve, CancelSupervised, ReconcileRun, Accept, ReconcileAccept, Reclaim, processes
  <2>2. CASE Claim(n) \/ Completion(n) \/ Poll(n) \/ WorkerCancelled(n) \/ WorkerStarts(n)
             \/ WorkerDies(n) \/ StartDirect(n) \/ StartDies(n)
    BY <1>3, <2>2 DEF Claim, Completion, Poll, WorkerCancelled, WorkerStarts, WorkerDies,
      StartDirect, StartDies, Reports
  <2>3. CASE Attempt(n) \/ StartFails(n) \/ OrphanEnds(n)
    BY <1>4, <2>3 DEF Attempt, Acquire, WriteStart, CancelGap, MakeJob, NotStarted, Fence,
      Refused, Launch, Reap, Record, Reach, Receive, StartFails, OrphanEnds
  <2> QED
    BY <2>1, <2>2, <2>3
<1>8. UNCHANGED instance
  BY OfRunKeepsInstance
<1> QED
  BY <1>5, <1>6, <1>7, <1>8

LEMMA RunSteps ==
  ASSUME TypeOK, OneStart, \A m \in Run : RunInv(m), NEW n \in Run, NEW m \in Run, OfRun(n)
  PROVE  RunInv(m)'
<1>1. CASE m = n
  BY <1>1, SupervisorKeeps, WorkerKeeps, AttemptKeeps, RecordsKeep DEF OfRun
<1>2. CASE m # n
  <2>1. host[m] = "starting" => UNCHANGED lock
    <3>1. SUFFICES ASSUME host[m] = "starting" PROVE UNCHANGED lock
      OBVIOUS
    <3>2. lock = "held" /\ host[n] # "starting"
      BY <1>2, <3>1 DEF RunInv, StartIsApproved, OneStart
    <3> QED
      BY <3>2 DEF OfRun, Preview, Reserve, CancelSupervised, Claim, Completion, Poll, WorkerCancelled,
        WorkerStarts, WorkerDies, StartDirect, Attempt, Acquire, WriteStart, CancelGap, MakeJob,
        NotStarted, Fence, Refused, Launchable, Launch, Reap, Record, Reach, StartFails, StartDies, OrphanEnds,
        Starting, ReconcileRun, Accept, ReconcileAccept, Reclaim, Free
  <2> QED
    BY <1>2, <2>1, OthersApart, OthersStay
<1> QED
  BY <1>1, <1>2

----------------------------------------------------------------------------
(* The rounds and the state over all runs *)

\* A step that writes a name of the plan: the next state of the whole.
LEMMA StepKinds ==
  ASSUME [Next]_vars
  PROVE  \/ \E n \in Run : OfRun(n)
         \/ HostDies \/ RemoveStaleLock \/ Unload \/ UNCHANGED vars
         \/ \E n \in Run : \E expected \in Revision : Commit(n, expected)
         \/ \E mode \in Mode : Transition(mode)
         \/ \E content \in Kit : UpdateKit(content)
BY DEF Next, OfRun

\* What is accepted keeps what it read and its result.
LEMMA AcceptedStays ==
  ASSUME TypeOK, NEW n \in Run, RunInv(n), OfRun(n), runs[n].accepted = "bound"
  PROVE  UNCHANGED runs[n].start /\ UNCHANGED runs[n].result /\ UNCHANGED runs[n].accepted
<1> USE MarksAreOwn
<1>1. /\ runs \in [Run -> Files] /\ Typed(n)
      /\ None \notin Confirmed
  BY RunIsTyped DEF TypeOK, Answer, Receipt
<1>2. host[n] # "starting" /\ runs[n].result # None
  BY <1>1 DEF RunInv, AcceptedEnded, Ended, StartIsApproved
<1>3. ASSUME NEW field, NEW value, Put(n, field, value), Fits(field, value),
             field \notin {"start", "result", "accepted"}
      PROVE  UNCHANGED runs[n].start /\ UNCHANGED runs[n].result /\ UNCHANGED runs[n].accepted
  BY <1>1, <1>3, PutOne DEF AllBut, Kept
<1>4. CASE \E from \in Revision \cup {None} : Preview(n, from)
  BY <1>3, <1>4, PlanNowIsPlan DEF Preview, Fits
<1>5. CASE Reserve(n)
  BY <1>1, <1>3, <1>5 DEF Reserve, Fits, Typed
<1>6. CASE CancelSupervised(n) \/ Claim(n)
  BY <1>3, <1>6 DEF CancelSupervised, Claim, Fits
<1>7. CASE Completion(n)
  <2>1. PICK what \in Answer \cup {None, Torn} : Put(n, "completion", what)
    BY <1>7 DEF Completion, TypeOK
  <2> QED
    BY <1>3, <2>1 DEF Fits
<1>8. CASE Reclaim(n)
  BY <1>3, <1>8 DEF Reclaim, Advances, Fits, Custody
<1>9. CASE Poll(n) \/ WorkerCancelled(n) \/ WorkerStarts(n) \/ WorkerDies(n) \/ StartDirect(n) \/ OrphanEnds(n)
  BY <1>9 DEF Poll, WorkerCancelled, WorkerStarts, WorkerDies, StartDirect, OrphanEnds
<1>10. ~Attempt(n) /\ ~StartFails(n) /\ ~StartDies(n)
  BY <1>2 DEF Attempt, Acquire, WriteStart, CancelGap, MakeJob, NotStarted, Fence,
    Refused, Launchable, Launch, Reap, Record, Reach, StartFails, StartDies, Starting
<1>11. ~ReconcileRun(n) /\ ~Accept(n) /\ ~ReconcileAccept(n)
  BY <1>2 DEF ReconcileRun, Accept, ReconcileAccept
<1> QED
  BY <1>4, <1>5, <1>6, <1>7, <1>8, <1>9, <1>10, <1>11 DEF OfRun

\* What a closed round pins of a run stays.
LEMMA EvidenceStays ==
  ASSUME TypeOK, NEW n \in Run, RunInv(n), OfRun(n), ~Active
  PROVE  UNCHANGED Evidence(n)
<1> USE MarksAreOwn
<1>1. /\ runs \in [Run -> Files] /\ Typed(n)
      /\ None \notin Confirmed
  BY RunIsTyped DEF TypeOK, Answer, Receipt
<1>2. host[n] # "starting"
  BY DEF RunInv, StartIsApproved
<1>3. ASSUME NEW field, NEW value, Put(n, field, value), Fits(field, value),
             field \notin {"request", "reached", "result"}
      PROVE  UNCHANGED Evidence(n)
  BY <1>1, <1>3, PutOne DEF AllBut, Kept, Evidence, HasJob, Reserved
<1>4. CASE CancelSupervised(n) \/ Claim(n)
  BY <1>3, <1>4 DEF CancelSupervised, Claim, Fits
<1>5. CASE Completion(n)
  <2>1. PICK what \in Answer \cup {None, Torn} : Put(n, "completion", what)
    BY <1>5 DEF Completion, TypeOK
  <2> QED
    BY <1>3, <2>1 DEF Fits
<1>6. CASE Accept(n) \/ ReconcileAccept(n) \/ Reclaim(n)
  BY <1>3, <1>6 DEF Accept, ReconcileAccept, Reclaim, Advances, Fits, Custody
<1>7. CASE Poll(n) \/ WorkerCancelled(n) \/ WorkerStarts(n) \/ WorkerDies(n) \/ OrphanEnds(n)
  BY <1>7 DEF Poll, WorkerCancelled, WorkerStarts, WorkerDies, OrphanEnds, Evidence, HasJob, Reserved
<1>8. ~Attempt(n) /\ ~StartFails(n) /\ ~StartDies(n)
  BY <1>2 DEF Attempt, Acquire, WriteStart, CancelGap, MakeJob, NotStarted, Fence,
    Refused, Launchable, Launch, Reap, Record, Reach, StartFails, StartDies, Starting
<1>9. ~Reserve(n) /\ ~StartDirect(n) /\ \A from : ~Preview(n, from)
  BY DEF Reserve, StartDirect, Preview
<1>10. ~ReconcileRun(n)
  <2>1. "succeeded" # None /\ "failed" # None
    BY DEF Answer, Receipt, Confirmed
  <2> QED
    BY <1>1, <2>1 DEF ReconcileRun, RunInv, Over, Ended, AttemptedInOrder
<1> QED
  BY <1>4, <1>5, <1>6, <1>7, <1>8, <1>9, <1>10 DEF OfRun

\* The lock is what keeps a second start out.
LEMMA OneStartStep ==
  ASSUME TypeOK, OneStart, \A n \in Run : RunInv(n), [Next]_vars
  PROVE  OneStart'
<1>1. ASSUME NEW n \in Run, OfRun(n) PROVE OneStart'
  <2>1. host'[n] = "starting" => host[n] = "starting" \/ lock = "free"
    <3>1. host \in [Run -> {"idle", "claimed", "polled", "starting", "answering"}]
      BY DEF TypeOK
    <3>2. ASSUME NEW what, EndStart(n, what) PROVE host'[n] # "starting"
      BY <3>1, <3>2 DEF EndStart, Reports, Goes
    <3>3. CASE Attempt(n) \/ StartFails(n) \/ StartDies(n) \/ OrphanEnds(n)
      BY <3>3, <3>2 DEF Attempt, Acquire, WriteStart, CancelGap, MakeJob, NotStarted, Fence,
        Refused, Launchable, Launch, Reap, Record, Reach, StartFails, StartDies, OrphanEnds, Starting
    <3>4. CASE WorkerStarts(n) \/ StartDirect(n)
      BY <3>1, <3>4 DEF WorkerStarts, StartDirect, Reports, Goes, Free
    <3>5. CASE Claim(n) \/ Completion(n) \/ Poll(n) \/ WorkerCancelled(n) \/ WorkerDies(n)
      BY <3>1, <3>5 DEF Claim, Completion, Poll, WorkerCancelled, WorkerDies, Reports, Goes
    <3>6. CASE (\E from \in Revision \cup {None} : Preview(n, from)) \/ Reserve(n) \/ CancelSupervised(n)
               \/ ReconcileRun(n) \/ Accept(n) \/ ReconcileAccept(n) \/ Reclaim(n)
      BY <3>6 DEF Preview, Reserve, CancelSupervised, ReconcileRun, Accept, ReconcileAccept, Reclaim, processes
    <3> QED
      BY <1>1, <3>3, <3>4, <3>5, <3>6 DEF OfRun
  <2>2. \A m \in Run : m # n => host'[m] = host[m]
    BY <1>1, OthersApart
  <2>3. \A m \in Run : host[m] = "starting" => lock = "held"
    BY DEF RunInv, StartIsApproved
  <2> QED
    BY <2>1, <2>2, <2>3 DEF OneStart
<1>2. CASE UNCHANGED host
  BY <1>2 DEF OneStart
<1>3. HostDies \/ RemoveStaleLock \/ Unload \/ UNCHANGED vars => UNCHANGED host
  BY DEF HostDies, RemoveStaleLock, Unload, vars, processes
<1>4. /\ \A n, expected : Commit(n, expected) => UNCHANGED host
      /\ \A mode : Transition(mode) => UNCHANGED host
      /\ \A content : UpdateKit(content) => UNCHANGED host
  BY DEF Commit, Transition, UpdateKit, processes
<1> QED
  BY <1>1, <1>2, <1>3, <1>4, StepKinds

\* The runs, when the instance is changed and when it is not.
LEMMA RunInvStep ==
  ASSUME RunsInv, [Next]_vars, NEW n \in Run
  PROVE  RunInv(n)'
<1> USE DEF RunsInv
<1>1. ASSUME NEW m \in Run, OfRun(m) PROVE RunInv(n)'
  BY <1>1, RunSteps
<1>2. CASE HostDies \/ RemoveStaleLock \/ UNCHANGED vars
  <2>1. UNCHANGED <<runs, host, group, instance>> /\ (UNCHANGED lock \/ lock # "held")
    BY <1>2 DEF HostDies, RemoveStaleLock, vars, processes, Free
  <2>2. host[n] = "starting" => UNCHANGED lock
    BY <2>1 DEF RunInv, StartIsApproved
  <2> QED
    BY <2>1, <2>2, OthersStay
<1>3. CASE Unload
  <2>1. Free /\ UNCHANGED <<runs, host, group>> /\ SettledRun(n)
    BY <1>3 DEF Unload, processes
  <2> QED
    BY <2>1, InstanceKeeps
<1>4. ASSUME NEW mode \in Mode, Transition(mode) PROVE RunInv(n)'
  <2>1. Free /\ UNCHANGED <<runs, host, group>> /\ SettledRun(n)
    BY <1>4 DEF Transition, processes, CanSnapshot, CanClose
  <2> QED
    BY <2>1, InstanceKeeps
<1>5. ASSUME NEW content \in Kit, UpdateKit(content) PROVE RunInv(n)'
  <2>1. Free /\ UNCHANGED <<runs, host, group, control, unloaded>>
    BY <1>5 DEF UpdateKit, processes
  <2> QED
    BY <2>1, InstanceKeeps DEF Active, Loaded
<1>6. ASSUME NEW m \in Run, NEW expected \in Revision, Commit(m, expected) PROVE RunInv(n)'
  <2>1. Free /\ UNCHANGED <<runs, host, group, control, unloaded>>
    BY <1>6 DEF Commit, processes
  <2> QED
    BY <2>1, InstanceKeeps DEF Active, Loaded
<1> QED
  BY <1>1, <1>2, <1>3, <1>4, <1>5, <1>6, StepKinds

\* A history that holds a run twice would have read one state twice.
LEMMA HistoryFits ==
  ASSUME NEW past \in Seq(Run),
         \A i, j \in 1..Len(past) : past[i] = past[j] => i = j
  PROVE  Len(past) <= Cardinality(Run)
<1>1. /\ Len(past) \in Nat /\ DOMAIN past = 1..Len(past)
      /\ Cardinality(1..Len(past)) = Len(past)
  BY FS_Interval
<1>2. past \in Injection(1..Len(past), Run)
  <2>1. past \in [1..Len(past) -> Run]
    BY <1>1
  <2> QED
    BY <2>1 DEF Injection, IsInjective
<1>3. Cardinality(1..Len(past)) <= Cardinality(Run)
  BY <1>2, RunAssumption, FS_Injection
<1> QED
  BY <1>1, <1>3

LEMMA HistoryStep ==
  ASSUME RunsInv, [Next]_vars
  PROVE  history' \in Seq(Run) /\ Len(history') \in Revision /\ NoLostUpdate'
<1> USE DEF RunsInv
<1>1. history \in Seq(Run) /\ DOMAIN history = 1..Len(history) /\ Len(history) \in Nat
  BY DEF TypeOK
<1>2. ASSUME UNCHANGED history, \A i \in DOMAIN history :
               /\ UNCHANGED runs[history[i]].start /\ UNCHANGED runs[history[i]].result
               /\ UNCHANGED runs[history[i]].accepted
      PROVE  history' \in Seq(Run) /\ Len(history') \in Revision /\ NoLostUpdate'
  BY <1>2 DEF NoLostUpdate, TypeOK
<1>3. ASSUME NEW n \in Run, OfRun(n)
      PROVE  history' \in Seq(Run) /\ Len(history') \in Revision /\ NoLostUpdate'
  <2>1. ASSUME NEW m \in Run, runs[m].accepted = "bound"
        PROVE  UNCHANGED runs[m].start /\ UNCHANGED runs[m].result /\ UNCHANGED runs[m].accepted
    <3>1. CASE m = n
      BY <1>3, <2>1, <3>1, AcceptedStays
    <3>2. CASE m # n
      BY <1>3, <3>2, OthersApart
    <3> QED
      BY <3>1, <3>2
  <2>2. UNCHANGED history
    BY <1>3, OfRunKeepsInstance DEF instance
  <2> QED
    BY <1>1, <1>2, <2>1, <2>2 DEF NoLostUpdate
<1>4. UNCHANGED <<history, runs>> =>
        history' \in Seq(Run) /\ Len(history') \in Revision /\ NoLostUpdate'
  BY <1>1, <1>2
<1>5. ASSUME NEW n \in Run, NEW expected \in Revision, Commit(n, expected)
      PROVE  history' \in Seq(Run) /\ Len(history') \in Revision /\ NoLostUpdate'
  <2>1. /\ history' = Append(history, n) /\ UNCHANGED runs
        /\ runs[n].start.from = Len(history) /\ runs[n].accepted = "bound"
    BY <1>5 DEF Commit
  <2>2. runs[n].result = "succeeded"
    BY <2>1 DEF RunInv, AcceptedEnded
  <2>3. /\ history' \in Seq(Run) /\ Len(history') = Len(history) + 1
        /\ DOMAIN history' = 1..(Len(history) + 1)
        /\ history'[Len(history) + 1] = n
        /\ \A i \in 1..Len(history) : history'[i] = history[i]
    BY <1>1, <2>1
  <2>4. NoLostUpdate'
    <3>1. ASSUME NEW i \in 1..(Len(history) + 1)
          PROVE  /\ runs'[history'[i]].start.from = i - 1
                 /\ runs'[history'[i]].result = "succeeded" /\ runs'[history'[i]].accepted = "bound"
      <4>1. CASE i = Len(history) + 1
        BY <1>1, <2>1, <2>2, <2>3, <4>1
      <4>2. CASE i \in 1..Len(history)
        BY <1>1, <2>1, <2>3, <4>2 DEF NoLostUpdate
      <4> QED
        BY <1>1, <4>1, <4>2
    <3> QED
      BY <2>3, <3>1 DEF NoLostUpdate
  <2>5. Len(history') \in Revision
    <3>1. Len(history') <= Cardinality(Run)
      <4>1. \A i, j \in 1..Len(history') : history'[i] = history'[j] => i - 1 = j - 1
        BY <2>3, <2>4 DEF NoLostUpdate
      <4>2. \A i, j \in 1..Len(history') : history'[i] = history'[j] => i = j
        BY <1>1, <2>3, <4>1
      <4> QED
        BY <2>3, <4>2, HistoryFits
    <3> QED
      BY <1>1, <2>3, <3>1, RevisionIsNat
  <2> QED
    BY <2>3, <2>4, <2>5
<1>6. HostDies \/ RemoveStaleLock \/ Unload \/ UNCHANGED vars => UNCHANGED <<history, runs>>
  BY DEF HostDies, RemoveStaleLock, Unload, vars, instance
<1>7. /\ \A mode : Transition(mode) => UNCHANGED <<history, runs>>
      /\ \A content : UpdateKit(content) => UNCHANGED <<history, runs>>
  BY DEF Transition, UpdateKit
<1> QED
  BY <1>3, <1>4, <1>5, <1>6, <1>7, StepKinds

\* While a round is closed nothing that it pins is written.
LEMMA PinnedStep ==
  ASSUME RunsInv, [Next]_vars
  PROVE  Pinned'
<1> USE DEF RunsInv
<1> USE FrozenIs
<1>1. ASSUME UNCHANGED <<control, kit, history>>, control.mode # "active" => \A n \in Run : UNCHANGED Evidence(n)
      PROVE  Pinned'
  <2>1. SUFFICES ASSUME control.mode # "active" PROVE SnapshotNow' = SnapshotNow
    BY <1>1, <2>1 DEF Pinned
  <2>2. [n \in Run |-> Evidence(n)'] = [n \in Run |-> Evidence(n)]
    BY <1>1, <2>1
  <2> QED
    BY <1>1, <2>2 DEF SnapshotNow
<1>2. ASSUME NEW n \in Run, OfRun(n) PROVE Pinned'
  <2>1. UNCHANGED <<control, kit, history>>
    BY <1>2, OfRunKeepsInstance DEF instance
  <2>2. ASSUME NEW m \in Run, control.mode # "active" PROVE UNCHANGED Evidence(m)
    <3>1. CASE m = n
      BY <1>2, <2>2, <3>1, EvidenceStays DEF Active
    <3>2. CASE m # n
      <4>1. UNCHANGED runs[m]
        BY <1>2, <3>2, OthersApart
      <4> QED
        BY <4>1 DEF Evidence, HasJob, Reserved
    <3> QED
      BY <3>1, <3>2
  <2> QED
    BY <1>1, <2>1, <2>2
<1>3. UNCHANGED <<control, kit, history, runs>> => Pinned'
  <2>1. UNCHANGED runs => \A n \in Run : UNCHANGED Evidence(n)
    BY DEF Evidence, HasJob, Reserved
  <2> QED
    BY <1>1, <2>1
<1>4. HostDies \/ RemoveStaleLock \/ Unload \/ UNCHANGED vars => UNCHANGED <<control, kit, history, runs>>
  BY DEF HostDies, RemoveStaleLock, Unload, vars, instance
<1>5. ASSUME NEW mode \in Mode, Transition(mode) PROVE Pinned'
  <2>1. CASE UNCHANGED control
    BY <1>3, <1>5, <2>1 DEF Transition
  <2>2. CASE control' = [generation |-> control.generation + 1, mode |-> mode, snapshot |-> SnapshotNow]
    <3>1. UNCHANGED <<kit, history, runs>>
      BY <1>5 DEF Transition
    <3>2. SnapshotNow' = SnapshotNow
      <4>1. \A n \in Run : UNCHANGED Evidence(n)
        BY <3>1 DEF Evidence, HasJob, Reserved
      <4>2. [n \in Run |-> Evidence(n)'] = [n \in Run |-> Evidence(n)]
        BY <4>1
      <4> QED
        BY <3>1, <4>2 DEF SnapshotNow
    <3> QED
      BY <2>2, <3>2 DEF Pinned
  <2> QED
    BY <1>5, <2>1, <2>2 DEF Transition
<1>6. /\ \A n, expected : Commit(n, expected) => Active /\ UNCHANGED control
      /\ \A content : UpdateKit(content) => Active /\ UNCHANGED control
  BY DEF Commit, UpdateKit
<1>7. Active /\ UNCHANGED control => Pinned'
  BY DEF Active, Pinned
<1> QED
  BY <1>2, <1>3, <1>4, <1>5, <1>6, <1>7, StepKinds

\* A reclamation that was cut short in a closed round stays so.
LEMMA CutStays ==
  ASSUME TypeOK, NEW n \in Run, RunInv(n), OfRun(n), ~Active, runs[n].reclaimed = "intent"
  PROVE  runs'[n].reclaimed = "intent"
<1> USE MarksAreOwn
<1>1. runs \in [Run -> Files] /\ Typed(n)
  BY RunIsTyped DEF TypeOK
<1>2. host[n] # "starting" /\ "intent" # "no"
  BY DEF RunInv, StartIsApproved
<1>3. ASSUME NEW field, NEW value, Put(n, field, value), Fits(field, value), field # "reclaimed"
      PROVE  UNCHANGED runs[n].reclaimed
  BY <1>1, <1>3, PutOne DEF AllBut, Kept
<1>4. CASE CancelSupervised(n) \/ Claim(n)
  BY <1>3, <1>4 DEF CancelSupervised, Claim, Fits
<1>5. CASE Completion(n)
  <2>1. PICK what \in Answer \cup {None, Torn} : Put(n, "completion", what)
    BY <1>5 DEF Completion, TypeOK
  <2> QED
    BY <1>3, <2>1 DEF Fits
<1>6. CASE ReconcileAccept(n)
  BY <1>3, <1>6 DEF ReconcileAccept, Fits, Custody
<1>7. CASE Poll(n) \/ WorkerCancelled(n) \/ WorkerStarts(n) \/ WorkerDies(n) \/ OrphanEnds(n)
  BY <1>7 DEF Poll, WorkerCancelled, WorkerStarts, WorkerDies, OrphanEnds
<1>8. ~Attempt(n) /\ ~StartFails(n) /\ ~StartDies(n)
  BY <1>2 DEF Attempt, Acquire, WriteStart, CancelGap, MakeJob, NotStarted, Fence,
    Refused, Launchable, Launch, Reap, Record, Reach, StartFails, StartDies, Starting
<1>9. ~Reserve(n) /\ ~StartDirect(n) /\ \A from : ~Preview(n, from)
  BY DEF Reserve, StartDirect, Preview
<1>10. ~Accept(n) /\ ~Reclaim(n)
  BY <1>2 DEF Accept, Reclaim
<1>11. CASE ReconcileRun(n)
  BY <1>3, <1>11 DEF ReconcileRun, Fits, Receipt, Confirmed
<1> QED
  BY <1>4, <1>5, <1>6, <1>7, <1>8, <1>9, <1>10, <1>11 DEF OfRun

\* A run of a closed round that could pass its boundary can pass it again.
LEMMA ReopensStep ==
  ASSUME RunsInv, [Next]_vars
  PROVE  Reopens'
<1> SUFFICES ASSUME control'.mode # "active", NEW n \in Run, runs'[n].reclaimed # "intent"
             PROVE  CanClose(n)'
  BY DEF Reopens
<1> USE DEF RunsInv
<1>1. ASSUME UNCHANGED runs, CanClose(n) PROVE CanClose(n)'
  BY <1>1 DEF CanClose, SettledRun, Settled, SettledPrelaunch, Evidence, HasJob, Reserved, VerifySettled
<1>2. ASSUME NEW mode \in Mode, Transition(mode) PROVE CanClose(n)'
  BY <1>1, <1>2 DEF Transition, CanSnapshot, CanClose
<1>3. ASSUME control.mode # "active", UNCHANGED runs PROVE CanClose(n)'
  BY <1>1, <1>3, FrozenIs DEF Reopens
<1>4. HostDies \/ RemoveStaleLock \/ Unload \/ UNCHANGED vars => UNCHANGED <<control, runs>>
  BY DEF HostDies, RemoveStaleLock, Unload, vars, instance
<1>5. ASSUME NEW m \in Run, OfRun(m) PROVE CanClose(n)'
  <2>1. UNCHANGED control /\ control.mode # "active" /\ ~Active /\ ~Active'
    BY <1>5, OfRunKeepsInstance DEF instance, Active
  <2>2. CASE m # n
    <3>1. UNCHANGED runs[n]
      BY <1>5, <2>2, OthersApart
    <3> QED
      BY <2>1, <3>1, FrozenIs DEF Reopens, CanClose, SettledRun, Settled, SettledPrelaunch, Evidence, HasJob,
        Reserved, VerifySettled
  <2>3. CASE m = n
    <3>1. runs[n].reclaimed # "intent"
      BY <1>5, <2>1, <2>3, CutStays
    <3>2. CanClose(n)
      BY <2>1, <3>1, FrozenIs DEF Reopens
    <3>3. UNCHANGED Evidence(n)
      BY <1>5, <2>1, <2>3, EvidenceStays
    <3>4. runs[n].accepted = "bound" => runs'[n].accepted = "bound"
      BY <1>5, <2>3, AcceptedStays
    <3>5. Over(n)'
      BY <2>1, RunInvStep DEF RunInv
    <3>6. SettledRun(n)'
      BY <3>5 DEF Over, SettledRun, Settled, Ended
    <3> QED
      BY <3>2, <3>3, <3>4, <3>6 DEF CanClose
  <2> QED
    BY <2>2, <2>3
<1>6. \A m, expected : Commit(m, expected) => Active /\ UNCHANGED control
  BY DEF Commit
<1>7. \A content : UpdateKit(content) => Active /\ UNCHANGED control
  BY DEF UpdateKit
<1>8. ~(Active /\ UNCHANGED control)
  BY DEF Active
<1> QED
  BY <1>2, <1>3, <1>4, <1>5, <1>6, <1>7, <1>8, StepKinds

\* Heads and kits.
LEMMA ControlStep ==
  ASSUME TypeOK, [Next]_vars
  PROVE  /\ control' \in ControlHead /\ journal' \in [1..MaxGeneration -> ControlHead \cup {None}]
         /\ unloaded' \in BOOLEAN /\ kit' \in Kit
<1> USE DEF TypeOK
<1>1. CASE UNCHANGED <<control, journal, unloaded, kit>>
  BY <1>1
<1>2. \A n \in Run : OfRun(n) => UNCHANGED <<control, journal, unloaded, kit>>
  BY OfRunKeepsInstance DEF instance
<1>3. HostDies \/ RemoveStaleLock \/ UNCHANGED vars => UNCHANGED <<control, journal, unloaded, kit>>
  BY DEF HostDies, RemoveStaleLock, vars, instance
<1>4. \A n, expected : Commit(n, expected) => UNCHANGED <<control, journal, unloaded, kit>>
  BY DEF Commit
<1>5. CASE Unload
  BY <1>5 DEF Unload
<1>6. ASSUME NEW content \in Kit, UpdateKit(content)
      PROVE  UNCHANGED <<control, journal, unloaded>> /\ kit' \in Kit
  BY <1>6 DEF UpdateKit
<1>7. ASSUME NEW mode \in Mode, Transition(mode)
      PROVE  /\ control' \in ControlHead /\ journal' \in [1..MaxGeneration -> ControlHead \cup {None}]
             /\ UNCHANGED <<unloaded, kit>>
  <2> DEFINE next == [generation |-> control.generation + 1, mode |-> mode, snapshot |-> SnapshotNow]
  <2>1. SnapshotNow \in Snapshot
    BY <1>7, SnapshotIsTyped DEF Transition
  <2>2. control.generation \in Nat /\ control.generation + 1 <= MaxGeneration
    BY <1>7, BoundsAssumption DEF Transition, ControlHead
  <2>3. next \in ControlHead
    BY <2>1, <2>2, BoundsAssumption DEF ControlHead
  <2>4. control' \in {control, next}
    BY <1>7 DEF Transition
  <2>5. journal' = [journal EXCEPT ![control.generation + 1] = next]
    BY <1>7 DEF Transition
  <2>6. UNCHANGED <<unloaded, kit>>
    BY <1>7 DEF Transition
  <2> HIDE DEF next
  <2> QED
    BY <2>3, <2>4, <2>5, <2>6
<1> QED
  BY <1>1, <1>2, <1>3, <1>4, <1>5, <1>6, <1>7, StepKinds

LEMMA RunsInit ==
  ASSUME Init
  PROVE  RunsInv
<1> USE MarksAreOwn
<1>1. \A n \in Run : runs[n] = NoFiles /\ host[n] = "idle" /\ group[n] = "none"
  BY DEF Init
<1>2. NoFiles \in Files
  BY DEF NoFiles, Files, Custody
<1>3. /\ history \in Seq(Run) /\ Len(history) \in Revision /\ DOMAIN history = {}
  BY RevisionIsNat DEF Init
<1>4. control \in ControlHead
  BY BoundsAssumption DEF Init, ControlHead, Mode
<1>5. TypeOK
  <2>1. runs \in [Run -> Files] /\ failures \in 0..MaxFailures
    BY <1>2, BoundsAssumption DEF Init
  <2>2. /\ host \in [Run -> {"idle", "claimed", "polled", "starting", "answering"}]
        /\ answer \in [Run -> Answer \cup {None}]
        /\ group \in [Run -> {"none", "running", "orphan", "gone"}]
        /\ journal \in [1..MaxGeneration -> ControlHead \cup {None}]
    BY DEF Init
  <2> QED
    BY <1>3, <1>4, <2>1, <2>2 DEF Init, TypeOK
<1>6. OneStart /\ NoLostUpdate /\ PausedRoundIsFrozen
  BY <1>1, <1>3 DEF OneStart, NoLostUpdate, PausedRoundIsFrozen, Init
<1>7. ASSUME NEW n \in Run PROVE RunInv(n)
  BY <1>1 DEF Init, NoFiles, RunInv, StartIsApproved, WorkerOwns, ReservedInOrder, AttemptedInOrder,
    GroupIsOfLaunch, AcceptedEnded, Active, Loaded, HasJob, Reserved
<1> QED
  BY <1>5, <1>6, <1>7 DEF RunsInv

LEMMA RunsStep ==
  ASSUME RunsInv, [Next]_vars
  PROVE  RunsInv'
<1>1. TypeOK'
  <2>1. FilesOK'
    BY FilesStep DEF RunsInv, RunInv
  <2> QED
    BY <2>1, ControlStep, HistoryStep DEF RunsInv, FilesOK, TypeOK
<1>2. NoLostUpdate' /\ OneStart'
  BY HistoryStep, OneStartStep DEF RunsInv
<1>4. PausedRoundIsFrozen'
  BY PinnedStep, ReopensStep DEF PausedRoundIsFrozen, Pinned, Reopens
<1>3. \A n \in Run : RunInv(n)'
  BY RunInvStep
<1> QED
  BY <1>1, <1>2, <1>3, <1>4 DEF RunsInv

LEMMA RunsInvariance == Spec => []RunsInv
<1>1. RunsInv /\ UNCHANGED vars => RunsInv'
  BY RunsStep
<1> QED
  BY RunsInit, RunsStep, <1>1, PTL DEF Spec

\* What the invariant says of a closed round and of confirmed ends.
LEMMA RunsInvIsSafe ==
  ASSUME RunsInv
  PROVE  RunsSafe
<1> USE MarksAreOwn DEF RunsInv
<1>1. ASSUME NEW n \in Run
      PROVE  /\ Typed(n) /\ None \notin Confirmed /\ "unconfirmed" \notin Confirmed
             /\ None # "cancelled"
  BY RunIsTyped DEF Answer, Receipt, Confirmed
<1>2. ASSUME NEW n \in Run, Ended(n)
      PROVE  ~Alive(n) /\ host[n] \notin {"claimed", "polled", "starting"} /\ HasJob(n)
  <2>1. /\ runs[n].result \in Confirmed /\ runs[n].receipt \in Confirmed
        /\ runs[n].result # None /\ runs[n].receipt # None
    BY <1>1, <1>2 DEF Ended
  <2>2. ~Alive(n) /\ HasJob(n)
    BY <1>1, <2>1 DEF RunInv, GroupIsOfLaunch, AttemptedInOrder, Alive
  <2> QED
    BY <2>1, <2>2 DEF RunInv, StartIsApproved, WorkerOwns, AttemptedInOrder, HasJob
<1>3. ASSUME NEW n \in Run, SettledPrelaunch(n)
      PROVE  ~Alive(n) /\ host[n] \notin {"claimed", "polled", "starting"}
  BY <1>1, <1>3
    DEF RunInv, SettledPrelaunch, GroupIsOfLaunch, ReservedInOrder, Alive
<1>4. ConfirmedMeansEnded
  BY <1>2, <1>3 DEF ConfirmedMeansEnded, Settled, Ended
<1>5. RoundIsQuiet
  <2>1. SUFFICES ASSUME ~Active, NEW n \in Run
                 PROVE  /\ ~Alive(n) /\ host[n] \notin {"claimed", "polled", "starting"}
                        /\ runs[n].request \in Plan => runs[n].owner = "claimed"
    BY DEF RoundIsQuiet
  <2>2. Over(n)
    <3>1. RunInv(n)
      BY <2>1
    <3> QED
      BY <2>1, <3>1 DEF RunInv
  <2>3. CASE HasJob(n)
    BY <1>1, <1>2, <2>2, <2>3 DEF Over, RunInv, ReservedInOrder, HasJob, Reserved
  <2>4. CASE ~HasJob(n) /\ Reserved(n)
    BY <1>3, <2>2, <2>4 DEF Over, SettledPrelaunch
  <2>5. CASE ~HasJob(n) /\ ~Reserved(n)
    <3>1. runs[n].reached \in {"none", "claims"} /\ runs[n].owner = "none"
      BY <1>1, <2>2, <2>5 DEF Over, HasJob, Typed, RunInv, ReservedInOrder, Reserved
    <3>2. ~Alive(n) /\ runs[n].request \notin Plan
      BY <1>1, <2>5, <3>1 DEF RunInv, GroupIsOfLaunch, Alive, Reserved
    <3> QED
      BY <2>1, <3>1, <3>2 DEF RunInv, WorkerOwns, StartIsApproved
  <2> QED
    BY <2>3, <2>4, <2>5
<1> QED
  BY <1>4, <1>5 DEF RunsSafe

\* The files of an instance prove what they say of runs, rounds and commits,
\* whatever was cut short (native_spool::settled_run, workspace_job::state).
THEOREM RunsAreSafe == Spec => []RunsSafe
BY RunsInvariance, RunsInvIsSafe, PTL

\* A paused or suspended round pins its kit, its state and the end of each of its
\* runs until it is resumed, and each run passes the boundary of the resume unless
\* its reclamation was cut short (round_control::snapshot, run::settled).
THEOREM RoundStaysFrozen == Spec => []PausedRoundIsFrozen
<1>1. RunsInv => PausedRoundIsFrozen
  BY DEF RunsInv
<1> QED
  BY <1>1, RunsInvariance, PTL

\* Each process is launched by the step of its attempt that holds the lock.
LEMMA LaunchIsOne ==
  ASSUME TypeOK, NEW n \in Run, [Next]_vars, group[n] # "running", group'[n] = "running"
  PROVE  Launch(n)
<1>1. group \in [Run -> {"none", "running", "orphan", "gone"}]
  BY DEF TypeOK
<1>2. ASSUME NEW m \in Run, OfRun(m) PROVE Launch(n)
  <2>1. m = n
    BY <1>2, OthersApart
  <2>2. ~(Claim(n) \/ Completion(n) \/ Poll(n) \/ WorkerCancelled(n) \/ WorkerStarts(n)
            \/ WorkerDies(n) \/ StartDirect(n))
    BY DEF Claim, Completion, Poll, WorkerCancelled, WorkerStarts, WorkerDies, StartDirect
  <2>3. ~((\E from \in Revision \cup {None} : Preview(n, from)) \/ Reserve(n) \/ CancelSupervised(n)
            \/ ReconcileRun(n) \/ Accept(n) \/ ReconcileAccept(n) \/ Reclaim(n))
    BY DEF Preview, Reserve, CancelSupervised, ReconcileRun, Accept, ReconcileAccept, Reclaim, processes
  <2>4. ~(Acquire(n) \/ WriteStart(n) \/ CancelGap(n) \/ MakeJob(n) \/ NotStarted(n) \/ Fence(n)
            \/ Refused(n) \/ Record(n) \/ StartFails(n))
    BY DEF Acquire, WriteStart, CancelGap, MakeJob, NotStarted, Fence, Refused, Record, Reach, StartFails
  <2>5. ~(Reap(n) \/ StartDies(n) \/ OrphanEnds(n))
    BY <1>1 DEF Reap, StartDies, OrphanEnds
  <2> QED
    BY <1>2, <2>1, <2>2, <2>3, <2>4, <2>5 DEF OfRun, Attempt
<1>3. ~(HostDies \/ RemoveStaleLock \/ Unload \/ UNCHANGED vars)
  BY DEF HostDies, RemoveStaleLock, Unload, vars, processes
<1>4. /\ \A m, expected : ~Commit(m, expected)
      /\ \A mode : ~Transition(mode)
      /\ \A content : ~UpdateKit(content)
  BY DEF Commit, Transition, UpdateKit, processes
<1> QED
  BY <1>2, <1>3, <1>4, StepKinds

\* A process is launched for the kit, the round and the state it was approved
\* for, of which none has changed since the approval (execute, run_inner).
THEOREM LaunchesAreCurrent == Spec => LaunchIsCurrent
<1> DEFINE Current(n) ==
      group[n] # "running" /\ group'[n] = "running" =>
         /\ Active /\ group[n] = "none"
         /\ runs[n].start = PlanNow(runs[n].start.from)
         /\ runs[n].start = IF Reserved(n) THEN runs[n].request ELSE runs[n].preview
<1>1. ASSUME RunsInv, [Next]_vars, NEW n \in Run PROVE Current(n)
  <2>1. SUFFICES ASSUME group[n] # "running", group'[n] = "running"
                 PROVE  /\ Active /\ group[n] = "none"
                        /\ runs[n].start = PlanNow(runs[n].start.from)
                        /\ runs[n].start = IF Reserved(n) THEN runs[n].request ELSE runs[n].preview
    BY DEF Current
  <2>2. host[n] = "starting" /\ runs[n].reached = "launch" /\ group[n] = "none"
    BY <1>1, <2>1, LaunchIsOne DEF RunsInv, Launch, Launchable, Starting
  <2>3. Active /\ runs[n].start = runs[n].preview /\ runs[n].preview = PlanNow(runs[n].preview.from)
    BY <1>1, <2>2 DEF RunsInv, RunInv, StartIsApproved, AttemptedInOrder
  <2>4. Reserved(n) => runs[n].request = runs[n].preview
    BY <1>1, <2>2, MarksAreOwn DEF RunsInv, RunInv, StartIsApproved, ReservedInOrder
  <2> QED
    BY <2>2, <2>3, <2>4
<1>2. RunsInv /\ [Next]_vars => [\A n \in Run : Current(n)]_vars
  BY <1>1
<1> QED
  BY <1>2, RunsInvariance, PTL DEF Spec, LaunchIsCurrent

----------------------------------------------------------------------------
(* The promise of RunCustody *)

CustodyOf(n) ==
  CASE Ended(n) -> IF runs[n].accepted = "bound" THEN "accepted"
                   ELSE IF runs[n].result = "succeeded" THEN "succeeded" ELSE "failed"
    [] ~Ended(n) /\ SettledPrelaunch(n) -> "void"
    [] OTHER -> IF Reserved(n) \/ runs[n].start # None THEN "held" ELSE "free"

Changes(n, from, to) == CustodyOf(n) = from /\ CustodyOf(n)' = to

\* The steps of one run as the promise has them.
Promised(n) ==
  \/ UNCHANGED CustodyOf(n)
  \/ Active /\ Changes(n, "free", "held")
  \/ \E end \in {"void", "failed", "succeeded"} : Changes(n, "held", end)
  \/ Changes(n, "succeeded", "accepted")

\* Every file that shows, but one that a step writes.
Shown(n) ==
  /\ UNCHANGED runs[n].request /\ UNCHANGED runs[n].owner /\ UNCHANGED runs[n].completion
  /\ UNCHANGED runs[n].reached /\ UNCHANGED runs[n].start /\ UNCHANGED runs[n].receipt
  /\ UNCHANGED runs[n].result /\ UNCHANGED runs[n].accepted

LEMMA ShownStays ==
  ASSUME NEW n, Shown(n)
  PROVE  Promised(n)
BY DEF Shown, Promised, CustodyOf, Ended, VerifySettled, SettledPrelaunch, Reserved

\* A run that is held: it was begun, and nothing confirms an end.
LEMMA HeldIs ==
  ASSUME NEW n, ~Ended(n), ~SettledPrelaunch(n), Reserved(n) \/ runs[n].start # None
  PROVE  CustodyOf(n) = "held"
BY DEF CustodyOf

LEMMA PromisedOfRun ==
  ASSUME TypeOK, NEW n \in Run, RunInv(n), OfRun(n)
  PROVE  Promised(n)
<1> USE MarksAreOwn
<1>1. /\ runs \in [Run -> Files] /\ Typed(n)
      /\ None \notin Confirmed /\ Torn \notin Confirmed /\ "unlaunched" \notin Confirmed
      /\ None # "cancelled"
  BY RunIsTyped DEF TypeOK, Answer, Receipt, Confirmed
<1>2. ASSUME NEW field \in {"preview", "cancel", "reclaimed"}, NEW value,
             Put(n, field, value), Fits(field, value)
      PROVE  Promised(n)
  BY <1>1, <1>2, PutOne, ShownStays DEF AllBut, Kept, Shown
<1>3. CASE \E from \in Revision \cup {None} : Preview(n, from)
  BY <1>2, <1>3, PlanNowIsPlan DEF Preview, Fits
<1>4. CASE CancelSupervised(n) \/ Reclaim(n)
  BY <1>2, <1>4 DEF CancelSupervised, Reclaim, Advances, Fits, Custody
<1>5. CASE UNCHANGED runs
  BY <1>5, ShownStays DEF Shown
<1>6. Poll(n) \/ WorkerCancelled(n) \/ WorkerStarts(n) \/ WorkerDies(n) \/ StartDirect(n)
        \/ Launch(n) \/ StartDies(n) \/ OrphanEnds(n) => UNCHANGED runs
  BY DEF Poll, WorkerCancelled, WorkerStarts, WorkerDies, StartDirect, Launch, StartDies, OrphanEnds
\* The reservation holds a free run.
<1>7. CASE Reserve(n)
  <2>1. PICK plan \in {runs[n].preview, Torn} : Put(n, "request", plan)
    BY <1>7 DEF Reserve
  <2>2. /\ runs[n].request = None /\ runs[n].reached \in {"none", "claims"} /\ Active
        /\ runs[n].preview # None
    BY <1>7 DEF Reserve, Reserved
  <2>3. Fits("request", plan) /\ plan # None
    BY <1>1, <2>1, <2>2 DEF Fits, Typed
  <2>4. AllBut(n, "request") /\ runs'[n]["request"] = plan
    BY <1>1, <2>1, <2>3, PutOne
  <2>5. runs[n].start = None /\ runs[n].result = None /\ runs[n].completion = None
    BY <1>1, <2>2 DEF RunInv, AttemptedInOrder, ReservedInOrder, Typed
  <2>6. CustodyOf(n) = "free"
    BY <1>1, <2>2, <2>5 DEF CustodyOf, Ended, SettledPrelaunch, Reserved
  <2>7. CustodyOf(n)' = "held"
    BY <1>1, <2>3, <2>4, <2>5 DEF AllBut, Kept, CustodyOf, Ended, SettledPrelaunch, Reserved
  <2> QED
    BY <2>2, <2>6, <2>7 DEF Promised, Changes
<1>8. CASE Claim(n)
  <2>1. PICK owner \in {Torn, "claimed"} :
          Put(n, "owner", owner) /\ runs[n].request \in Plan /\ runs[n].owner = "none"
    BY <1>8 DEF Claim
  <2>2. AllBut(n, "owner")
    BY <1>1, <2>1, PutOne DEF Fits
  <2>3. runs[n].result = None /\ runs[n].completion = None
    BY <1>1, <2>1 DEF RunInv, AttemptedInOrder, ReservedInOrder, Reserved
  <2>4. CustodyOf(n) = "held" /\ CustodyOf(n)' = "held"
    BY <1>1, <2>1, <2>2, <2>3 DEF AllBut, Kept, CustodyOf, Ended, SettledPrelaunch, Reserved
  <2> QED
    BY <2>4 DEF Promised
\* A report confirms the end of a routed run, or that none began.
<1>9. CASE Completion(n)
  <2>1. PICK what \in Answer \cup {None, Torn} : Put(n, "completion", what)
    BY <1>9 DEF Completion, TypeOK
  <2>2. AllBut(n, "completion")
    BY <1>1, <2>1, PutOne DEF Fits
  <2>3. host[n] = "answering"
    BY <1>9 DEF Completion
  <2>4. runs[n].completion = None /\ runs[n].owner = "claimed" /\ runs[n].request \in Plan
    BY <2>3 DEF RunInv, WorkerOwns, ReservedInOrder
  <2>5. Reserved(n) /\ Reserved(n)' /\ ~SettledPrelaunch(n)
    BY <1>1, <2>2, <2>4 DEF AllBut, Kept, Reserved, SettledPrelaunch
  <2>6. CASE Ended(n)
    <3>1. n \notin Routed
      BY <1>1, <2>4, <2>6 DEF Ended, VerifySettled
    <3>2. Ended(n)'
      BY <2>2, <2>6, <3>1 DEF AllBut, Kept, Ended, VerifySettled
    <3>3. UNCHANGED CustodyOf(n)
      BY <2>2, <2>6, <3>2 DEF AllBut, Kept, CustodyOf
    <3> QED
      BY <3>3 DEF Promised
  <2>7. CASE ~Ended(n)
    <3>1. CustodyOf(n) = "held"
      BY <2>5, <2>7, HeldIs
    <3>2. runs'[n].accepted = "no"
      BY <1>1, <2>2, <2>7 DEF AllBut, Kept, RunInv, AcceptedEnded
    <3>3. CustodyOf(n)' \in {"held", "void", "failed", "succeeded"}
      BY <2>5, <3>2 DEF CustodyOf
    <3> QED
      BY <3>1, <3>3 DEF Promised, Changes
  <2> QED
    BY <2>6, <2>7
\* While it is under way an attempt is held.
<1>10. ASSUME host[n] = "starting"
       PROVE  /\ runs[n].result = None /\ runs[n].completion = None
              /\ ~Ended(n) /\ ~SettledPrelaunch(n) /\ runs[n].accepted = "no"
              /\ Active
  BY <1>1, <1>10 DEF RunInv, StartIsApproved, AcceptedEnded, Ended, SettledPrelaunch
<1>11. CASE Acquire(n) \/ MakeJob(n) \/ Fence(n) \/ NotStarted(n) \/ Refused(n) \/ Reap(n)
  <2>1. host[n] = "starting"
    BY <1>11 DEF Acquire, MakeJob, Fence, NotStarted, Refused, Launchable, Reap, Reach, Starting
  <2>2. \E field \in {"reached", "receipt"} : \E value : Put(n, field, value) /\ Fits(field, value)
    BY <1>11 DEF Acquire, MakeJob, Fence, NotStarted, Refused, Reap, Reach, Receive, Fits, Receipt, Confirmed
  <2>3. /\ UNCHANGED runs[n].request /\ UNCHANGED runs[n].completion
        /\ UNCHANGED runs[n].start /\ UNCHANGED runs[n].result
    BY <1>1, <2>2, PutOne DEF AllBut, Kept
  <2>4. ~Ended(n)' /\ ~SettledPrelaunch(n)'
    BY <1>1, <1>10, <2>1, <2>3 DEF Ended, SettledPrelaunch
  <2> QED
    BY <1>10, <2>1, <2>3, <2>4 DEF Promised, CustodyOf, Reserved
<1>12. CASE WriteStart(n)
  <2>1. /\ host[n] = "starting"
        /\ runs' = [runs EXCEPT ![n].reached = "start", ![n].start = PlanNow(runs[n].preview.from)]
        /\ runs[n].reached \in {"none", "claims"}
    BY <1>12 DEF WriteStart, Starting
  <2>2. PICK plan \in Plan : runs' = [runs EXCEPT ![n].reached = "start", ![n].start = plan]
    BY <2>1 DEF RunInv, StartIsApproved
  <2>3. /\ runs'[n].start # None /\ runs'[n].result = None /\ runs'[n].completion = None
        /\ UNCHANGED runs[n].request
    <3>1. /\ runs'[n].start = plan /\ UNCHANGED runs[n].result
          /\ UNCHANGED runs[n].completion /\ UNCHANGED runs[n].request
      BY <1>1, <2>2, PutStart
    <3> QED
      BY <1>10, <2>1, <3>1
  <2>4. CustodyOf(n)' = "held"
    BY <1>1, <2>3 DEF CustodyOf, Ended, SettledPrelaunch
  <2>5. CustodyOf(n) \in {"free", "held"}
    BY <1>10, <2>1 DEF CustodyOf
  <2> QED
    BY <1>10, <2>1, <2>4, <2>5 DEF Promised, Changes
<1>13. CASE CancelGap(n) \/ Record(n) \/ StartFails(n)
  <2>1. host[n] = "starting"
    BY <1>13 DEF CancelGap, Record, StartFails, Starting
  <2>2. \/ UNCHANGED runs
        \/ \E result \in Receipt \cup {"unlaunched", Torn} :
             Put(n, "result", result) /\ runs[n].start # None
    BY <1>1, <1>13 DEF CancelGap, Record, StartFails, RunInv, AttemptedInOrder, HasJob, Typed
  <2>3. ASSUME NEW result \in Receipt \cup {"unlaunched", Torn},
               Put(n, "result", result), runs[n].start # None
        PROVE  Promised(n)
    <3>1. AllBut(n, "result")
      BY <1>1, <2>3, PutOne DEF Fits
    <3>2. CustodyOf(n) = "held"
      BY <1>10, <2>1, <2>3, HeldIs
    <3>3. CustodyOf(n)' \in {"held", "failed", "succeeded"}
      BY <1>1, <1>10, <2>1, <2>3, <3>1 DEF AllBut, Kept, CustodyOf, SettledPrelaunch
    <3> QED
      BY <3>2, <3>3 DEF Promised, Changes
  <2> QED
    BY <1>5, <2>2, <2>3
\* The records made afterwards.
<1>14. CASE ReconcileRun(n)
  <2>1. /\ Put(n, "result", runs[n].receipt) /\ Fits("result", runs[n].receipt)
        /\ runs[n].start # None /\ runs[n].result = None
    BY <1>1, <1>14 DEF ReconcileRun, Fits, Receipt, Confirmed
  <2>2. AllBut(n, "result")
    BY <1>1, <2>1, PutOne
  <2>3. ~Ended(n) /\ runs[n].accepted = "no"
    BY <1>1, <2>1 DEF Ended, RunInv, AcceptedEnded
  <2>4. ~SettledPrelaunch(n) /\ ~SettledPrelaunch(n)'
    BY <2>1, <2>2 DEF AllBut, Kept, RunInv, AttemptedInOrder, SettledPrelaunch
  <2>5. CustodyOf(n) = "held"
    BY <2>1, <2>3, <2>4, HeldIs
  <2>6. CustodyOf(n)' \in {"held", "failed", "succeeded"}
    BY <2>1, <2>2, <2>3, <2>4 DEF AllBut, Kept, CustodyOf
  <2> QED
    BY <2>5, <2>6 DEF Promised, Changes
<1>15. CASE Accept(n) \/ ReconcileAccept(n)
  <2>1. PICK value \in Custody : Put(n, "accepted", value)
    BY <1>15 DEF Accept, ReconcileAccept, Advances, Custody
  <2>2. AllBut(n, "accepted")
    BY <1>1, <2>1, PutOne DEF Fits
  <2>3. Ended(n) /\ runs[n].result = "succeeded" /\ runs[n].accepted # "bound"
    BY <1>15 DEF Accept, ReconcileAccept, Settled, Ended, RunInv, AcceptedEnded
  <2>4. Ended(n)'
    BY <2>2, <2>3 DEF AllBut, Kept, Ended, VerifySettled
  <2>5. CustodyOf(n) = "succeeded" /\ CustodyOf(n)' \in {"succeeded", "accepted"}
    BY <2>2, <2>3, <2>4 DEF AllBut, Kept, CustodyOf
  <2> QED
    BY <2>5 DEF Promised, Changes
<1> QED
  BY <1>3, <1>4, <1>5, <1>6, <1>7, <1>8, <1>9, <1>11, <1>12, <1>13, <1>14, <1>15 DEF OfRun, Attempt

LEMMA CustodyIsOf == custody = [n \in Run |-> CustodyOf(n)]
BY DEF custody, CustodyOf

\* A closing finds every run ended, and each success accepted.
LEMMA SettledCustody ==
  ASSUME RunsInv, NEW n \in Run, SettledRun(n)
  PROVE  /\ CustodyOf(n) # "held"
         /\ (Evidence(n) = "succeeded" => runs[n].accepted = "bound") => CustodyOf(n) # "succeeded"
<1> USE MarksAreOwn DEF RunsInv
<1>1. Typed(n) /\ None \notin Confirmed
  BY RunIsTyped DEF Answer, Receipt
<1>2. CASE HasJob(n)
  <2>1. Ended(n)
    BY <1>2 DEF SettledRun, Settled, Ended
  <2> QED
    BY <1>2, <2>1 DEF CustodyOf, Evidence
<1>3. CASE ~HasJob(n) /\ Reserved(n)
  <2>1. SettledPrelaunch(n)
    BY <1>3 DEF SettledRun
  <2>2. runs[n].start = None /\ runs[n].result = None
    BY <1>1, <2>1 DEF SettledPrelaunch, RunInv, AttemptedInOrder
  <2>3. ~Ended(n)
    BY <1>1, <2>2 DEF Ended
  <2> QED
    BY <2>1, <2>3 DEF CustodyOf
<1>4. CASE ~HasJob(n) /\ ~Reserved(n)
  <2>1. runs[n].reached \in {"none", "claims"}
    BY <1>1, <1>4 DEF SettledRun, HasJob, Typed
  <2>2. runs[n].start = None /\ runs[n].result = None /\ runs[n].request = None
    BY <1>1, <1>4, <2>1 DEF RunInv, AttemptedInOrder, Reserved
  <2>3. ~Ended(n) /\ ~SettledPrelaunch(n)
    BY <1>1, <2>2 DEF Ended, SettledPrelaunch
  <2> QED
    BY <1>4, <2>2, <2>3 DEF CustodyOf
<1> QED
  BY <1>2, <1>3, <1>4

LEMMA CustodyStays ==
  ASSUME UNCHANGED runs
  PROVE  UNCHANGED custody
<1>1. \A n \in Run : CustodyOf(n)' = CustodyOf(n)
  BY DEF CustodyOf, Ended, VerifySettled, SettledPrelaunch, Reserved
<1>2. [n \in Run |-> CustodyOf(n)'] = [n \in Run |-> CustodyOf(n)]
  BY <1>1
<1>3. custody' = [n \in Run |-> CustodyOf(n)']
  BY DEF custody, CustodyOf
<1> QED
  BY <1>2, <1>3, CustodyIsOf

LEMMA CustodyStep ==
  ASSUME RunsInv, [Next]_vars
  PROVE  UNCHANGED <<round, custody>> \/ Promise!Next
<1>1. ASSUME NEW n \in Run, OfRun(n)
      PROVE  UNCHANGED <<round, custody>> \/ Promise!Next
  <2>1. UNCHANGED round /\ (Active => round = "open")
    BY <1>1, OfRunKeepsInstance DEF instance, round, Active, Loaded
  <2>2. \A m \in Run : m # n => CustodyOf(m)' = CustodyOf(m)
    <3>1. SUFFICES ASSUME NEW m \in Run, m # n PROVE CustodyOf(m)' = CustodyOf(m)
      OBVIOUS
    <3>2. UNCHANGED runs[m]
      BY <1>1, <3>1, OthersApart DEF RunsInv
    <3> QED
      BY <3>2 DEF CustodyOf, Ended, VerifySettled, SettledPrelaunch, Reserved
  <2>3. custody' = [custody EXCEPT ![n] = CustodyOf(n)'] /\ custody[n] = CustodyOf(n)
    <3>1. custody' = [m \in Run |-> CustodyOf(m)']
      BY DEF custody, CustodyOf
    <3> QED
      BY <2>2, <3>1, CustodyIsOf
  <2>4. CASE UNCHANGED CustodyOf(n)
    BY <2>1, <2>3, <2>4, CustodyIsOf
  <2>5. CASE Active /\ Changes(n, "free", "held")
    <3>1. Promise!Hold(n)
      BY <2>1, <2>3, <2>5 DEF Changes, Promise!Hold, Promise!Become
    <3> QED
      BY <3>1 DEF Promise!Next
  <2>6. CASE \E end \in {"void", "failed", "succeeded"} : Changes(n, "held", end)
    <3>1. Promise!Settle(n)
      BY <2>1, <2>3, <2>6 DEF Changes, Promise!Settle, Promise!Become
    <3> QED
      BY <3>1 DEF Promise!Next
  <2>7. CASE Changes(n, "succeeded", "accepted")
    <3>1. Promise!Accept(n)
      BY <2>1, <2>3, <2>7 DEF Changes, Promise!Accept, Promise!Become
    <3> QED
      BY <3>1 DEF Promise!Next
  <2> QED
    BY <1>1, <2>4, <2>5, <2>6, <2>7, PromisedOfRun DEF Promised, RunsInv
<1>2. CASE UNCHANGED <<runs, control, unloaded>>
  BY <1>2, CustodyStays DEF round
<1>3. /\ HostDies \/ RemoveStaleLock \/ UNCHANGED vars => UNCHANGED <<runs, control, unloaded>>
      /\ \A n, expected : Commit(n, expected) => UNCHANGED <<runs, control, unloaded>>
      /\ \A content : UpdateKit(content) => UNCHANGED <<runs, control, unloaded>>
  BY DEF HostDies, RemoveStaleLock, vars, instance, Commit, UpdateKit
<1>4. CASE Unload
  <2>1. UNCHANGED custody
    BY <1>4, CustodyStays DEF Unload
  <2>2. Promise!Quiet
    BY <1>4, SettledCustody, CustodyIsOf DEF Unload, Promise!Quiet
  <2>3. round # "unloaded" /\ round' = "unloaded"
    BY <1>4 DEF Unload, Loaded, round
  <2>4. Promise!Unload
    BY <2>1, <2>2, <2>3 DEF Promise!Unload
  <2> QED
    BY <2>4 DEF Promise!Next
<1>5. ASSUME NEW mode \in Mode, Transition(mode)
      PROVE  UNCHANGED <<round, custody>> \/ Promise!Next
  <2>1. UNCHANGED custody /\ UNCHANGED unloaded /\ ~unloaded
    BY <1>5, CustodyStays DEF Transition, Loaded
  <2>2. CASE UNCHANGED control
    BY <2>1, <2>2 DEF round
  <2>3. CASE control'.mode = mode
    <3>1. CASE control.mode = "active"
      <4>1. mode # "active"
        BY <1>5, <3>1 DEF Transition, ValidTransition
      <4>2. round = "open" /\ round' = "closed"
        BY <2>1, <2>3, <3>1, <4>1 DEF round
      <4>3. \A n \in Run : custody[n] # "held" /\ custody[n] # "succeeded"
        BY <1>5, SettledCustody, CustodyIsOf DEF Transition, CanSnapshot, CanClose
      <4>4. Promise!Close
        BY <2>1, <4>2, <4>3 DEF Promise!Close, Promise!Quiet
      <4> QED
        BY <4>4 DEF Promise!Next
    <3>2. CASE control.mode # "active" /\ mode # "active"
      BY <2>1, <2>3, <3>2 DEF round
    <3>3. CASE control.mode # "active" /\ mode = "active"
      <4>1. round = "closed" /\ round' = "open"
        BY <2>1, <2>3, <3>3 DEF round
      <4>2. Promise!Reopen
        BY <2>1, <4>1 DEF Promise!Reopen
      <4> QED
        BY <4>2 DEF Promise!Next
    <3> QED
      BY <3>1, <3>2, <3>3
  <2> QED
    BY <1>5, <2>2, <2>3 DEF Transition
<1> QED
  BY <1>1, <1>2, <1>3, <1>4, <1>5, StepKinds

\* Through failing writes and killed hosts the files keep the promise of
\* RunCustody: a name is one attempt, what was started is held until its end
\* is confirmed, and a round closes over nothing held (native_spool).
THEOREM FilesKeepCustody == Spec => CustodySteps
<1>1. Init => Promise!Init
  <2> SUFFICES ASSUME Init PROVE Promise!Init
    OBVIOUS
  <2>1. round = "open"
    BY DEF Init, round
  <2>2. \A n \in Run : CustodyOf(n) = "free"
    <3>1. SUFFICES ASSUME NEW n \in Run PROVE CustodyOf(n) = "free"
      OBVIOUS
    <3>2. runs[n] = NoFiles /\ None \notin Confirmed
      BY MarksAreOwn DEF Init, Answer, Receipt
    <3> QED
      BY <3>2, MarksAreOwn DEF NoFiles, CustodyOf, Ended, SettledPrelaunch, Reserved
  <2>3. custody = [n \in Run |-> "free"]
    BY <2>2, CustodyIsOf
  <2> QED
    BY <2>1, <2>3 DEF Promise!Init
<1>2. RunsInv /\ [Next]_vars => [UNCHANGED <<round, custody>> \/ Promise!Next]_vars
  BY CustodyStep
<1> QED
  BY <1>1, <1>2, RunsInvariance, PTL DEF Spec, CustodySteps

=============================================================================

--------------------------- MODULE AgentLifecycle ---------------------------
(***************************************************************************)
(* AgentControl of an-agent-core: opening, running, cancelling, finishing, *)
(* releasing and resuming the agents of one host process.                  *)
(*                                                                         *)
(* Every operation that holds the supervision lock for its whole body is   *)
(* one action.  A beat holds the pool's only turn, not the lock, so each   *)
(* stretch of a beat between two locked sections is an action of its own.  *)
(*                                                                         *)
(* An append to a tape succeeds, or fails with the line lost, or fails     *)
(* (its sync) with the line on the tape.  Of a tape the model keeps the    *)
(* last finish mark of each session, and the audit lines about reviews.    *)
(*                                                                         *)
(* ToolReview adds the review operations and the specification.            *)
(***************************************************************************)
EXTENDS Supervision, Sequences, FiniteSets

CONSTANTS
  Session,      \* private session directories
  CardId,       \* card hash -> the principal it names
  MaxFailures   \* how many calls may meet a failing append

ASSUME CardIdAssumption == CardId \in [Card -> Principal]
ASSUME MaxFailuresAssumption == MaxFailures \in Nat

VARIABLES
  runs,      \* principal -> its mounted agent and run state, or None
  turn,      \* the beat that holds the pool's only slot, or None
  sessions,  \* what is on disk of each session
  evidence,  \* review lines on the tapes
  engaged,   \* every engagement id drawn so far
  failures   \* calls that met a failing append

core == <<runs, turn, sessions, evidence, engaged, failures>>
vars == <<ledger, core>>

Tag == {"review_request", "mail_request", "approve_once", "mail_approve_once",
        "answer", "mail_answer", "review_closed", "review_consumed", "gate"}
Line == [owner : Principal, tag : Tag, review : ReviewId]

\* closing is what a finish has to record; cancelled is the flag a beat
\* consumes, signal the value of the watch channel a tool reads.  ended is the
\* reviews the intent to finish removed, kept for a property only.
Run == [card : Card, session : Session,
        status : {"live", "finishing", "finished"},
        closing : SUBSET Line, ended : SUBSET ReviewId,
        cancelled : BOOLEAN, signal : BOOLEAN]

\* call is None for advance and for a delivery.  stopped records that a cancel returned during
\* the beat, and review the approval the tool runs under: neither is state of
\* the program.
Turn == [agent : Principal, call : Call \cup {None},
         step : {"begun", "subscribed", "running", "delivering"}, stopped : BOOLEAN,
         review : ReviewId \cup {None}]

\* mark is the last of the lines finish_pending and finish, sealed the card of
\* session.json.  retained tells a finish_pending whose append reported an
\* error from one that was acknowledged; the program keeps no such thing.
SessionDir == [owner : Principal \cup {None}, mark : {"none", "finish_pending", "finish"},
               sealed : Card \cup {None}, retained : BOOLEAN]

ASSUME NoneCoreAssumption == None \notin Session /\ None \notin Run /\ None \notin Turn

CoreTypeOK ==
  /\ runs \in [Principal -> Run \cup {None}]
  /\ turn \in Turn \cup {None}
  /\ sessions \in [Session -> SessionDir]
  /\ evidence \in SUBSET Line
  /\ engaged \in SUBSET InstanceRef
  /\ failures \in 0..MaxFailures

----------------------------------------------------------------------------
(* Reading the state *)

Seated(p) == runs[p] # None
Live(p) == Seated(p) /\ runs[p].status = "live"

InBeat(p) == turn # None /\ turn.agent = p
SessionOf(p) == sessions[runs[p].session]

\* A receiver of the watch channel exists while a tool call is in flight.
\* Without one, send() leaves the value of the channel as it is.
Listening(p) == InBeat(p) /\ turn.step \in {"subscribed", "running"}

----------------------------------------------------------------------------
(* Appending to tapes *)

AppendFails == failures < MaxFailures /\ failures' = failures + 1

\* Mutant: an error of an append is ignored.
RecordRegardless(lines, ok) ==
  /\ ok
  /\ \/ UNCHANGED failures /\ evidence' = evidence \cup {lines[i] : i \in DOMAIN lines}
     \/ AppendFails /\ UNCHANGED evidence

\* Lines appended one after the other; the first error ends the call.
Record(lines, ok) ==
  \/ /\ ok
     /\ evidence' = evidence \cup {lines[i] : i \in DOMAIN lines}
     /\ UNCHANGED failures
  \/ /\ ~ok
     /\ AppendFails
     /\ \E k \in 0..Len(lines) : evidence' = evidence \cup {lines[i] : i \in 1..k}

\* Closure lines are attempted on every tape even after one has failed.
RecordClosures(lines, ok) ==
  \/ /\ ok
     /\ evidence' = evidence \cup lines
     /\ UNCHANGED failures
  \/ /\ ~ok
     /\ lines # {}
     /\ AppendFails
     /\ \E written \in SUBSET lines : evidence' = evidence \cup written

ClosureLines(ids) ==
  {[owner |-> q, tag |-> "review_closed", review |-> id] :
     q \in Principal, id \in ids}

\* Both parties of the reviews; those not mounted are skipped.
PartyLines(ids) ==
  {line \in ClosureLines(ids) :
     LET r == pending[line.review].request IN line.owner \in {r.child, r.supervisor}}
OnSeatedTapes(lines) == {line \in lines : Seated(line.owner)}

----------------------------------------------------------------------------
(* Opening, releasing, resuming *)

NewRun(card, s) ==
  [card |-> card, session |-> s, status |-> "live", closing |-> {}, ended |-> {},
   cancelled |-> FALSE, signal |-> FALSE]

\* An append failure retires the engagement again: the ledger is as before,
\* only the session directory and the drawn id remain.
OpenAgent(card, s, i) ==
  LET p == CardId[card] IN
  /\ ~Seated(p)
  /\ sessions[s].owner = None
  /\ i.principal = p /\ i \notin engaged
  /\ engaged' = engaged \cup {i}
  /\ sessions' = [sessions EXCEPT ![s] = [owner |-> p, mark |-> "none", sealed |-> None,
                                          retained |-> FALSE]]
  /\ \/ /\ Open(i)
        /\ runs' = [runs EXCEPT ![p] = NewRun(card, s)]
        /\ UNCHANGED <<turn, evidence, failures>>
     \/ /\ ~Active(p)
        /\ AppendFails
        /\ UNCHANGED <<ledger, runs, turn, evidence>>

\* Mutant: only a concluded finish counts.
Concluded(s) == sessions[s].mark = "finish"

PendingFinish(s) == sessions[s].mark = "finish_pending"

\* A session whose finish was left pending is resumed to complete it: its
\* engagement is opened and retired at once.
Resume(card, s, i) ==
  LET p == CardId[card]
      pending_finish == PendingFinish(s)
  IN
  /\ ~Seated(p)
  /\ sessions[s].owner = p /\ sessions[s].sealed = card
  /\ i.principal = p /\ i \notin engaged
  /\ engaged' = engaged \cup {i}
  /\ \/ /\ IF pending_finish THEN ~Active(p) /\ UNCHANGED ledger ELSE Open(i)
        /\ runs' = [runs EXCEPT ![p] =
                      [NewRun(card, s) EXCEPT
                         !.status = IF pending_finish THEN "finishing" ELSE "live"]]
        /\ UNCHANGED failures
     \/ /\ ~Active(p)
        /\ AppendFails
        /\ UNCHANGED <<ledger, runs>>
  /\ UNCHANGED <<turn, sessions, evidence>>

\* The manifest is written before the tape line, so it stays if that fails.
SealSession(p) ==
  /\ Seated(p)
  /\ sessions' = [sessions EXCEPT ![runs[p].session].sealed = runs[p].card]
  /\ UNCHANGED <<ledger, runs, turn, evidence, engaged, failures>>

\* Mutant: a finishing agent may be released.
ReleaseUnfinished(p) ==
  /\ ~InBeat(p)
  /\ Seated(p) /\ ~Live(p)
  /\ Retire(p)
  /\ runs' = [runs EXCEPT ![p] = None]
  /\ UNCHANGED <<turn, sessions, evidence, engaged, failures>>

Release(p) ==
  /\ ~InBeat(p)
  /\ Seated(p) /\ runs[p].status = "finished"
  /\ \E ok \in BOOLEAN : RecordClosures(OnSeatedTapes(PartyLines(Involving(p))), ok)
  /\ Retire(p)
  /\ runs' = [runs EXCEPT ![p] = None]
  /\ UNCHANGED <<turn, sessions, engaged>>

----------------------------------------------------------------------------
(* Cancelling and finishing *)

\* The flag is raised before the authority is revoked, and both before the
\* evidence that may fail.
Cancel(p) ==
  /\ Live(p)
  /\ runs' = [runs EXCEPT ![p] = [@ EXCEPT !.cancelled = TRUE, !.signal = TRUE]]
  /\ turn' = IF InBeat(p) THEN [turn EXCEPT !.stopped = TRUE] ELSE turn
  /\ IF Active(p)
     THEN /\ \E ok \in BOOLEAN : RecordClosures(OnSeatedTapes(PartyLines(Involving(p))), ok)
          /\ Revoke(p)
     ELSE UNCHANGED <<ledger, evidence, failures>>
  /\ UNCHANGED <<sessions, engaged>>

\* The append of finish_pending failed with its line retained: the agent stays
\* live.  (A lost line changes nothing.)
FinishIntentRetained(p) ==
  /\ ~InBeat(p) /\ Live(p)
  /\ AppendFails
  /\ sessions' = [sessions EXCEPT ![runs[p].session] =
                    [@ EXCEPT !.mark = "finish_pending", !.retained = TRUE]]
  /\ UNCHANGED <<ledger, runs, turn, evidence, engaged>>

\* From an acknowledged intent, of this call or of an earlier one, to its end.
\* concluded is the outcome of the finish line: "no" if the closures failed or
\* the line was lost, "retained" if only its sync failed.
Finish(p) ==
  LET first == runs[p].status = "live"
      closing == IF first THEN PartyLines(Involving(p)) ELSE runs[p].closing
      ended == IF first THEN Involving(p) ELSE runs[p].ended
      intended == IF first THEN [SessionOf(p) EXCEPT !.mark = "finish_pending", !.retained = FALSE]
                  ELSE SessionOf(p)
  IN
  /\ ~InBeat(p)
  /\ Seated(p) /\ runs[p].status # "finished"
  /\ IF first THEN Retire(p) ELSE UNCHANGED ledger
  /\ \E concluded \in {"yes", "retained", "no"} :
       /\ \/ concluded = "yes" /\ RecordClosures(OnSeatedTapes(closing), TRUE)
          \/ /\ concluded # "yes" /\ AppendFails
             /\ evidence' = evidence \cup OnSeatedTapes(closing)
          \/ concluded = "no" /\ RecordClosures(OnSeatedTapes(closing), FALSE)
       /\ sessions' = [sessions EXCEPT ![runs[p].session] =
                         IF concluded = "no" THEN intended ELSE [intended EXCEPT !.mark = "finish"]]
       /\ runs' = [runs EXCEPT ![p] =
                     IF concluded = "yes"
                     THEN [@ EXCEPT !.status = "finished", !.closing = closing, !.ended = ended,
                                    !.cancelled = FALSE]
                     ELSE [@ EXCEPT !.status = "finishing", !.closing = closing, !.ended = ended]]
  /\ UNCHANGED <<turn, engaged>>

----------------------------------------------------------------------------
(* Beats *)

\* A raised flag consumes the attempt, whether or not the slot is free.
BeginBeat(p, call) ==
  /\ Live(p)
  /\ \/ /\ runs[p].cancelled
        /\ runs' = [runs EXCEPT ![p] =
                      [@ EXCEPT !.cancelled = FALSE, !.signal = runs[p].signal /\ ~Listening(p)]]
        /\ UNCHANGED turn
     \/ /\ ~runs[p].cancelled
        /\ Active(p)
        /\ turn = None
        /\ turn' = [agent |-> p, call |-> call, step |-> "begun", stopped |-> FALSE,
                    review |-> None]
        /\ UNCHANGED runs
  /\ UNCHANGED <<ledger, sessions, evidence, engaged, failures>>

\* advance appends its line, failing or not, and gives the slot back.
Advance ==
  /\ turn # None /\ turn.call = None /\ turn.step = "begun"
  /\ turn' = None
  /\ UNCHANGED <<ledger, runs, sessions, evidence, engaged, failures>>

CancelReceiver ==
  /\ turn # None /\ turn.call # None /\ turn.step = "begun"
  /\ turn' = [turn EXCEPT !.step = "subscribed"]
  /\ UNCHANGED <<ledger, runs, sessions, evidence, engaged, failures>>

\* The tool returned, or an append around it failed: the slot is given back.
EndRun ==
  /\ turn # None /\ turn.step = "running"
  /\ turn' = None
  /\ UNCHANGED <<ledger, runs, sessions, evidence, engaged, failures>>

----------------------------------------------------------------------------
(* The process dies and is started again: the ledger, the seats and the turn *)
(* are gone, the tapes and manifests stay.  Ids already drawn are not drawn  *)
(* again.                                                                    *)

Restart ==
  /\ instances' = [p \in Principal |-> None]
  /\ mounts' = {}
  /\ supervisors' = [i \in InstanceRef |-> None]
  /\ pending' = [id \in ReviewId |-> None]
  /\ UNCHANGED seen

Crash ==
  /\ Restart
  /\ runs' = [p \in Principal |-> None]
  /\ turn' = None
  /\ UNCHANGED <<sessions, evidence, engaged, failures>>

LifecycleInit ==
  /\ LedgerInit
  /\ runs = [p \in Principal |-> None]
  /\ turn = None
  /\ sessions = [s \in Session |-> [owner |-> None, mark |-> "none", sealed |-> None,
                                    retained |-> FALSE]]
  /\ evidence = {}
  /\ engaged = {}
  /\ failures = 0

LifecycleNext ==
  \/ \E card \in Card, s \in Session, i \in InstanceRef :
       OpenAgent(card, s, i) \/ Resume(card, s, i)
  \/ \E p \in Principal :
       \/ SealSession(p) \/ Release(p)
       \/ Cancel(p) \/ FinishIntentRetained(p) \/ Finish(p)
  \/ \E p \in Principal, call \in Call \cup {None} : BeginBeat(p, call)
  \/ Advance \/ CancelReceiver \/ EndRun

----------------------------------------------------------------------------
(* Properties *)

\* The beat in flight belongs to a live agent: finish and release, which retire
\* authority, cannot slip under a beat that has left the lock.
BeatIsLive == turn # None => Live(turn.agent)

\* Only live agents hold authority.  Once an intent to finish is acknowledged
\* the agent has no engagement, supervises nobody and waits for no answer, and
\* neither a retry, a release nor a resume gives it back.
AuthorityIsLive ==
  \A p \in Principal :
    /\ Active(p) => Live(p)
    /\ ~Live(p) => Involving(p) = {}

\* A live agent on a tape that says finish_pending: only if the append of that
\* line reported an error.  An acknowledged intent holds across restarts.
PendingFinishHolds ==
  \A p \in Principal :
    Live(p) /\ SessionOf(p).mark = "finish_pending" => SessionOf(p).retained

\* A finish that was acknowledged has put the closure of every review its
\* intent ended on the agent's tape, however many attempts it took.
FinishAccountsForReviews ==
  \A p \in Principal :
    Seated(p) /\ runs[p].status = "finished" =>
      \A id \in runs[p].ended :
        [owner |-> p, tag |-> "review_closed", review |-> id] \in evidence

\* The four together: a finish, once acknowledged, is the end of an agent.
LifecycleSafe ==
  BeatIsLive /\ AuthorityIsLive /\ PendingFinishHolds /\ FinishAccountsForReviews

\* An agent that is finishing never works again: until the process dies it can
\* only finish and then be released.
FinishOnlyConcludes ==
  [][\A p \in Principal :
       /\ Seated(p) /\ ~Live(p) => ~Live(p)'
       /\ Seated(p) /\ runs[p].status = "finishing" /\ ~Seated(p)' => \A q \in Principal : ~Seated(q)'
    ]_vars
=============================================================================

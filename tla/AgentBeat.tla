------------------------------ MODULE AgentBeat ------------------------------
(***************************************************************************)
(* A body that thinks (an-agent-core, control/agent_beat, model_boundary,  *)
(* semantic and the checks of delivery).  Delivery enters a body as one    *)
(* step; here the body is driven: it is shown the tape, asks for a model   *)
(* call over a line of it, and is shown the answer.  The call is made      *)
(* without the supervision lock, so what it was composed from may have     *)
(* changed when it ends.  What was read is checked before the call goes on *)
(* the tape and again before its answer does; what no longer holds is kept *)
(* as evidence only.                                                       *)
(*                                                                         *)
(* The beat holds the agent's turn, so the agent is not released under it. *)
(* The agent is supervised; a change of its authority is a new epoch,      *)
(* which stands for the child's, the supervisor's and the binding's.       *)
(***************************************************************************)
EXTENDS Naturals, Sequences

CONSTANTS
  Other,       \* the documents beside the registration: config and env
  Document,    \* what a workspace document may say
  Blank,       \* what each says at first
  MaxSteps,    \* MAX_STEPS of the code
  MaxBeats, MaxWrites, MaxRevokes, MaxMounts, MaxFaults,  \* bounds of the model
  None

Kind == {"register"} \cup Other

VARIABLES
  current,   \* kind -> its current line in the workspace and what that says
  epoch,     \* of the authority of the agent
  mount,     \* the mounted body, or None; mount ids are drawn in order
  drawn,     \* mount ids drawn
  tape,      \* the agent's tape
  pending,   \* the review about the body that waits, or None
  beat,      \* the delivery in the body, or None
  beats, writes, faults,
  shown,     \* lines a body or a model was given (no program state)
  excused    \* invokes whose closing line a fault prevented (no program state)

vars == <<current, epoch, mount, drawn, tape, pending, beat, beats, writes, faults, shown, excused>>
world == <<current, epoch, mount, drawn, writes>>
counts == <<beats, writes>>

Generation == [id : 0..MaxWrites, says : Document]
Scope == [epoch : 0..MaxRevokes, mount : 1..MaxMounts]

\* of is the invoke an observation answers, 0 for none.  answer and stale say
\* that a model's answer is cited, and that it was written when its request no
\* longer held; they are not on the tape.
Line == [tag : {"semantic", "action", "answered", "failed", "quarantined", "delivery_stale",
                "review_request", "spool"},
         of : Nat, answer : BOOLEAN, stale : BOOLEAN]
Review == [cause : {"high_risk", "permission_denied", "dependency_changed"},
           scope : Scope, facts : [Kind -> Generation]]
\* registration and mount are the facts of the delivery; facts, scope and clip
\* what the request was composed from, changed what was written since.
Beat == [at : {"asking", "thinking", "concluding", "reviewing", "modelling", "denied", "composed",
               "granted", "calling", "answered", "failed", "dropping"},
         step : 0..MaxSteps, mount : 1..MaxMounts, complete : BOOLEAN, registration : Generation,
         facts : [Kind -> Generation], scope : Scope, clip : Nat, action : Nat, changed : SUBSET Kind]

ASSUME BoundaryAssumption ==
  /\ MaxSteps \in Nat /\ MaxBeats \in Nat /\ MaxWrites \in Nat
  /\ MaxRevokes \in Nat /\ MaxMounts \in Nat /\ MaxFaults \in Nat
  /\ Blank \in Document
  /\ None \notin [id : 1..MaxMounts, complete : BOOLEAN] /\ None \notin Review /\ None \notin Beat

TypeOK ==
  /\ current \in [Kind -> Generation]
  /\ epoch \in 0..MaxRevokes
  /\ mount \in [id : 1..MaxMounts, complete : BOOLEAN] \cup {None}
  /\ drawn \in 0..MaxMounts
  /\ tape \in Seq(Line)
  /\ pending \in Review \cup {None}
  /\ beat \in Beat \cup {None}
  /\ beats \in 0..MaxBeats /\ writes \in 0..MaxWrites /\ faults \in 0..MaxFaults
  /\ shown \subseteq DOMAIN tape /\ excused \subseteq Nat

Init ==
  /\ current = [k \in Kind |-> [id |-> 0, says |-> Blank]]
  /\ epoch = 0 /\ mount = None /\ drawn = 0
  /\ tape = <<>> /\ pending = None /\ beat = None
  /\ beats = 0 /\ writes = 0 /\ faults = 0
  /\ shown = {} /\ excused = {}

----------------------------------------------------------------------------
(* The host *)

Mounted(m) == mount # None /\ mount.id = m

\* One name for each kind: the text it has already keeps its line.  Reviews
\* that name another generation are closed.
PutDocument(k, says) ==
  /\ writes < MaxWrites /\ says # current[k].says
  /\ writes' = writes + 1
  /\ current' = [current EXCEPT ![k] = [id |-> writes + 1, says |-> says]]
  /\ pending' = None
  /\ beat' = IF beat = None THEN None ELSE [beat EXCEPT !.changed = @ \cup {k}]
  /\ UNCHANGED <<epoch, mount, drawn, tape, beats, faults, shown, excused>>

RevokeReviews ==
  /\ epoch < MaxRevokes
  /\ epoch' = epoch + 1
  /\ pending' = None
  /\ UNCHANGED <<current, mount, drawn, tape, beat, counts, faults, shown, excused>>

MountBody(complete) ==
  /\ mount = None /\ drawn < MaxMounts
  /\ drawn' = drawn + 1
  /\ mount' = [id |-> drawn + 1, complete |-> complete]
  /\ UNCHANGED <<current, epoch, tape, pending, beat, counts, faults, shown, excused>>

UnmountBody ==
  /\ mount # None
  /\ mount' = None /\ pending' = None
  /\ UNCHANGED <<current, epoch, drawn, tape, beat, counts, faults, shown, excused>>

ResolveReview ==
  /\ pending # None /\ pending' = None
  /\ UNCHANGED <<world, tape, beat, beats, faults, shown, excused>>

\* The process ends; the tape stays.
Open == IF beat # None /\ beat.action # 0 THEN {beat.action} ELSE {}
Crash ==
  /\ faults < MaxFaults /\ faults' = faults + 1
  /\ mount' = None /\ pending' = None /\ beat' = None
  /\ excused' = excused \cup Open
  /\ UNCHANGED <<current, epoch, drawn, tape, counts, shown>>

----------------------------------------------------------------------------
(* The beat *)

L(tag) == [tag |-> tag, of |-> 0, answer |-> FALSE, stale |-> FALSE]
Audit == {"semantic", "quarantined", "delivery_stale", "review_request"}
Visible == {i \in DOMAIN tape : tape[i].tag \notin Audit}

Write(l) == tape' = Append(tape, l)
Leave == beat' = None
At(step) == [beat EXCEPT !.at = step]

\* An append, a blob or a read fails; the line may be on the tape.
Fault(l) ==
  /\ faults < MaxFaults /\ faults' = faults + 1
  /\ tape' \in {tape, Append(tape, l)}
  /\ excused' = excused \cup Open \cup (IF l.tag = "action" THEN {Len(tape) + 1} ELSE {})
  /\ Leave
  /\ UNCHANGED <<world, pending, beats, shown>>

\* What a beat leaves alone when nothing fails.
Sound == UNCHANGED <<world, beats, faults, excused>>

\* check_delivery_current: the registration and the mount, not the authority.
Granted ==
  /\ current["register"].id = beat.registration.id
  /\ Mounted(beat.mount)

Stale(l) == Write(l) /\ Leave /\ UNCHANGED <<pending, shown>> /\ Sound

EnterBody ==
  /\ beat = None /\ beats < MaxBeats
  /\ mount # None /\ pending = None
  /\ beats' = beats + 1
  /\ beat' = [at |-> "asking", step |-> 0, mount |-> mount.id, complete |-> mount.complete,
              registration |-> current["register"], facts |-> current,
              scope |-> [epoch |-> epoch, mount |-> mount.id], clip |-> 0, action |-> 0, changed |-> {}]
  /\ UNCHANGED <<world, tape, pending, faults, shown, excused>>

\* The projection: the newest lines that are no audit lines.
Ask ==
  /\ beat # None /\ beat.at = "asking"
  /\ \/ /\ beat.step < MaxSteps /\ Granted
        /\ beat' = At("thinking")
        /\ shown' = shown \cup Visible
        /\ UNCHANGED <<tape, pending>> /\ Sound
     \/ beat.step < MaxSteps /\ ~Granted /\ (Stale(L("delivery_stale")) \/ Fault(L("delivery_stale")))
     \/ beat.step = MaxSteps /\ beat' = At("dropping") /\ UNCHANGED <<tape, pending, shown>> /\ Sound

\* The body answers; an error, or a tool it may not use, fails it.
Answer ==
  /\ beat # None /\ beat.at = "thinking"
  /\ \/ beat' = At("dropping") /\ UNCHANGED <<tape, pending, shown>> /\ Sound
     \/ /\ Granted
        /\ \E next \in {"concluding", "reviewing", "modelling", "dropping"} : beat' = At(next)
        /\ UNCHANGED <<tape, pending, shown>> /\ Sound
     \/ ~Granted /\ (Stale(L("delivery_stale")) \/ Fault(L("delivery_stale")))

\* An utterance or a halt, under the lock.
Conclude ==
  /\ beat # None /\ beat.at = "concluding"
  /\ \/ Granted /\ (Stale(L("spool")) \/ Fault(L("spool")))
     \/ ~Granted /\ (Stale(L("delivery_stale")) \/ Fault(L("delivery_stale")))

\* drop_body unmounts what failed and the failure is noted.
Drop ==
  /\ beat # None /\ beat.at = "dropping"
  /\ mount' = IF Mounted(beat.mount) THEN None ELSE mount
  /\ pending' = IF Mounted(beat.mount) THEN None ELSE pending
  /\ \/ Write(L("spool")) /\ UNCHANGED faults
     \/ faults < MaxFaults /\ faults' = faults + 1 /\ UNCHANGED tape
  /\ Leave
  /\ UNCHANGED <<current, epoch, drawn, counts, shown, excused>>

ScopeNow == [epoch |-> epoch, mount |-> beat.mount]

Waiting == pending # None /\ pending.scope = ScopeNow

\* retain_review, under the lock, after the lines that led to it: a review that
\* waits in the same scope is used.
Retain(lines, cause) ==
  /\ Leave /\ UNCHANGED shown /\ Sound
  /\ \/ Waiting /\ tape' = tape \o lines /\ UNCHANGED pending
     \/ /\ ~Waiting
        /\ tape' = Append(tape \o lines, L("review_request"))
        /\ pending' = [cause |-> cause, scope |-> ScopeNow, facts |-> current]

\* request_review with the facts of the delivery.
RequestReview(cause) ==
  \/ Granted /\ Retain(<<>>, cause)
  \/ ~Granted /\ Leave /\ UNCHANGED <<tape, pending, shown>> /\ Sound
  \/ Fault(L("review_request"))

AskForReview ==
  /\ beat # None
  /\ \/ beat.at = "reviewing" /\ RequestReview("high_risk")
     \/ beat.at = "denied" /\ RequestReview("permission_denied")

----------------------------------------------------------------------------
(* A model call *)

ModelCall == "model.complete"

\* decide: every claim covers the attempt.  The body's declaration is one, the
\* endpoint of the agent's card the other.
Claims(complete) == <<IF complete THEN {ModelCall} ELSE {}, {ModelCall}>>
Allowed(claims) == claims # <<>> /\ \A i \in DOMAIN claims : ModelCall \in claims[i]

\* The decision goes on the tape before anything else happens.
Authorize(from, allowed, next) ==
  /\ beat # None /\ beat.at = from /\ allowed
  /\ \/ /\ Write(L("semantic")) /\ beat' = At(next)
        /\ UNCHANGED <<pending, shown>> /\ Sound
     \/ Fault(L("semantic"))

Preflight == Authorize("modelling", ~Allowed(Claims(beat.complete)), "denied")

\* The clip is read, and under the lock what the request depends on.  The
\* registration is the delivery's, the rest what is current.
Compose(clip) ==
  /\ beat # None /\ beat.at = "modelling" /\ Allowed(Claims(beat.complete))
  /\ clip \in {0} \cup Visible
  /\ Mounted(beat.mount)
  /\ beat' = [beat EXCEPT !.at = "composed", !.clip = clip, !.scope = ScopeNow, !.changed = {},
                          !.facts = [current EXCEPT !["register"] = beat.registration]]
  /\ shown' = shown \cup ({clip} \ {0})
  /\ UNCHANGED <<tape, pending>> /\ Sound

\* No client, an unknown or ineligible clip, a mount that is gone.
ComposeFails ==
  /\ beat # None /\ beat.at = "modelling" /\ Allowed(Claims(beat.complete))
  /\ Leave
  /\ UNCHANGED <<tape, pending, shown>> /\ Sound

Grant == Authorize("composed", Allowed(Claims(beat.complete)), "granted")

ScopeCurrent == Mounted(beat.scope.mount) /\ epoch = beat.scope.epoch

\* Mutant: a document that says the same is the same.
SaysTheSame ==
  /\ ScopeCurrent
  /\ \A k \in Kind : current[k].says = beat.facts[k].says

\* assess_dependencies: withdrawn, or another generation, even of one text.
Valid == ScopeCurrent /\ \A k \in Kind : current[k].id = beat.facts[k].id

\* No program state: whether the request still holds.
Lapsed == beat.changed # {} \/ ~ScopeCurrent

\* Mutant: a request is retained for whoever holds the name now.
QuarantineAnyScope(l) == Retain(<<l>>, "dependency_changed")

\* The record is kept as evidence; a fresh request cites it, unless the body or
\* the authority it would be about was replaced.
Quarantine(l) ==
  \/ ScopeCurrent /\ Retain(<<l>>, "dependency_changed")
  \/ ~ScopeCurrent /\ Stale(l)

Record(tag) ==
  [tag |-> tag, of |-> beat.action, answer |-> beat.at = "answered", stale |-> Lapsed]

Judged(tag) == Record(IF Valid THEN tag ELSE "quarantined")

\* publish_model_record, under the lock.  The request's blob may be gone.
PublishAction ==
  /\ beat # None /\ beat.at = "granted"
  /\ \/ /\ Valid
        /\ Write(Record("action"))
        /\ beat' = [At("calling") EXCEPT !.action = Len(tape) + 1]
        /\ UNCHANGED <<pending, shown>> /\ Sound
     \/ ~Valid /\ Quarantine(Judged("action"))
     \/ Fault(Judged("action"))

\* The client answers or not; the answer's blob may not be stored.
Return ==
  /\ beat # None /\ beat.at = "calling"
  /\ \/ \E outcome \in {"answered", "failed"} : beat' = At(outcome)
        /\ UNCHANGED <<tape, pending, shown>> /\ Sound
     \/ faults < MaxFaults /\ faults' = faults + 1
        /\ excused' = excused \cup Open /\ Leave
        /\ UNCHANGED <<world, tape, pending, beats, shown>>

PublishOutcome ==
  /\ beat # None /\ beat.at \in {"answered", "failed"}
  /\ \/ /\ beat.at = "answered" /\ Valid
        /\ Write(Record("answered"))
        /\ beat' = [At("asking") EXCEPT !.step = @ + 1, !.action = 0]
        /\ UNCHANGED <<pending, shown>> /\ Sound
     \/ beat.at = "failed" /\ Valid /\ Stale(Record("failed"))
     \/ ~Valid /\ Quarantine(Judged(beat.at))
     \/ Fault(Judged(beat.at))

Next ==
  \/ \E k \in Kind, says \in Document : PutDocument(k, says)
  \/ RevokeReviews \/ ResolveReview \/ Crash
  \/ \E complete \in BOOLEAN : MountBody(complete)
  \/ UnmountBody
  \/ EnterBody \/ Ask \/ Answer \/ Conclude \/ Drop \/ AskForReview
  \/ Preflight \/ ComposeFails \/ Grant \/ PublishAction \/ Return \/ PublishOutcome
  \/ \E clip \in 0..Len(tape) : Compose(clip)

Spec == Init /\ [][Next]_vars

----------------------------------------------------------------------------

\* A model's answer that a body is shown, or that goes into another request,
\* was written while everything its own request was composed from still held:
\* neither a rewrite during the call nor one that restored the old text gets
\* past, and no later projection brings the withdrawn answer back.
\* (agent_beat.rs:166, model_boundary.rs:101)
InformedByTheCurrent == \A i \in shown : tape[i].answer => ~tape[i].stale

\* Outside a running call every invoke on the tape is closed by an observation
\* that cites it, withdrawn or not, unless a crash or a failing store came
\* between. (agent_beat.rs:16)
InvokesAreClosed ==
  \A i \in DOMAIN tape :
    tape[i].tag = "action" =>
      \/ \E j \in DOMAIN tape : tape[j].of = i
      \/ beat # None /\ beat.action = i
      \/ i \in excused

\* What a body and an auditor may conclude from an agent's tape.
BoundarySafe == TypeOK /\ InformedByTheCurrent /\ InvokesAreClosed

\* A stale model call becomes a request only in the mount and under the
\* authority its inputs were read in. (model_boundary.rs:191)
NoRequestOnAReplacement ==
  [][pending' \notin {None, pending} /\ pending'.cause = "dependency_changed"
       => pending'.scope = beat.scope /\ ScopeCurrent]_vars
=============================================================================

----------------------------- MODULE ToolReview -----------------------------
(***************************************************************************)
(* The review of tool calls by AgentControl: what a call without a go      *)
(* permit has to pass before its tool runs, how the supervisor answers,    *)
(* and how a change of the workspace or of authority takes reviews away.   *)
(*                                                                         *)
(* Every review operation is one action: it holds the supervision lock     *)
(* from its first check to its last append.  The tool itself runs without  *)
(* the lock, between ReviewTool and EndRun.                                *)
(***************************************************************************)
EXTENDS AgentLifecycle

CONSTANTS
  ToolOf,    \* call -> the tool it names; a subject is a tool here
  Permit,    \* card -> tool -> the permit of its tag, "absent" if not granted
  Covers,    \* <<supervisor card, child card, tool>>: charter and files fit
  MaxRevision

ASSUME ToolOfAssumption == ToolOf \in [Call -> Subject]
ASSUME PermitAssumption == Permit \in [Card -> [Subject -> {"go", "ask", "deny", "absent"}]]
ASSUME CoversAssumption == Covers \subseteq Card \X Card \X Subject
ASSUME RevisionAssumption == MaxRevision \in Nat /\ Revision = 0..MaxRevision

VARIABLES
  generation,  \* fact kind -> id of the workspace record it currently is
  executed     \* reviews under which a tool was started (no program state)

all == <<vars, generation, executed>>
workspace == <<generation, executed>>

TypeOK ==
  /\ LedgerTypeOK /\ CoreTypeOK
  /\ generation \in [FactKind -> Revision]
  /\ executed \in SUBSET ReviewId

----------------------------------------------------------------------------

PermitOf(p, tool) == Permit[runs[p].card][tool]

\* The ceiling of an approval.
MayApprove(child, supervisor, tool) ==
  /\ PermitOf(child, tool) = "ask"
  /\ PermitOf(supervisor, tool) = "go"
  /\ <<runs[supervisor].card, runs[child].card, tool>> \in Covers

L(owner, tag, id) == [owner |-> owner, tag |-> tag, review |-> id]

\* An id is a random uuid, drawn before any append that may fail.
FreshId(id) == id \notin seen /\ \A line \in evidence : line.review # id

\* Mutant: nobody is told.
NoClosures(ids) == UNCHANGED <<evidence, failures>>

\* Closures of removed reviews, whether or not the tapes take them.
Closures(ids) == \E ok \in BOOLEAN : RecordClosures(OnSeatedTapes(PartyLines(ids)), ok)

----------------------------------------------------------------------------
(* Authority *)

SetSupervisor(child, supervisor) ==
  /\ Live(child) /\ Live(supervisor)
  /\ Bind(child, supervisor)
  /\ UNCHANGED <<core, workspace>>

RevokeReviews(p) ==
  /\ Live(p)
  /\ Closures(Involving(p))
  /\ Revoke(p)
  /\ UNCHANGED <<runs, turn, sessions, engaged, workspace>>

\* Only an approval waits for its evidence: any other answer takes effect
\* before the lines that may fail.
ResolveReview(supervisor, id, resolution) ==
  /\ Live(supervisor)
  /\ CheckResolution(supervisor, id, resolution)
  /\ LET request == pending[id].request
         child == request.child
         answer(tag, mail) ==
           <<L(child, tag, id), L(supervisor, mail, id), L(child, mail, id)>>
     IN \/ /\ request.facts # generation
           /\ Closures({id})
           /\ Close(id)
        \/ /\ request.facts = generation /\ Live(child)
           /\ resolution = "approve_once"
           /\ MayApprove(child, supervisor, ToolOf[pending[id].call])
           /\ \/ /\ Record(answer("approve_once", "mail_approve_once"), TRUE)
                 /\ Resolve(supervisor, id, resolution, runs[supervisor].card)
              \/ /\ Record(answer("approve_once", "mail_approve_once"), FALSE)
                 /\ UNCHANGED ledger
        \/ /\ request.facts = generation /\ Live(child)
           /\ resolution # "approve_once"
           /\ \E ok \in BOOLEAN : Record(answer("answer", "mail_answer"), ok)
           /\ Resolve(supervisor, id, resolution, runs[supervisor].card)
  /\ UNCHANGED <<runs, turn, sessions, engaged, workspace>>

----------------------------------------------------------------------------
(* review_tool: the step of a run between its subscription and its tool *)

StartTool(review) == turn' = [turn EXCEPT !.step = "running", !.review = review]

\* Mutant: an early return forgets the slot.
KeepSlot == turn' = turn

GiveUp == turn' = None

\* retain_review: the request goes to the tapes of both, then to the ledger.
\* Without a supervisor it only returns to the host.
RetainReview(p, mount, subject, cause, call, id, ok) ==
  LET scope == Scope(p, mount)
      supervisor == IF scope.supervisor = None THEN None ELSE scope.supervisor.principal
      request == [child |-> p, supervisor |-> supervisor, subject |-> subject,
                  facts |-> generation, cause |-> cause, scope |-> scope]
      lines == IF supervisor = None THEN <<L(p, "review_request", id)>>
               ELSE <<L(p, "review_request", id), L(p, "mail_request", id),
                      L(supervisor, "mail_request", id)>>
  IN
  /\ FreshId(id)
  /\ Record(lines, ok)
  /\ IF ok /\ supervisor # None THEN Insert(id, request, call) ELSE UNCHANGED ledger

\* A review the supervisor has not approved, or nobody to ask: the call ends.
AskForReview(p, call, id) ==
  LET cause == IF PermitOf(p, ToolOf[call]) = "ask" THEN "high_risk" ELSE "permission_denied"
  IN
  /\ \E ok \in BOOLEAN : RetainReview(p, None, ToolOf[call], cause, call, id, ok)
  /\ GiveUp
  /\ UNCHANGED executed

\* The approver is live: it holds authority, and only live agents do.
\* Consumption precedes its evidence: if that fails the approval is spent.
UseReview(p, call, id) ==
  LET approver == pending[id].request.supervisor
      valid == CheckCall(id, call, generation, runs[approver].card)
  IN
  \/ /\ ~valid
     /\ Closures({id}) /\ Close(id)
     /\ GiveUp /\ UNCHANGED executed
  \/ /\ valid /\ ~Approved(id)
     /\ GiveUp /\ UNCHANGED <<ledger, evidence, failures, executed>>
  \/ /\ valid /\ Approved(id)
     /\ MayApprove(p, approver, ToolOf[call])
     /\ Close(id)
     /\ \/ /\ Record(<<L(p, "review_consumed", id), L(p, "gate", id)>>, TRUE)
           /\ StartTool(id)
           /\ executed' = executed \cup {id}
        \/ /\ Record(<<L(p, "review_consumed", id), L(p, "gate", id)>>, FALSE)
           /\ GiveUp /\ UNCHANGED executed

ReviewTool ==
  /\ turn # None /\ turn.step = "subscribed"
  /\ LET p == turn.agent
         call == turn.call
         tool == ToolOf[call]
     IN \/ /\ ~Active(p)
           /\ GiveUp /\ UNCHANGED <<ledger, evidence, failures, executed>>
        \/ /\ Active(p) /\ PermitOf(p, tool) = "go"
           /\ StartTool(None) \/ GiveUp
           /\ UNCHANGED <<ledger, evidence, failures, executed>>
        \/ /\ Active(p) /\ PermitOf(p, tool) # "go"
           /\ \/ /\ Waiting(Scope(p, None), tool, TRUE) = {}
                 /\ \E id \in ReviewId : AskForReview(p, call, id)
              \/ \E id \in Waiting(Scope(p, None), tool, TRUE) : UseReview(p, call, id)
  /\ UNCHANGED <<runs, sessions, engaged, generation>>

----------------------------------------------------------------------------
(* register, put_config, put_env: a new record is a new generation.  When    *)
(* the write reports an error and the record is there all the same, nothing  *)
(* is invalidated; writing the current bytes again invalidates against them. *)

PutFact(kind) ==
  /\ \/ \E id \in {generation[kind] + 1, generation[kind]} :
        /\ id \in 1..MaxRevision
        /\ generation' = [generation EXCEPT ![kind] = id]
        /\ Closures(WithStaleFact(kind, id))
        /\ InvalidateFact(kind, id)
     \/ /\ generation[kind] < MaxRevision
        /\ generation' = [generation EXCEPT ![kind] = @ + 1]
        /\ AppendFails
        /\ UNCHANGED <<ledger, evidence>>
  /\ UNCHANGED <<runs, turn, sessions, engaged, executed>>

----------------------------------------------------------------------------

Init == LifecycleInit /\ generation = [kind \in FactKind |-> 0] /\ executed = {}

\* What the host's threads may do at any time.
Operation ==
  \/ LifecycleNext /\ UNCHANGED workspace
  \/ \E child, supervisor \in Principal : SetSupervisor(child, supervisor)
  \/ \E p \in Principal : RevokeReviews(p)
  \/ \E supervisor \in Principal, id \in ReviewId, resolution \in Resolution :
       ResolveReview(supervisor, id, resolution)
  \/ ReviewTool
  \/ \E kind \in FactKind : PutFact(kind)

Next == Operation \/ (Crash /\ UNCHANGED workspace)

Spec == Init /\ [][Next]_all

----------------------------------------------------------------------------
(* Properties *)

\* An approval that can still be used is on both tapes, request and mail
\* included: approve_once takes effect after the last line, not before.
ApprovalEvidenced ==
  \A id \in ReviewId : Approved(id) =>
    LET child == pending[id].request.child
        supervisor == pending[id].request.supervisor
    IN {L(child, "review_request", id), L(child, "mail_request", id),
        L(supervisor, "mail_request", id), L(child, "approve_once", id),
        L(supervisor, "mail_approve_once", id), L(child, "mail_approve_once", id)}
          \subseteq evidence

\* A tool started under a review has the whole story on its agent's tape.
ExecutionEvidenced ==
  turn # None /\ turn.step = "running" /\ PermitOf(turn.agent, ToolOf[turn.call]) # "go" =>
    {L(turn.agent, tag, turn.review) :
       tag \in {"review_request", "approve_once", "review_consumed", "gate"}} \subseteq evidence

\* What an approval and an execution leave on the tapes.
EvidenceSafe == ApprovalEvidenced /\ ExecutionEvidenced

\* A tool without a go permit starts only by consuming an approval of this very
\* call, at the current workspace and under the current authority of both
\* parties, given by a supervisor who still has the card it approved with.
StartsApproved ==
  [][turn # None /\ turn' # None /\ turn'.step = "running" /\ turn.step # "running"
       /\ PermitOf(turn.agent, ToolOf[turn.call]) # "go" =>
       \E id \in ReviewId :
         LET request == pending[id].request IN
          /\ turn'.review = id /\ Approved(id) /\ ~IsPending(id)'
          /\ pending[id].call = turn.call
          /\ request.facts = generation
          /\ request.scope.child = instances[turn.agent].ref
          /\ Current(request.scope)
          /\ Live(request.supervisor)
          /\ runs[request.supervisor].card = pending[id].approver_card
    ]_all

\* A review never goes away without a line on its child's tape, unless an
\* append fails or the process dies: no operation drops reviews silently.
RemovalsEvidenced ==
  [][\A id \in ReviewId :
       IsPending(id) /\ ~IsPending(id)' /\ failures' = failures /\ runs'[pending[id].request.child] # None =>
         \E tag \in {"review_closed", "review_consumed", "answer"} :
           L(pending[id].request.child, tag, id) \in evidence'
    ]_all

\* The stage of a request in the one-shot protocol, which has none for a
\* request that was used and still waits to be used.
StageOf(id) ==
  CASE id \in executed /\ ~IsPending(id) -> "used"
    [] id \in executed /\ IsPending(id) -> "leaked"
    [] id \notin executed /\ Approved(id) -> "approved"
    [] id \notin executed /\ IsPending(id) /\ ~Approved(id) -> "waiting"
    [] id \notin executed /\ ~IsPending(id) /\ id \in seen -> "closed"
    [] id \notin executed /\ ~IsPending(id) /\ id \notin seen -> "fresh"

Protocol == INSTANCE OneShot WITH stage <- [id \in ReviewId |-> StageOf(id)]

\* Every request goes through the one-shot protocol: in particular no approval
\* starts two tools and nothing ended is approved again, across restarts.
OneShotProtocol == Protocol!Spec

\* The documentation of the flag: "The next beat consumes it and does no work."
\* A run nobody cancelled is not told that it was.
ConsumedCancelIsGone ==
  turn # None /\ turn.call # None /\ turn.step # "begun" /\ ~turn.stopped =>
    ~runs[turn.agent].signal
=============================================================================

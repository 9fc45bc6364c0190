---------------------------- MODULE Supervision ----------------------------
(***************************************************************************)
(* The live review ledger of crates/an-agent-supervision: which agent      *)
(* instances are active, who supervises whom, which spool mounts exist,    *)
(* and which review requests wait for a supervisor's answer.               *)
(*                                                                         *)
(* The crate performs no IO and its caller serializes the transitions, so  *)
(* one successful call is one step.  A call that returns an error changes  *)
(* nothing and is a stuttering step: its condition is missing from the     *)
(* guard.  AgentControl extends this module and drives the ledger under    *)
(* the control lock.                                                       *)
(***************************************************************************)
EXTENDS Naturals

CONSTANTS
  Principal,    \* agent identities (card ids)
  Incarnation,  \* engagement ids, a fresh one for each open or resume
  MountId,      \* ids of mounted spool bodies
  ReviewId,     \* review request ids
  Subject,      \* what a review is about
  Call,         \* exact operation and input of a tool call
  FactKind,     \* kinds of facts an attempt is bound to
  Revision,     \* revisions of such a fact
  Card,         \* agent card hashes
  MaxEpoch,     \* the last authority epoch (u64::MAX in the code)
  None          \* an absent Option

Cause == {"high_risk", "permission_denied", "dependency_changed"}
Resolution == {"consult", "retry", "reject", "approve_once"}
Epoch == 0..MaxEpoch
InstanceRef == [principal : Principal, incarnation : Incarnation]
Engagement == [ref : InstanceRef, epoch : Epoch]
Facts == [FactKind -> Revision]
ReviewScope == [child : InstanceRef, supervisor : InstanceRef \cup {None},
                mount : MountId \cup {None}, child_epoch : Epoch,
                supervisor_epoch : Epoch \cup {None}]
ReviewRequest == [child : Principal, supervisor : Principal \cup {None},
                  subject : Subject, facts : Facts, cause : Cause,
                  scope : ReviewScope]
PendingReview == [request : ReviewRequest, call : Call \cup {None},
                  approver_card : Card \cup {None}]

ASSUME EpochAssumption == MaxEpoch \in Nat
ASSUME NoneAssumption ==
  /\ None \notin Principal /\ None \notin MountId
  /\ None \notin Call /\ None \notin Card /\ None \notin Epoch
  /\ None \notin InstanceRef /\ None \notin Engagement
  /\ None \notin PendingReview

VARIABLES
  instances,    \* principal -> its active engagement, or None
  mounts,       \* the mounted bodies
  supervisors,  \* instance -> the instance that supervises it, or None
  pending,      \* review id -> the pending review, or None
  seen          \* every id ever inserted

ledger == <<instances, mounts, supervisors, pending, seen>>

LedgerTypeOK ==
  /\ instances \in [Principal -> Engagement \cup {None}]
  /\ \A p \in Principal : instances[p] # None => instances[p].ref.principal = p
  /\ mounts \in SUBSET MountId
  /\ supervisors \in [InstanceRef -> InstanceRef \cup {None}]
  /\ pending \in [ReviewId -> PendingReview \cup {None}]
  /\ seen \in SUBSET ReviewId

----------------------------------------------------------------------------
(* Reading the ledger *)

Active(p) == instances[p] # None
Mounted(m) == m \in mounts
IsPending(id) == pending[id] # None
Approved(id) == IsPending(id) /\ pending[id].approver_card # None

\* The exact engagement is the active one of its principal.
LiveRef(i) == Active(i.principal) /\ instances[i.principal].ref = i

\* The current authority of a child and a mount; callers check InScope first.
InScope(p, m) == Active(p) /\ (m = None \/ Mounted(m))
Scope(p, m) ==
  LET child == instances[p].ref
      parent == supervisors[child]
  IN  [child |-> child, supervisor |-> parent, mount |-> m,
       child_epoch |-> instances[p].epoch,
       supervisor_epoch |-> IF parent = None THEN None
                            ELSE instances[parent.principal].epoch]

Current(scope) ==
  /\ InScope(scope.child.principal, scope.mount)
  /\ Scope(scope.child.principal, scope.mount) = scope

\* The reviews of one scope and subject; has_call separates tool calls from
\* requests about a body.
Waiting(scope, subject, has_call) ==
  {id \in ReviewId : /\ IsPending(id)
                     /\ pending[id].request.scope = scope
                     /\ pending[id].request.subject = subject
                     /\ (pending[id].call # None) = has_call}

Involving(p) ==
  {id \in ReviewId : /\ IsPending(id)
                     /\ \/ pending[id].request.child = p
                        \/ pending[id].request.supervisor = p}
OnMount(m) ==
  {id \in ReviewId : IsPending(id) /\ pending[id].request.scope.mount = m}
WithStaleFact(kind, revision) ==
  {id \in ReviewId : IsPending(id) /\ pending[id].request.facts[kind] # revision}

\* A set of instances that contains the supervisor of each of its members.
UpClosed(S, parent) ==
  \A i \in S : parent[i] # None => parent[i] \in S

\* The walk of check_binding from one instance up never meets another.
NotAbove(i, start) ==
  \E S \in SUBSET InstanceRef :
    start \in S /\ i \notin S /\ UpClosed(S, supervisors)

----------------------------------------------------------------------------
(* Transitions *)

Remove(ids) == pending' = [id \in ReviewId |-> IF id \in ids THEN None ELSE pending[id]]

Open(i) ==
  /\ ~Active(i.principal)
  /\ instances' = [instances EXCEPT ![i.principal] = [ref |-> i, epoch |-> 0]]
  /\ UNCHANGED <<mounts, supervisors, pending, seen>>

Mount(m) ==
  /\ mounts' = mounts \cup {m}
  /\ UNCHANGED <<instances, supervisors, pending, seen>>

Unmount(m) ==
  /\ mounts' = mounts \ {m}
  /\ Remove(OnMount(m))
  /\ UNCHANGED <<instances, supervisors, seen>>

CheckBinding(child, supervisor) ==
  /\ Active(child) /\ Active(supervisor)
  /\ \A id \in ReviewId : IsPending(id) => pending[id].request.child # child
  /\ NotAbove(instances[child].ref, instances[supervisor].ref)

Bind(child, supervisor) ==
  /\ CheckBinding(child, supervisor)
  /\ supervisors' = [supervisors EXCEPT ![instances[child].ref] = instances[supervisor].ref]
  /\ UNCHANGED <<instances, mounts, pending, seen>>

\* Mutant: closed ids are forgotten.
InsertAgain(id, request, call) ==
  LET scope == request.scope IN
  /\ Current(scope)
  /\ scope.child.principal = request.child
  /\ scope.supervisor # None
  /\ scope.supervisor.principal = request.supervisor
  /\ ~IsPending(id)
  /\ Waiting(scope, request.subject, call # None) = {}
  /\ seen' = seen \cup {id}
  /\ pending' = [pending EXCEPT ![id] =
                   [request |-> request, call |-> call, approver_card |-> None]]
  /\ UNCHANGED <<instances, mounts, supervisors>>

Insert(id, request, call) ==
  LET scope == request.scope IN
  /\ Current(scope)
  /\ scope.child.principal = request.child
  /\ scope.supervisor # None
  /\ scope.supervisor.principal = request.supervisor
  /\ id \notin seen
  /\ Waiting(scope, request.subject, call # None) = {}
  /\ seen' = seen \cup {id}
  /\ pending' = [pending EXCEPT ![id] =
                   [request |-> request, call |-> call, approver_card |-> None]]
  /\ UNCHANGED <<instances, mounts, supervisors>>

CheckResolution(supervisor, id, resolution) ==
  /\ IsPending(id)
  /\ Current(pending[id].request.scope)
  /\ Active(supervisor)
  /\ pending[id].request.scope.supervisor = instances[supervisor].ref
  /\ resolution = "approve_once" =>
       /\ ~Approved(id)
       /\ pending[id].call # None
       /\ pending[id].request.cause = "high_risk"

WithApprover(id, card) ==
  [request |-> pending[id].request, call |-> pending[id].call, approver_card |-> card]

\* Mutant: an answer counts for every review of its subject.
ResolveSubject(supervisor, id, resolution, card) ==
  /\ CheckResolution(supervisor, id, resolution)
  /\ pending' = [other \in ReviewId |->
                   IF IsPending(other) /\ pending[other].request.subject = pending[id].request.subject
                   THEN WithApprover(other, IF resolution = "approve_once" THEN card ELSE None)
                   ELSE pending[other]]
  /\ UNCHANGED <<instances, mounts, supervisors, seen>>

\* Consult keeps the request waiting and withdraws an approval it had.
Resolve(supervisor, id, resolution, card) ==
  /\ CheckResolution(supervisor, id, resolution)
  /\ \/ /\ resolution = "approve_once"
        /\ pending' = [pending EXCEPT ![id] = WithApprover(id, card)]
     \/ /\ resolution = "consult"
        /\ pending' = [pending EXCEPT ![id] = WithApprover(id, None)]
     \/ /\ resolution \in {"retry", "reject"}
        /\ Remove({id})
  /\ UNCHANGED <<instances, mounts, supervisors, seen>>

\* Mutant: the approval of one call of a tool admits another.
CheckTool(id, call, facts, card) ==
  /\ IsPending(id)
  /\ Current(pending[id].request.scope)
  /\ pending[id].request.facts = facts
  /\ pending[id].approver_card \in {None, card}

\* The inputs of the call still are the reviewed ones; the answer of the code
\* is Approved(id), an error otherwise.
CheckCall(id, call, facts, card) ==
  /\ IsPending(id)
  /\ Current(pending[id].request.scope)
  /\ pending[id].call = call
  /\ pending[id].request.facts = facts
  /\ pending[id].approver_card \in {None, card}

\* Mutant: a consumed review stays where it is.
KeepOpen(id) == UNCHANGED ledger

Close(id) ==
  /\ Remove({id})
  /\ UNCHANGED <<instances, mounts, supervisors, seen>>

\* Mutant: who was supervised by the instance still is.
RetireAlone(p) ==
  /\ instances' = [instances EXCEPT ![p] = None]
  /\ supervisors' = [i \in InstanceRef |->
                       IF Active(p) /\ instances[p].ref = i THEN None ELSE supervisors[i]]
  /\ Remove(Involving(p))
  /\ UNCHANGED <<mounts, seen>>

Retire(p) ==
  /\ instances' = [instances EXCEPT ![p] = None]
  /\ supervisors' =
       [i \in InstanceRef |->
          IF Active(p) /\ instances[p].ref \in {i, supervisors[i]}
          THEN None ELSE supervisors[i]]
  /\ Remove(Involving(p))
  /\ UNCHANGED <<mounts, seen>>

\* An exhausted epoch retires the instance instead of wrapping around.
Revoke(p) ==
  /\ Active(p)
  /\ IF instances[p].epoch = MaxEpoch
     THEN Retire(p)
     ELSE /\ instances' = [instances EXCEPT ![p] =
                           [ref |-> instances[p].ref, epoch |-> instances[p].epoch + 1]]
          /\ Remove(Involving(p))
          /\ UNCHANGED <<mounts, supervisors, seen>>

InvalidateFact(kind, revision) ==
  /\ Remove(WithStaleFact(kind, revision))
  /\ UNCHANGED <<instances, mounts, supervisors, seen>>

----------------------------------------------------------------------------

LedgerInit ==
  /\ instances = [p \in Principal |-> None]
  /\ mounts = {}
  /\ supervisors = [i \in InstanceRef |-> None]
  /\ pending = [id \in ReviewId |-> None]
  /\ seen = {}

\* A caller may ask anything of a scope it has read, current or not any more.
InsertAny ==
  \E id \in ReviewId, p \in Principal, sup \in Principal \cup {None},
     m \in MountId \cup {None}, s \in Subject, c \in Call \cup {None},
     facts \in Facts, cause \in Cause :
       /\ InScope(p, m)
       /\ Insert(id, [child |-> p, supervisor |-> sup, subject |-> s, facts |-> facts,
                      cause |-> cause, scope |-> Scope(p, m)], c)

LedgerNext ==
  \/ \E i \in InstanceRef : Open(i)
  \/ \E m \in MountId : Mount(m) \/ Unmount(m)
  \/ \E child, supervisor \in Principal : Bind(child, supervisor)
  \/ \E supervisor \in Principal, id \in ReviewId, r \in Resolution, card \in Card :
       Resolve(supervisor, id, r, card)
  \/ \E id \in ReviewId : Close(id)
  \/ \E p \in Principal : Revoke(p) \/ Retire(p)
  \/ \E kind \in FactKind, revision \in Revision : InvalidateFact(kind, revision)
  \/ InsertAny

LedgerSpec == LedgerInit /\ [][LedgerNext]_ledger

----------------------------------------------------------------------------
(* Properties *)

\* Both ends of a supervision edge are active engagements.  scope() indexes
\* the supervisor's entry without a check, so a dangling edge is a panic of
\* the host process, and a reopened principal must not inherit an edge.
EdgesLive ==
  \A i \in InstanceRef :
    supervisors[i] # None => LiveRef(i) /\ LiveRef(supervisors[i])

\* No instance supervises itself through any chain.  The loop of
\* check_binding ends only because of this.
Acyclic ==
  \A S \in SUBSET InstanceRef :
    S # {} => \E i \in S : supervisors[i] \notin S

\* Whatever revokes authority (a new epoch, a retired instance, an unmount, a
\* rebinding) removes or is refused by the reviews under it: what waits in the
\* ledger is always decided under the authority it was requested under.
PendingCurrent ==
  \A id \in ReviewId : IsPending(id) =>
    LET r == pending[id].request IN
      /\ Current(r.scope)
      /\ r.child = r.scope.child.principal
      /\ r.scope.supervisor # None
      /\ r.supervisor = r.scope.supervisor.principal

\* waiting() takes the first match of an unordered map: two matches would make
\* the answer to a tool call depend on the hash order.
WaitingUnique ==
  \A id, other \in ReviewId :
    LET r == pending[id].request IN
      IsPending(id) /\ other \in Waiting(r.scope, r.subject, pending[id].call # None)
        => other = id

\* An approval is only ever held by a high risk tool call: a denied permission
\* or a changed dependency is never approved away.
ApprovedIsHighRiskCall ==
  \A id \in ReviewId : Approved(id) =>
    pending[id].call # None /\ pending[id].request.cause = "high_risk"

\* A closed request never comes back: its id admits no second approval.
ClosedForGood ==
  [][\A id \in seen : ~IsPending(id) => ~IsPending(id)']_ledger

\* An approval appears only on a request that was already waiting, by itself:
\* no request is born approved, none is approved together with another.
ApprovalsOneByOne ==
  [][\A id, other \in ReviewId :
       /\ Approved(id)' /\ ~Approved(id)
       /\ Approved(other)' /\ ~Approved(other)
       => id = other /\ IsPending(id)]_ledger

\* What the control plane relies on whenever it reads the ledger: supervision is
\* a forest of live engagements, and what waits, waits once and under authority
\* that still holds. (an-agent-supervision/src/lib.rs:113)
LedgerSafe ==
  LedgerTypeOK /\ EdgesLive /\ Acyclic /\ PendingCurrent /\ WaitingUnique /\ ApprovedIsHighRiskCall
=============================================================================

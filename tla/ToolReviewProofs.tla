-------------------------- MODULE ToolReviewProofs --------------------------
(***************************************************************************)
(* Proofs about the review ledger, for any number of principals, mounts,   *)
(* reviews and epochs, and about the control plane that drives it, for any *)
(* number of agents, sessions, failing appends and permits.                *)
(***************************************************************************)
EXTENDS ToolReview, TLAPS

----------------------------------------------------------------------------
(* The ledger *)

\* The strengthening that every step preserves.  A scope is typed only because
\* both ends of an edge are active, and a pending review stays current only
\* because it is filed under the principals its scope names.
LedgerInv ==
  /\ LedgerTypeOK
  /\ EdgesLive
  /\ Acyclic
  /\ PendingCurrent
  /\ WaitingUnique
  /\ ApprovedIsHighRiskCall

----------------------------------------------------------------------------
(* Lemmas about the operators *)

\* An active child in the scope of a mounted body has a well-formed scope.
LEMMA ScopeType ==
  ASSUME LedgerTypeOK, EdgesLive, NEW p \in Principal, NEW m \in MountId \cup {None},
         InScope(p, m)
  PROVE  /\ Scope(p, m) \in ReviewScope
         /\ Scope(p, m).child.principal = p
         /\ Scope(p, m).mount = m
         /\ Current(Scope(p, m))
<1> DEFINE child == instances[p].ref
           parent == supervisors[child]
<1>1. child \in InstanceRef /\ child.principal = p /\ instances[p].epoch \in Epoch
  BY DEF InScope, Active, LedgerTypeOK, Engagement
<1>2. parent = None \/ (parent \in InstanceRef /\ instances[parent.principal].epoch \in Epoch)
  <2>1. CASE parent = None
    BY <2>1
  <2>2. CASE parent # None
    <3>1. parent \in InstanceRef /\ LiveRef(parent)
      BY <1>1, <2>2 DEF LedgerTypeOK, EdgesLive
    <3>2. parent.principal \in Principal
      BY <3>1 DEF InstanceRef
    <3>3. instances[parent.principal] \in Engagement
      BY <3>1, <3>2 DEF LiveRef, Active, LedgerTypeOK
    <3> QED
      BY <3>1, <3>3 DEF Engagement
  <2> QED
    BY <2>1, <2>2
<1>3. Scope(p, m) = [child |-> child, supervisor |-> parent, mount |-> m,
                     child_epoch |-> instances[p].epoch,
                     supervisor_epoch |-> IF parent = None THEN None
                                          ELSE instances[parent.principal].epoch]
  BY DEF Scope
<1>4. Scope(p, m) \in ReviewScope
  BY <1>1, <1>2, <1>3 DEF ReviewScope
<1> QED
  BY <1>1, <1>3, <1>4 DEF Current

\* Removing reviews keeps the type and the other reviews as they are.
LEMMA RemoveLemma ==
  ASSUME LedgerTypeOK, NEW ids, Remove(ids)
  PROVE  /\ pending' \in [ReviewId -> PendingReview \cup {None}]
         /\ \A id \in ReviewId : IsPending(id)' => IsPending(id) /\ pending'[id] = pending[id]
                                                   /\ id \notin ids
BY DEF Remove, LedgerTypeOK, IsPending

\* A revocation that does not retire keeps the engagement, one epoch later.
LEMMA RevokeLemma ==
  ASSUME LedgerTypeOK, NEW p \in Principal, Revoke(p), instances[p].epoch # MaxEpoch
  PROVE  /\ instances' \in [Principal -> Engagement \cup {None}]
         /\ \A q \in Principal : /\ Active(q)' = Active(q)
                                 /\ Active(q) => instances'[q].ref = instances[q].ref
                                 /\ q # p => instances'[q] = instances[q]
         /\ Remove(Involving(p))
         /\ UNCHANGED <<mounts, supervisors, seen>>
<1>1. instances[p] \in Engagement
  BY DEF Revoke, Active, LedgerTypeOK
<1>2. instances[p].ref \in InstanceRef /\ instances[p].epoch \in Epoch
  BY <1>1 DEF Engagement
<1>3. instances[p].epoch + 1 \in Epoch
  BY <1>2, EpochAssumption DEF Epoch
<1>4. [ref |-> instances[p].ref, epoch |-> instances[p].epoch + 1] \in Engagement
  BY <1>2, <1>3 DEF Engagement
<1> DEFINE next == [ref |-> instances[p].ref, epoch |-> instances[p].epoch + 1]
<1>5. instances' = [instances EXCEPT ![p] = next] /\ next.ref = instances[p].ref
  BY DEF Revoke
<1>6. next \in Engagement /\ next # None
  BY <1>4, NoneAssumption
<1>7. UNCHANGED <<mounts, supervisors, seen>> /\ Remove(Involving(p)) /\ Active(p)
  BY DEF Revoke
<1> HIDE DEF next
<1>8. instances' \in [Principal -> Engagement \cup {None}]
  BY <1>5, <1>6 DEF LedgerTypeOK
<1>9. ASSUME NEW q \in Principal
      PROVE  /\ Active(q)' = Active(q)
             /\ Active(q) => instances'[q].ref = instances[q].ref
             /\ q # p => instances'[q] = instances[q]
  BY <1>5, <1>6, <1>7 DEF LedgerTypeOK, Active
<1> QED
  BY <1>7, <1>8, <1>9

----------------------------------------------------------------------------
(* Type correctness and live edges *)

\* The empty ledger satisfies the strengthening.
LEMMA LedgerInitInv == LedgerInit => LedgerInv
<1> SUFFICES ASSUME LedgerInit PROVE LedgerInv
  OBVIOUS
<1> USE NoneAssumption DEF LedgerInit
<1>1. LedgerTypeOK
  BY DEF LedgerTypeOK
<1>2. EdgesLive
  BY DEF EdgesLive
<1>3. Acyclic
  BY DEF Acyclic
<1>4. PendingCurrent /\ WaitingUnique /\ ApprovedIsHighRiskCall
  BY DEF PendingCurrent, WaitingUnique, Waiting, ApprovedIsHighRiskCall, Approved, IsPending
<1> QED
  BY <1>1, <1>2, <1>3, <1>4 DEF LedgerInv

\* Every transition keeps the types: an epoch is incremented only below the last.
LEMMA TypeStep ==
  ASSUME LedgerTypeOK, EdgesLive, [LedgerNext]_ledger
  PROVE  LedgerTypeOK'
<1> USE EpochAssumption, NoneAssumption
<1>1. CASE UNCHANGED ledger
  BY <1>1 DEF ledger, LedgerTypeOK
<1>2. ASSUME NEW i \in InstanceRef, Open(i)
      PROVE  LedgerTypeOK'
  <2>1. [ref |-> i, epoch |-> 0] \in Engagement /\ i.principal \in Principal
    BY DEF Engagement, Epoch, InstanceRef
  <2> QED
    BY <1>2, <2>1 DEF Open, LedgerTypeOK
<1>3. ASSUME NEW m \in MountId, Mount(m) \/ Unmount(m)
      PROVE  LedgerTypeOK'
  BY <1>3, RemoveLemma DEF Mount, Unmount, LedgerTypeOK
<1>4. ASSUME NEW child \in Principal, NEW supervisor \in Principal, Bind(child, supervisor)
      PROVE  LedgerTypeOK'
  <2>1. instances[supervisor].ref \in InstanceRef
    BY <1>4 DEF Bind, CheckBinding, Active, LedgerTypeOK, Engagement
  <2> QED
    BY <1>4, <2>1 DEF Bind, LedgerTypeOK
<1>5. CASE InsertAny
  <2> PICK id \in ReviewId, p \in Principal, sup \in Principal \cup {None},
           m \in MountId \cup {None}, s \in Subject, c \in Call \cup {None},
           facts \in Facts, cause \in Cause :
        /\ InScope(p, m)
        /\ Insert(id, [child |-> p, supervisor |-> sup, subject |-> s, facts |-> facts,
                       cause |-> cause, scope |-> Scope(p, m)], c)
    BY <1>5 DEF InsertAny
  <2> DEFINE r == [child |-> p, supervisor |-> sup, subject |-> s, facts |-> facts,
                   cause |-> cause, scope |-> Scope(p, m)]
  <2>1. r \in ReviewRequest
    BY ScopeType DEF ReviewRequest
  <2>2. [request |-> r, call |-> c, approver_card |-> None] \in PendingReview
    BY <2>1 DEF PendingReview
  <2> HIDE DEF r
  <2>3. Insert(id, r, c)
    BY DEF r
  <2> QED
    BY <2>2, <2>3 DEF Insert, LedgerTypeOK
<1>6. ASSUME NEW supervisor \in Principal, NEW id \in ReviewId, NEW res \in Resolution,
             NEW card \in Card, Resolve(supervisor, id, res, card)
      PROVE  LedgerTypeOK'
  <2>1. pending[id] \in PendingReview
    BY <1>6 DEF Resolve, CheckResolution, IsPending, LedgerTypeOK
  <2>2. ASSUME NEW c \in Card \cup {None}, pending' = [pending EXCEPT ![id] = WithApprover(id, c)]
        PROVE  pending' \in [ReviewId -> PendingReview \cup {None}]
    BY <2>1, <2>2 DEF LedgerTypeOK, PendingReview, WithApprover
  <2>3. pending' \in [ReviewId -> PendingReview \cup {None}]
    BY <1>6, <2>2, RemoveLemma DEF Resolve, Resolution
  <2> QED
    BY <1>6, <2>3 DEF Resolve, LedgerTypeOK
<1>7. ASSUME NEW id \in ReviewId, Close(id)
      PROVE  LedgerTypeOK'
  BY <1>7, RemoveLemma DEF Close, LedgerTypeOK
<1>8. ASSUME NEW p \in Principal, Retire(p)
      PROVE  LedgerTypeOK'
  BY <1>8, RemoveLemma DEF Retire, LedgerTypeOK
<1>9. ASSUME NEW p \in Principal, Revoke(p)
      PROVE  LedgerTypeOK'
  <2>1. CASE instances[p].epoch = MaxEpoch
    BY <1>8, <1>9, <2>1 DEF Revoke
  <2>2. CASE instances[p].epoch # MaxEpoch
    <3>1. \A q \in Principal : instances'[q] # None => instances'[q].ref.principal = q
      BY <1>9, <2>2, RevokeLemma DEF LedgerTypeOK, Active
    <3> QED
      BY <1>9, <2>2, <3>1, RevokeLemma, RemoveLemma DEF LedgerTypeOK
  <2> QED
    BY <2>1, <2>2
<1>10. ASSUME NEW kind \in FactKind, NEW revision \in Revision, InvalidateFact(kind, revision)
       PROVE  LedgerTypeOK'
  BY <1>10, RemoveLemma DEF InvalidateFact, LedgerTypeOK
<1> QED
  BY <1>1, <1>2, <1>3, <1>4, <1>5, <1>6, <1>7, <1>8, <1>9, <1>10 DEF LedgerNext

\* The steps that change who is active or who supervises whom.
LEMMA AuthoritySteps ==
  ASSUME [LedgerNext]_ledger
  PROVE  \/ UNCHANGED <<instances, supervisors>>
         \/ \E i \in InstanceRef : Open(i)
         \/ \E child, supervisor \in Principal : Bind(child, supervisor)
         \/ \E p \in Principal : Revoke(p)
         \/ \E p \in Principal : Retire(p)
<1>1. InsertAny => UNCHANGED <<instances, supervisors>>
  BY DEF InsertAny, Insert
<1>2. \A supervisor, id, r, card :
        Resolve(supervisor, id, r, card) => UNCHANGED <<instances, supervisors>>
  BY DEF Resolve
<1>3. /\ \A m : Mount(m) \/ Unmount(m) => UNCHANGED <<instances, supervisors>>
      /\ \A id : Close(id) => UNCHANGED <<instances, supervisors>>
      /\ \A k, r : InvalidateFact(k, r) => UNCHANGED <<instances, supervisors>>
  BY DEF Mount, Unmount, Close, InvalidateFact
<1>4. UNCHANGED ledger => UNCHANGED <<instances, supervisors>>
  BY DEF ledger
<1> QED
  BY <1>1, <1>2, <1>3, <1>4 DEF LedgerNext

\* Every transition keeps both ends of an edge active.
LEMMA EdgesStep ==
  ASSUME LedgerTypeOK, EdgesLive, [LedgerNext]_ledger
  PROVE  EdgesLive'
<1> USE NoneAssumption DEF EdgesLive, LiveRef, Active
<1>1. CASE UNCHANGED <<instances, supervisors>>
  BY <1>1
<1>2. ASSUME NEW i \in InstanceRef, Open(i)
      PROVE  EdgesLive'
  BY <1>2 DEF Open, LedgerTypeOK, InstanceRef
<1>3. ASSUME NEW child \in Principal, NEW supervisor \in Principal, Bind(child, supervisor)
      PROVE  EdgesLive'
  BY <1>3 DEF Bind, CheckBinding, LedgerTypeOK, Engagement
<1>4. ASSUME NEW p \in Principal, Retire(p)
      PROVE  EdgesLive'
  <2> SUFFICES ASSUME NEW i \in InstanceRef, supervisors'[i] # None
               PROVE  LiveRef(i)' /\ LiveRef(supervisors[i])'
    OBVIOUS
  <2>1. supervisors'[i] = supervisors[i] /\ supervisors[i] # None
    BY <1>4 DEF Retire
  <2>2. LiveRef(i) /\ LiveRef(supervisors[i]) /\ supervisors[i] \in InstanceRef
    BY <2>1 DEF LedgerTypeOK
  <2>3. i.principal # p /\ supervisors[i].principal # p
    BY <1>4, <2>1, <2>2 DEF Retire
  <2> QED
    BY <1>4, <2>1, <2>2, <2>3 DEF Retire, LedgerTypeOK, InstanceRef
<1>5. ASSUME NEW p \in Principal, Revoke(p)
      PROVE  EdgesLive'
  <2>1. CASE instances[p].epoch = MaxEpoch
    BY <1>4, <1>5, <2>1 DEF Revoke
  <2>2. CASE instances[p].epoch # MaxEpoch
    <3>1. /\ UNCHANGED supervisors
          /\ \A q \in Principal : /\ Active(q)' = Active(q)
                                  /\ Active(q) => instances'[q].ref = instances[q].ref
      BY <1>5, <2>2, RevokeLemma
    <3>2. ASSUME NEW i \in InstanceRef, LiveRef(i)
          PROVE  LiveRef(i)'
      <4>1. i.principal \in Principal
        BY DEF InstanceRef
      <4> QED
        BY <3>1, <3>2, <4>1
    <3>3. \A i \in InstanceRef : supervisors[i] # None => supervisors[i] \in InstanceRef
      BY DEF LedgerTypeOK
    <3> HIDE DEF LiveRef, Active
    <3> QED
      BY <3>1, <3>2, <3>3
  <2> QED
    BY <2>1, <2>2
<1> HIDE DEF EdgesLive, LiveRef, Active
<1> QED
  BY <1>1, <1>2, <1>3, <1>4, <1>5, AuthoritySteps

----------------------------------------------------------------------------
(* No supervision cycle *)

\* A binding that passed the walk of check_binding closes no cycle: were S a
\* cycle through the new edge, its part above the supervisor would have been
\* one before.
LEMMA AcyclicStep ==
  ASSUME LedgerTypeOK, EdgesLive, Acyclic, [LedgerNext]_ledger
  PROVE  Acyclic'
<1> USE NoneAssumption
<1>1. CASE UNCHANGED supervisors
  BY <1>1 DEF Acyclic
<1>2. ASSUME NEW child \in Principal, NEW supervisor \in Principal, Bind(child, supervisor)
      PROVE  Acyclic'
  <2> DEFINE c == instances[child].ref
             s == instances[supervisor].ref
  <2>1. c \in InstanceRef /\ s \in InstanceRef
    BY <1>2 DEF Bind, CheckBinding, Active, LedgerTypeOK, Engagement
  <2>2. supervisors' = [supervisors EXCEPT ![c] = s]
    BY <1>2 DEF Bind
  <2>3. PICK C \in SUBSET InstanceRef : s \in C /\ c \notin C /\ UpClosed(C, supervisors)
    BY <1>2 DEF Bind, CheckBinding, NotAbove
  <2> HIDE DEF c, s
  <2> SUFFICES ASSUME NEW S \in SUBSET InstanceRef, S # {},
                      \A i \in S : supervisors'[i] \in S
               PROVE  FALSE
    BY DEF Acyclic
  <2>4. CASE c \notin S
    BY <2>1, <2>2, <2>4 DEF Acyclic, LedgerTypeOK
  <2>5. CASE c \in S
    <3>1. s \in S
      BY <2>1, <2>2, <2>5 DEF LedgerTypeOK
    <3>2. S \cap C \in SUBSET InstanceRef /\ S \cap C # {}
      BY <2>3, <3>1
    <3>3. \A i \in S \cap C : supervisors[i] \in S \cap C
      <4> TAKE i \in S \cap C
      <4>1. i # c /\ supervisors'[i] = supervisors[i]
        BY <2>2, <2>3 DEF LedgerTypeOK
      <4>2. supervisors[i] \in S /\ supervisors[i] # None
        BY <4>1
      <4> QED
        BY <2>3, <4>2 DEF UpClosed
    <3> QED
      BY <3>2, <3>3 DEF Acyclic
  <2> QED
    BY <2>4, <2>5
<1>3. ASSUME NEW p \in Principal, Retire(p)
      PROVE  Acyclic'
  <2>1. \A i \in InstanceRef : supervisors'[i] \in {None, supervisors[i]}
    BY <1>3 DEF Retire
  <2> QED
    BY <2>1 DEF Acyclic
<1>4. /\ \A i : Open(i) => UNCHANGED supervisors
      /\ \A p : Revoke(p) => UNCHANGED supervisors \/ Retire(p)
  BY DEF Open, Revoke
<1> QED
  BY <1>1, <1>2, <1>3, <1>4, AuthoritySteps

----------------------------------------------------------------------------
(* What waits is current *)

ReviewCurrent(r) ==
  /\ Current(r.scope)
  /\ r.child = r.scope.child.principal
  /\ r.scope.supervisor # None
  /\ r.supervisor = r.scope.supervisor.principal

\* What a pending entry holds when it is not None.
LEMMA PendingIsTyped ==
  ASSUME LedgerTypeOK, NEW id \in ReviewId, IsPending(id)
  PROVE  /\ pending[id] \in PendingReview
         /\ pending[id].request \in ReviewRequest
         /\ pending[id].request.scope \in ReviewScope
         /\ pending[id].request.scope.child \in InstanceRef
         /\ pending[id].request.scope.child.principal \in Principal
<1>1. pending[id] \in PendingReview
  BY DEF LedgerTypeOK, IsPending
<1>2. pending[id].request \in ReviewRequest
  BY <1>1 DEF PendingReview
<1>3. pending[id].request.scope \in ReviewScope
  BY <1>2 DEF ReviewRequest
<1>4. pending[id].request.scope.child \in InstanceRef
  BY <1>3 DEF ReviewScope
<1> QED
  BY <1>1, <1>2, <1>3, <1>4 DEF InstanceRef

\* A current review names the active engagements of its child and supervisor.
LEMMA ReviewParties ==
  ASSUME LedgerTypeOK, EdgesLive, NEW r \in ReviewRequest, ReviewCurrent(r)
  PROVE  /\ r.child \in Principal /\ r.supervisor \in Principal
         /\ Active(r.child) /\ Active(r.supervisor)
         /\ instances[r.child].ref = r.scope.child
         /\ instances[r.supervisor].ref = r.scope.supervisor
         /\ supervisors[r.scope.child] = r.scope.supervisor
         /\ r.scope.child \in InstanceRef /\ r.scope.supervisor \in InstanceRef
<1>1. r.scope \in ReviewScope
  BY DEF ReviewRequest
<1>2. r.scope.child \in InstanceRef /\ r.scope.supervisor \in InstanceRef
  BY <1>1 DEF ReviewScope, ReviewCurrent
<1>3. r.child \in Principal /\ r.supervisor \in Principal
  BY <1>2 DEF ReviewCurrent, InstanceRef
<1>4. Active(r.child) /\ Scope(r.child, r.scope.mount) = r.scope
  BY DEF ReviewCurrent, Current, InScope
<1>5. instances[r.child].ref = r.scope.child /\ supervisors[instances[r.child].ref] = r.scope.supervisor
  BY <1>4 DEF Scope
<1>6. LiveRef(r.scope.supervisor)
  BY <1>2, <1>5 DEF EdgesLive, ReviewCurrent
<1> QED
  BY <1>2, <1>3, <1>4, <1>5, <1>6 DEF LiveRef, ReviewCurrent

\* A step that leaves the parties, the edge and the mount of a review alone
\* leaves it current.
LEMMA ReviewKept ==
  ASSUME LedgerTypeOK, EdgesLive, NEW r \in ReviewRequest, ReviewCurrent(r),
         instances'[r.child] = instances[r.child],
         instances'[r.supervisor] = instances[r.supervisor],
         supervisors'[r.scope.child] = supervisors[r.scope.child],
         r.scope.mount # None => r.scope.mount \in mounts'
  PROVE  ReviewCurrent(r)'
<1>1. /\ r.child = r.scope.child.principal
      /\ r.scope.supervisor # None
      /\ r.supervisor = r.scope.supervisor.principal
  BY DEF ReviewCurrent
<1>2. /\ instances[r.child].ref = r.scope.child
      /\ supervisors[r.scope.child] = r.scope.supervisor
      /\ Active(r.child)
  BY ReviewParties
<1>3. Scope(r.child, r.scope.mount)' = Scope(r.child, r.scope.mount)
  BY <1>1, <1>2 DEF Scope
<1>4. InScope(r.child, r.scope.mount)'
  BY <1>2 DEF InScope, Active, Mounted
<1>5. Scope(r.child, r.scope.mount) = r.scope
  BY <1>1 DEF ReviewCurrent, Current
<1> QED
  BY <1>1, <1>3, <1>4, <1>5 DEF ReviewCurrent, Current

\* A step preserves PendingCurrent if it touches no party, edge or mount of
\* the reviews that stay.
LEMMA PendingKept ==
  ASSUME LedgerTypeOK, EdgesLive, PendingCurrent,
         \A id \in ReviewId : IsPending(id)' =>
           /\ IsPending(id)
           /\ pending'[id].request = pending[id].request
           /\ \A r \in ReviewRequest :
                r = pending[id].request /\ ReviewCurrent(r) =>
                  /\ instances'[r.child] = instances[r.child]
                  /\ instances'[r.supervisor] = instances[r.supervisor]
                  /\ supervisors'[r.scope.child] = supervisors[r.scope.child]
                  /\ r.scope.mount # None => r.scope.mount \in mounts'
  PROVE  PendingCurrent'
<1> SUFFICES ASSUME NEW id \in ReviewId, IsPending(id)'
             PROVE  ReviewCurrent(pending[id].request)'
  BY DEF PendingCurrent, ReviewCurrent
<1>1. IsPending(id) /\ pending'[id].request = pending[id].request
  OBVIOUS
<1>2. PICK r \in ReviewRequest : r = pending[id].request
  BY <1>1, PendingIsTyped
<1>3. ReviewCurrent(r)
  BY <1>1, <1>2 DEF PendingCurrent, ReviewCurrent
<1>4. ReviewCurrent(r)'
  BY <1>1, <1>2, <1>3, ReviewKept
<1>5. pending'[id].request = r
  BY <1>1, <1>2
<1> QED
  BY <1>4, <1>5 DEF ReviewCurrent

\* Every transition keeps what waits under the authority it was requested under.
LEMMA CurrentStep ==
  ASSUME LedgerTypeOK, EdgesLive, PendingCurrent, [LedgerNext]_ledger
  PROVE  PendingCurrent'
<1> USE NoneAssumption
<1> DEFINE Same(id) == /\ IsPending(id)
                       /\ pending'[id].request = pending[id].request
           Mounts(r) == r.scope.mount # None => r.scope.mount \in mounts
<1>1. ASSUME NEW r \in ReviewRequest, ReviewCurrent(r)
      PROVE  Mounts(r)
  BY <1>1 DEF ReviewCurrent, Current, InScope, Mounted
<1>2. ASSUME UNCHANGED <<instances, mounts, supervisors>>,
             \A id \in ReviewId : IsPending(id)' => Same(id)
      PROVE  PendingCurrent'
  <2> HIDE DEF Same
  <2> QED
    BY <1>1, <1>2, PendingKept DEF Same
<1>3. CASE UNCHANGED ledger
  BY <1>2, <1>3 DEF ledger, IsPending
<1>4. ASSUME NEW i \in InstanceRef, Open(i)
      PROVE  PendingCurrent'
  <2>1. \A r \in ReviewRequest : ReviewCurrent(r) => r.child # i.principal /\ r.supervisor # i.principal
    BY <1>4, ReviewParties DEF Open
  <2>2. \A q \in Principal : q # i.principal => instances'[q] = instances[q]
    BY <1>4 DEF Open, LedgerTypeOK
  <2>3. \A r \in ReviewRequest : ReviewCurrent(r) => r.child \in Principal /\ r.supervisor \in Principal
    BY ReviewParties
  <2>4. UNCHANGED <<mounts, supervisors, pending>>
    BY <1>4 DEF Open
  <2>5. \A id \in ReviewId : IsPending(id)' => Same(id)
    BY <2>4 DEF IsPending
  <2> QED
    BY <1>1, <2>1, <2>2, <2>3, <2>4, <2>5, PendingKept
<1>5. ASSUME NEW m \in MountId, Mount(m)
      PROVE  PendingCurrent'
  <2>1. UNCHANGED <<instances, supervisors, pending>> /\ mounts \subseteq mounts'
    BY <1>5 DEF Mount
  <2>2. \A id \in ReviewId : IsPending(id)' => Same(id)
    BY <2>1 DEF IsPending
  <2> QED
    BY <1>1, <2>1, <2>2, PendingKept
<1>6. ASSUME NEW m \in MountId, Unmount(m)
      PROVE  PendingCurrent'
  <2>1. UNCHANGED <<instances, supervisors>> /\ mounts' = mounts \ {m} /\ Remove(OnMount(m))
    BY <1>6 DEF Unmount
  <2>2. \A id \in ReviewId : IsPending(id)' => Same(id) /\ pending[id].request.scope.mount # m
    BY <2>1, RemoveLemma DEF OnMount
  <2> QED
    BY <1>1, <2>1, <2>2, PendingKept
<1>7. ASSUME NEW child \in Principal, NEW supervisor \in Principal, Bind(child, supervisor)
      PROVE  PendingCurrent'
  <2>1. UNCHANGED <<instances, mounts, pending>>
    BY <1>7 DEF Bind
  <2>2. \A id \in ReviewId : IsPending(id)' => Same(id) /\ pending[id].request.child # child
    BY <1>7, <2>1 DEF IsPending, Bind, CheckBinding
  <2>3. ASSUME NEW r \in ReviewRequest, ReviewCurrent(r), r.child # child
        PROVE  supervisors'[r.scope.child] = supervisors[r.scope.child]
    <3>1. instances[child].ref.principal = child
      BY <1>7 DEF Bind, CheckBinding, Active, LedgerTypeOK
    <3>2. r.scope.child # instances[child].ref
      BY <2>3, <3>1 DEF ReviewCurrent
    <3>3. r.scope.child \in InstanceRef
      BY <2>3, ReviewParties
    <3> QED
      BY <1>7, <3>2, <3>3 DEF Bind, LedgerTypeOK
  <2> QED
    BY <1>1, <2>1, <2>2, <2>3, PendingKept
<1>8. CASE InsertAny
  <2> PICK id \in ReviewId, p \in Principal, sup \in Principal \cup {None},
           m \in MountId \cup {None}, s \in Subject, c \in Call \cup {None},
           facts \in Facts, cause \in Cause :
        /\ InScope(p, m)
        /\ Insert(id, [child |-> p, supervisor |-> sup, subject |-> s, facts |-> facts,
                       cause |-> cause, scope |-> Scope(p, m)], c)
    BY <1>8 DEF InsertAny
  <2> DEFINE r == [child |-> p, supervisor |-> sup, subject |-> s, facts |-> facts,
                   cause |-> cause, scope |-> Scope(p, m)]
  <2>1. ReviewCurrent(r)
    BY ScopeType DEF ReviewCurrent, Insert
  <2> HIDE DEF r
  <2>2. Insert(id, r, c)
    BY DEF r
  <2>3. /\ UNCHANGED <<instances, mounts, supervisors>>
        /\ \A other \in ReviewId : other # id => pending'[other] = pending[other]
        /\ pending'[id].request = r
    BY <2>2 DEF Insert, LedgerTypeOK
  <2> SUFFICES ASSUME NEW other \in ReviewId, IsPending(other)'
               PROVE  ReviewCurrent(pending[other].request)'
    BY DEF PendingCurrent, ReviewCurrent
  <2>4. ReviewCurrent(pending'[other].request)
    <3>1. CASE other = id
      BY <2>1, <2>3, <3>1
    <3>2. CASE other # id
      BY <2>3, <3>2 DEF PendingCurrent, ReviewCurrent, IsPending
    <3> QED
      BY <3>1, <3>2
  <2> QED
    BY <2>3, <2>4 DEF ReviewCurrent, Current, InScope, Scope, Active, Mounted
<1>9. ASSUME NEW supervisor \in Principal, NEW id \in ReviewId, NEW res \in Resolution,
             NEW card \in Card, Resolve(supervisor, id, res, card)
      PROVE  PendingCurrent'
  <2>1. UNCHANGED <<instances, mounts, supervisors>>
    BY <1>9 DEF Resolve
  <2>2. ASSUME NEW c, pending' = [pending EXCEPT ![id] = WithApprover(id, c)]
        PROVE  \A other \in ReviewId : IsPending(other)' => Same(other)
    BY <1>9, <2>2 DEF Resolve, CheckResolution, IsPending, WithApprover, LedgerTypeOK
  <2>3. Remove({id}) => \A other \in ReviewId : IsPending(other)' => Same(other)
    BY RemoveLemma
  <2>4. \A other \in ReviewId : IsPending(other)' => Same(other)
    BY <1>9, <2>2, <2>3 DEF Resolve
  <2> QED
    BY <1>2, <2>1, <2>4
<1>10. ASSUME NEW ids, Remove(ids), UNCHANGED <<instances, mounts, supervisors>>
       PROVE  PendingCurrent'
  BY <1>2, <1>10, RemoveLemma
<1>11. ASSUME NEW p \in Principal, Remove(Involving(p)), UNCHANGED mounts,
              \A q \in Principal : q # p => instances'[q] = instances[q],
              \A i \in InstanceRef :
                i.principal # p /\ (supervisors[i] # None => supervisors[i].principal # p)
                  => supervisors'[i] = supervisors[i]
       PROVE  PendingCurrent'
  <2>1. \A id \in ReviewId : IsPending(id)' => /\ Same(id)
                                               /\ pending[id].request.child # p
                                               /\ pending[id].request.supervisor # p
    BY <1>11, RemoveLemma DEF Involving
  <2>2. ASSUME NEW r \in ReviewRequest, ReviewCurrent(r), r.child # p, r.supervisor # p
        PROVE  /\ instances'[r.child] = instances[r.child]
               /\ instances'[r.supervisor] = instances[r.supervisor]
               /\ supervisors'[r.scope.child] = supervisors[r.scope.child]
    <3>1. r.child = r.scope.child.principal /\ r.supervisor = r.scope.supervisor.principal
      BY <2>2 DEF ReviewCurrent
    <3> QED
      BY <1>11, <2>2, <3>1, ReviewParties
  <2> QED
    BY <1>1, <1>11, <2>1, <2>2, PendingKept
<1>12. ASSUME NEW p \in Principal, Retire(p)
       PROVE  PendingCurrent'
  <2>1. /\ Remove(Involving(p)) /\ UNCHANGED mounts
        /\ \A q \in Principal : q # p => instances'[q] = instances[q]
    BY <1>12 DEF Retire, LedgerTypeOK
  <2>2. ASSUME NEW i \in InstanceRef, i.principal # p,
               supervisors[i] # None => supervisors[i].principal # p
        PROVE  supervisors'[i] = supervisors[i]
    <3>1. Active(p) => instances[p].ref.principal = p /\ instances[p].ref \in InstanceRef
      BY DEF Active, LedgerTypeOK, Engagement
    <3> QED
      BY <1>12, <2>2, <3>1 DEF Retire
  <2> QED
    BY <1>11, <2>1, <2>2
<1>13. ASSUME NEW p \in Principal, Revoke(p)
       PROVE  PendingCurrent'
  <2>1. CASE instances[p].epoch = MaxEpoch
    BY <1>12, <1>13, <2>1 DEF Revoke
  <2>2. CASE instances[p].epoch # MaxEpoch
    BY <1>11, <1>13, <2>2, RevokeLemma
  <2> QED
    BY <2>1, <2>2
<1>14. \A id, kind, revision :
         Close(id) \/ InvalidateFact(kind, revision) =>
           UNCHANGED <<instances, mounts, supervisors>> /\ \E ids : Remove(ids)
  BY DEF Close, InvalidateFact
<1> HIDE DEF Same, Mounts
<1> QED
  BY <1>3, <1>4, <1>5, <1>6, <1>7, <1>8, <1>9, <1>10, <1>12, <1>13, <1>14 DEF LedgerNext

----------------------------------------------------------------------------
(* Waiting and approved reviews *)

\* What a step does to the pending reviews: it only removes some, or it is an
\* insertion of a new one, or the resolution of one.
LEMMA PendingSteps ==
  ASSUME LedgerTypeOK, [LedgerNext]_ledger
  PROVE  \/ \A id \in ReviewId : IsPending(id)' => IsPending(id) /\ pending'[id] = pending[id]
         \/ InsertAny
         \/ \E supervisor \in Principal, id \in ReviewId, res \in Resolution, card \in Card :
              Resolve(supervisor, id, res, card)
<1>1. UNCHANGED pending => \A id \in ReviewId : IsPending(id)' => IsPending(id) /\ pending'[id] = pending[id]
  BY DEF IsPending
<1>2. (\E ids : Remove(ids)) =>
        \A id \in ReviewId : IsPending(id)' => IsPending(id) /\ pending'[id] = pending[id]
  BY RemoveLemma
<1>3. /\ \A i : Open(i) => UNCHANGED pending
      /\ \A m : Mount(m) => UNCHANGED pending
      /\ \A m : Unmount(m) => \E ids : Remove(ids)
      /\ \A child, supervisor : Bind(child, supervisor) => UNCHANGED pending
      /\ \A id : Close(id) => \E ids : Remove(ids)
      /\ \A k, r : InvalidateFact(k, r) => \E ids : Remove(ids)
      /\ \A p : Retire(p) => \E ids : Remove(ids)
      /\ UNCHANGED ledger => UNCHANGED pending
  BY DEF Open, Mount, Unmount, Bind, Close, InvalidateFact, Retire, ledger
<1>4. \A p : Revoke(p) => \E ids : Remove(ids)
  BY <1>3 DEF Revoke
<1> QED
  BY <1>1, <1>2, <1>3, <1>4 DEF LedgerNext

\* A resolution changes at most the approver of the one review it names.
LEMMA ResolveLemma ==
  ASSUME LedgerTypeOK, NEW supervisor \in Principal, NEW id \in ReviewId, NEW res \in Resolution,
         NEW card \in Card, Resolve(supervisor, id, res, card)
  PROVE  /\ IsPending(id)
         /\ \A other \in ReviewId : IsPending(other)' =>
              /\ IsPending(other)
              /\ pending'[other].request = pending[other].request
              /\ pending'[other].call = pending[other].call
              /\ other # id => pending'[other] = pending[other]
              /\ Approved(other)' /\ ~Approved(other) =>
                   /\ other = id
                   /\ pending[id].call # None /\ pending[id].request.cause = "high_risk"
<1>1. IsPending(id)
  BY DEF Resolve, CheckResolution
<1>2. CASE res = "approve_once" /\ pending' = [pending EXCEPT ![id] = WithApprover(id, card)]
  BY <1>1, <1>2 DEF Resolve, CheckResolution, IsPending, Approved, WithApprover, LedgerTypeOK
<1>3. CASE pending' = [pending EXCEPT ![id] = WithApprover(id, None)]
  BY <1>1, <1>3 DEF IsPending, Approved, WithApprover, LedgerTypeOK
<1>4. CASE Remove({id})
  BY <1>1, <1>4, RemoveLemma DEF Approved, IsPending
<1> QED
  BY <1>1, <1>2, <1>3, <1>4 DEF Resolve

\* Removing reviews, or changing none, makes no second match.
LEMMA WaitingKept ==
  ASSUME WaitingUnique,
         \A id \in ReviewId : IsPending(id)' => /\ IsPending(id)
                                                /\ pending'[id].request = pending[id].request
                                                /\ pending'[id].call = pending[id].call
  PROVE  WaitingUnique'
BY DEF WaitingUnique, Waiting, IsPending

\* A review is inserted only where its scope and subject have none.
LEMMA InsertWaiting ==
  ASSUME LedgerTypeOK, WaitingUnique, ApprovedIsHighRiskCall,
         NEW id \in ReviewId, NEW r, NEW c, Insert(id, r, c), c \in Call \cup {None}
  PROVE  WaitingUnique' /\ ApprovedIsHighRiskCall'
<1> DEFINE new == [request |-> r, call |-> c, approver_card |-> None]
<1>1. /\ pending' = [pending EXCEPT ![id] = new]
      /\ Waiting(r.scope, r.subject, c # None) = {}
      /\ new.request = r /\ new.call = c /\ new.approver_card = None
  BY DEF Insert
<1> HIDE DEF new
<1>2. pending'[id] = new /\ \A other \in ReviewId : other # id => pending'[other] = pending[other]
  BY <1>1 DEF LedgerTypeOK
<1>3. WaitingUnique'
  BY <1>1, <1>2 DEF WaitingUnique, Waiting, IsPending
<1>4. ApprovedIsHighRiskCall'
  BY <1>1, <1>2 DEF ApprovedIsHighRiskCall, Approved, IsPending
<1> QED
  BY <1>3, <1>4

\* Every transition keeps the match of waiting() unique.
LEMMA WaitingStep ==
  ASSUME LedgerTypeOK, WaitingUnique, ApprovedIsHighRiskCall, [LedgerNext]_ledger
  PROVE  WaitingUnique' /\ ApprovedIsHighRiskCall'
<1>1. CASE \A id \in ReviewId : IsPending(id)' => IsPending(id) /\ pending'[id] = pending[id]
  BY <1>1, WaitingKept DEF ApprovedIsHighRiskCall, Approved
<1>2. CASE InsertAny
  BY <1>2, InsertWaiting DEF InsertAny
<1>3. ASSUME NEW supervisor \in Principal, NEW id \in ReviewId, NEW res \in Resolution,
             NEW card \in Card, Resolve(supervisor, id, res, card)
      PROVE  WaitingUnique' /\ ApprovedIsHighRiskCall'
  <2>1. WaitingUnique'
    BY <1>3, ResolveLemma, WaitingKept
  <2>2. ApprovedIsHighRiskCall'
    BY <1>3, ResolveLemma DEF ApprovedIsHighRiskCall, Approved
  <2> QED
    BY <2>1, <2>2
<1> QED
  BY <1>1, <1>2, <1>3, PendingSteps

----------------------------------------------------------------------------
(* Theorems about the ledger *)

\* Every transition preserves the strengthening.
LEMMA LedgerNextInv == LedgerInv /\ [LedgerNext]_ledger => LedgerInv'
BY TypeStep, EdgesStep, AcyclicStep, CurrentStep, WaitingStep DEF LedgerInv

\* Every step of the ledger keeps its strengthened invariant.
THEOREM Invariance == LedgerSpec => []LedgerInv
<1>1. LedgerInit => LedgerInv
  BY LedgerInitInv
<1>2. LedgerInv /\ [LedgerNext]_ledger => LedgerInv'
  BY LedgerNextInv
<1> QED
  BY <1>1, <1>2, PTL DEF LedgerSpec

\* The ledger stays well typed; in particular an epoch never passes MaxEpoch.
THEOREM TypeCorrect == LedgerSpec => []LedgerTypeOK
BY Invariance, PTL DEF LedgerInv

\* No edge dangles and no chain of supervision closes, so scope() never indexes a
\* missing engagement and the walk of check_binding ends; what waits, waits under the
\* authority it was asked under, once in its scope, so that waiting() does not depend
\* on the order of its map; and only a high risk tool call is ever approved.
THEOREM LedgerIsSafe == LedgerSpec => []LedgerSafe
BY Invariance, PTL DEF LedgerInv, LedgerSafe

\* The id of a closed review is never used again.
THEOREM NoRevival == LedgerSpec => ClosedForGood
<1>1. ASSUME LedgerInv, [LedgerNext]_ledger
      PROVE  [\A id \in seen : ~IsPending(id) => ~IsPending(id)']_ledger
  <2>1. ASSUME NEW id \in ReviewId, id \in seen, ~IsPending(id), NEW new, NEW r, NEW c,
               Insert(new, r, c)
        PROVE  ~IsPending(id)'
    BY <2>1, <1>1 DEF Insert, IsPending, LedgerInv, LedgerTypeOK
  <2>2. ASSUME NEW id \in ReviewId, id \in seen, ~IsPending(id)
        PROVE  ~IsPending(id)'
    BY <1>1, <2>1, <2>2, PendingSteps, ResolveLemma DEF LedgerInv, InsertAny
  <2> QED
    BY <1>1, <2>2 DEF LedgerInv, LedgerTypeOK
<1> QED
  BY <1>1, Invariance, PTL DEF LedgerSpec, ClosedForGood

\* No step approves two reviews, or one that was not waiting.
THEOREM SingleApproval == LedgerSpec => ApprovalsOneByOne
<1>1. ASSUME LedgerInv, [LedgerNext]_ledger
      PROVE  [\A id, other \in ReviewId :
                /\ Approved(id)' /\ ~Approved(id)
                /\ Approved(other)' /\ ~Approved(other)
                => id = other /\ IsPending(id)]_ledger
  <2>1. ASSUME NEW id \in ReviewId, Approved(id)', NEW new, NEW r, NEW c, Insert(new, r, c)
        PROVE  Approved(id)
    BY <2>1, <1>1 DEF Insert, Approved, IsPending, LedgerInv, LedgerTypeOK
  <2>2. CASE \A id \in ReviewId : IsPending(id)' => IsPending(id) /\ pending'[id] = pending[id]
    BY <2>2 DEF Approved
  <2>3. CASE \E new, r, c : Insert(new, r, c)
    BY <2>1, <2>3
  <2>4. ASSUME NEW supervisor \in Principal, NEW id \in ReviewId, NEW res \in Resolution,
               NEW card \in Card, Resolve(supervisor, id, res, card),
               NEW other \in ReviewId, Approved(other)', ~Approved(other)
        PROVE  other = id /\ IsPending(other)
    BY <1>1, <2>4, ResolveLemma DEF LedgerInv, Approved
  <2> QED
    BY <1>1, <2>2, <2>3, <2>4, PendingSteps DEF LedgerInv, InsertAny
<1> QED
  BY <1>1, Invariance, PTL DEF LedgerSpec, ApprovalsOneByOne

----------------------------------------------------------------------------
(* The control plane: types *)

\* A line of the tapes is typed.
LEMMA LineType ==
  ASSUME NEW p \in Principal, NEW tag \in Tag, NEW id \in ReviewId
  PROVE  L(p, tag, id) \in Line
BY DEF L, Line

\* Appends keep the types of the evidence and of the failure count.
LEMMA RecordType ==
  ASSUME CoreTypeOK, NEW lines \in Seq(Line), NEW ok \in BOOLEAN, Record(lines, ok)
  PROVE  evidence' \in SUBSET Line /\ failures' \in 0..MaxFailures
BY MaxFailuresAssumption DEF CoreTypeOK, Record, AppendFails

\* So do closures, however many of them fail.
LEMMA ClosuresType ==
  ASSUME CoreTypeOK, NEW lines \in SUBSET Line, NEW ok \in BOOLEAN, RecordClosures(lines, ok)
  PROVE  evidence' \in SUBSET Line /\ failures' \in 0..MaxFailures
BY MaxFailuresAssumption DEF CoreTypeOK, RecordClosures, AppendFails

\* The closures of a set of reviews are lines.
LEMMA PartyLinesType ==
  ASSUME NEW ids \in SUBSET ReviewId
  PROVE  PartyLines(ids) \in SUBSET Line /\ OnSeatedTapes(PartyLines(ids)) \in SUBSET Line
BY DEF PartyLines, ClosureLines, OnSeatedTapes, Line, Tag

\* A run that is mounted is a record of the right type, and its session exists.
LEMMA RunType ==
  ASSUME CoreTypeOK, NEW p \in Principal, Seated(p)
  PROVE  /\ runs[p] \in Run
         /\ runs[p].card \in Card /\ runs[p].session \in Session
         /\ sessions[runs[p].session] \in SessionDir
BY DEF CoreTypeOK, Seated, Run

\* The fields of a turn.
LEMMA TurnType ==
  ASSUME CoreTypeOK, turn # None
  PROVE  turn \in Turn
BY DEF CoreTypeOK

\* A freshly installed agent is typed.
LEMMA NewRunType ==
  ASSUME NEW card \in Card, NEW s \in Session
  PROVE  /\ NewRun(card, s) \in Run
         /\ [NewRun(card, s) EXCEPT !.status = "finishing"] \in Run
BY DEF NewRun, Run

\* The lifecycle operations leave the types of agents, beats and tapes.
LEMMA LifecycleType ==
  ASSUME CoreTypeOK, LifecycleNext
  PROVE  CoreTypeOK'
<1>1. ASSUME NEW card \in Card, NEW s \in Session, NEW i \in InstanceRef, OpenAgent(card, s, i)
      PROVE  CoreTypeOK'
  <2>1. CardId[card] \in Principal
    BY CardIdAssumption
  <2>2. engaged' \in SUBSET InstanceRef
    BY <1>1 DEF OpenAgent, CoreTypeOK
  <2>3. sessions' \in [Session -> SessionDir]
    BY <1>1, <2>1 DEF OpenAgent, CoreTypeOK, SessionDir
  <2>4. runs' \in [Principal -> Run \cup {None}]
    BY <1>1, <2>1, NewRunType DEF OpenAgent, CoreTypeOK
  <2>5. UNCHANGED <<turn, evidence>> /\ failures' \in 0..MaxFailures
    BY <1>1, MaxFailuresAssumption DEF OpenAgent, CoreTypeOK, AppendFails
  <2> QED
    BY <2>2, <2>3, <2>4, <2>5 DEF CoreTypeOK
<1>2. ASSUME NEW card \in Card, NEW s \in Session, NEW i \in InstanceRef, Resume(card, s, i)
      PROVE  CoreTypeOK'
  <2>1. CardId[card] \in Principal
    BY CardIdAssumption
  <2>2. engaged' \in SUBSET InstanceRef
    BY <1>2 DEF Resume, CoreTypeOK
  <2>3. [NewRun(card, s) EXCEPT !.status =
           IF sessions[s].mark = "finish_pending" THEN "finishing" ELSE "live"] \in Run
    BY DEF NewRun, Run
  <2>4. runs' \in [Principal -> Run \cup {None}]
    BY <1>2, <2>1, <2>3 DEF Resume, PendingFinish, CoreTypeOK
  <2>5. UNCHANGED <<turn, sessions, evidence>> /\ failures' \in 0..MaxFailures
    BY <1>2, MaxFailuresAssumption DEF Resume, CoreTypeOK, AppendFails
  <2> QED
    BY <2>2, <2>4, <2>5 DEF CoreTypeOK
<1>3. ASSUME NEW p \in Principal, SealSession(p)
      PROVE  CoreTypeOK'
  <2>1. sessions' \in [Session -> SessionDir]
    BY <1>3, RunType DEF SealSession, CoreTypeOK, SessionDir
  <2> QED
    BY <1>3, <2>1 DEF SealSession, CoreTypeOK
<1>4. ASSUME NEW p \in Principal, Release(p)
      PROVE  CoreTypeOK'
  <2>1. evidence' \in SUBSET Line /\ failures' \in 0..MaxFailures
    BY <1>4, ClosuresType, PartyLinesType DEF Release, Involving
  <2> QED
    BY <1>4, <2>1 DEF Release, CoreTypeOK
<1>5. ASSUME NEW p \in Principal, Cancel(p)
      PROVE  CoreTypeOK'
  <2>1. evidence' \in SUBSET Line /\ failures' \in 0..MaxFailures
    BY <1>5, ClosuresType, PartyLinesType DEF Cancel, Involving, CoreTypeOK
  <2>2. runs' \in [Principal -> Run \cup {None}]
    BY <1>5, RunType DEF Cancel, Live, CoreTypeOK, Run
  <2>3. turn' \in Turn \cup {None}
    BY <1>5, TurnType DEF Cancel, InBeat, CoreTypeOK, Turn
  <2> QED
    BY <1>5, <2>1, <2>2, <2>3 DEF Cancel, CoreTypeOK
<1>6. ASSUME NEW p \in Principal, FinishIntentRetained(p)
      PROVE  CoreTypeOK'
  <2>1. [sessions[runs[p].session] EXCEPT !.mark = "finish_pending", !.retained = TRUE] \in SessionDir
    BY <1>6, RunType DEF FinishIntentRetained, Live, SessionDir
  <2>2. sessions' \in [Session -> SessionDir]
    BY <1>6, <2>1 DEF FinishIntentRetained, CoreTypeOK
  <2>3. failures' \in 0..MaxFailures
    BY <1>6, MaxFailuresAssumption DEF FinishIntentRetained, CoreTypeOK, AppendFails
  <2> QED
    BY <1>6, <2>2, <2>3 DEF FinishIntentRetained, CoreTypeOK
<1>7. ASSUME NEW p \in Principal, Finish(p)
      PROVE  CoreTypeOK'
  <2> DEFINE first == runs[p].status = "live"
             closing == IF first THEN PartyLines(Involving(p)) ELSE runs[p].closing
             ended == IF first THEN Involving(p) ELSE runs[p].ended
             intended == IF first THEN [SessionOf(p) EXCEPT !.mark = "finish_pending", !.retained = FALSE]
                         ELSE SessionOf(p)
             done == [runs[p] EXCEPT !.status = "finished", !.closing = closing, !.ended = ended,
                                     !.cancelled = FALSE]
             left == [runs[p] EXCEPT !.status = "finishing", !.closing = closing, !.ended = ended]
             written == [intended EXCEPT !.mark = "finish"]
  <2>1. runs[p] \in Run /\ SessionOf(p) \in SessionDir /\ runs[p].session \in Session
    BY <1>7, RunType DEF Finish, SessionOf
  <2>2. closing \in SUBSET Line /\ ended \in SUBSET ReviewId
    BY <2>1, PartyLinesType DEF Involving, Run
  <2>3. done \in Run /\ left \in Run
    BY <2>1, <2>2 DEF Run
  <2>4. intended \in SessionDir /\ written \in SessionDir
    BY <2>1 DEF SessionDir
  <2>5. PICK concluded \in {"yes", "retained", "no"} :
          /\ \/ concluded = "yes" /\ RecordClosures(OnSeatedTapes(closing), TRUE)
             \/ /\ concluded # "yes" /\ AppendFails
                /\ evidence' = evidence \cup OnSeatedTapes(closing)
             \/ concluded = "no" /\ RecordClosures(OnSeatedTapes(closing), FALSE)
          /\ sessions' = [sessions EXCEPT ![runs[p].session] =
                            IF concluded = "no" THEN intended ELSE written]
          /\ runs' = [runs EXCEPT ![p] = IF concluded = "yes" THEN done ELSE left]
    BY <1>7 DEF Finish
  <2>6. OnSeatedTapes(closing) \in SUBSET Line
    BY <2>2 DEF OnSeatedTapes
  <2>7. evidence' \in SUBSET Line /\ failures' \in 0..MaxFailures
    <3> HIDE DEF closing
    <3>1. CASE RecordClosures(OnSeatedTapes(closing), TRUE)
      BY <3>1, <2>6, ClosuresType
    <3>2. CASE RecordClosures(OnSeatedTapes(closing), FALSE)
      BY <3>2, <2>6, ClosuresType
    <3>3. CASE AppendFails /\ evidence' = evidence \cup OnSeatedTapes(closing)
      BY <3>3, <2>6, MaxFailuresAssumption DEF AppendFails, CoreTypeOK
    <3> QED
      BY <2>5, <3>1, <3>2, <3>3
  <2>8. runs' \in [Principal -> Run \cup {None}] /\ sessions' \in [Session -> SessionDir]
    <3> HIDE DEF done, left, intended, written
    <3> QED
      BY <2>1, <2>3, <2>4, <2>5 DEF CoreTypeOK
  <2> QED
    BY <1>7, <2>7, <2>8 DEF Finish, CoreTypeOK
<1>8. ASSUME NEW p \in Principal, NEW call \in Call \cup {None}, BeginBeat(p, call)
      PROVE  CoreTypeOK'
  <2>1. runs' \in [Principal -> Run \cup {None}]
    <3>1. runs[p] \in Run /\ runs[p].signal \in BOOLEAN
      BY <1>8, RunType DEF BeginBeat, Live, Run
    <3>2. [runs[p] EXCEPT !.cancelled = FALSE,
                          !.signal = runs[p].signal /\ ~Listening(p)] \in Run
      BY <3>1 DEF Run
    <3>3. CASE UNCHANGED runs
      BY <3>3 DEF CoreTypeOK
    <3>4. CASE runs' = [runs EXCEPT ![p] = [runs[p] EXCEPT !.cancelled = FALSE,
                                              !.signal = runs[p].signal /\ ~Listening(p)]]
      BY <3>4, <3>2 DEF CoreTypeOK
    <3> QED
      BY <1>8, <3>3, <3>4 DEF BeginBeat
  <2>2. turn' \in Turn \cup {None}
    <3>1. [agent |-> p, call |-> call, step |-> "begun", stopped |-> FALSE, review |-> None] \in Turn
      BY DEF Turn
    <3>2. turn' = turn
          \/ turn' = [agent |-> p, call |-> call, step |-> "begun", stopped |-> FALSE, review |-> None]
      BY <1>8 DEF BeginBeat
    <3> QED
      BY <3>1, <3>2 DEF CoreTypeOK
  <2> QED
    BY <1>8, <2>1, <2>2 DEF BeginBeat, CoreTypeOK
<1>9. Advance \/ CancelReceiver \/ EndRun => CoreTypeOK'
  BY TurnType DEF Advance, CancelReceiver, EndRun, CoreTypeOK, Turn
<1> QED
  BY <1>1, <1>2, <1>3, <1>4, <1>5, <1>6, <1>7, <1>8, <1>9 DEF LifecycleNext

----------------------------------------------------------------------------
(* The review operations one by one: what the call in flight may do *)

\* From its subscription on, the beat in flight is a tool call.
CallInFlight ==
  turn # None /\ turn.step \in {"subscribed", "running"} => turn.call # None

\* The agent and the call of a turn about to review its tool.
LEMMA SubscribedType ==
  ASSUME CoreTypeOK, CallInFlight, turn # None, turn.step = "subscribed"
  PROVE  /\ turn \in Turn /\ turn.agent \in Principal /\ turn.call \in Call
         /\ ToolOf[turn.call] \in Subject
BY TurnType, ToolOfAssumption DEF CallInFlight, Turn

\* Starting the tool and giving the slot back keep the type of the turn.
LEMMA TurnSteps ==
  ASSUME CoreTypeOK, turn # None, ReviewTool
  PROVE  turn' \in Turn \cup {None}
<1>1. \A review \in ReviewId \cup {None} : StartTool(review) => turn' \in Turn
  BY TurnType DEF StartTool, Turn
<1>2. GiveUp => turn' = None
  BY DEF GiveUp
<1>3. StartTool(None) => turn' \in Turn
  BY <1>1
<1>4. GiveUp \/ StartTool(None) \/ \E id \in ReviewId : StartTool(id)
  BY DEF ReviewTool, AskForReview, UseReview, Waiting
<1> QED
  BY <1>1, <1>2, <1>3, <1>4

\* The lines of a request and of an answer.
LEMMA LinesType ==
  ASSUME NEW p \in Principal, NEW q \in Principal, NEW id \in ReviewId
  PROVE  /\ <<L(p, "review_request", id)>> \in Seq(Line)
         /\ <<L(p, "review_request", id), L(p, "mail_request", id), L(q, "mail_request", id)>>
              \in Seq(Line)
         /\ <<L(p, "review_consumed", id), L(p, "gate", id)>> \in Seq(Line)
         /\ <<L(p, "approve_once", id), L(q, "mail_approve_once", id),
              L(p, "mail_approve_once", id)>> \in Seq(Line)
         /\ <<L(p, "answer", id), L(q, "mail_answer", id), L(p, "mail_answer", id)>> \in Seq(Line)
BY LineType DEF Tag

\* What a closure may do to tapes, and nothing else.
LEMMA ClosuresOf ==
  ASSUME CoreTypeOK, NEW ids \in SUBSET ReviewId, Closures(ids)
  PROVE  evidence' \in SUBSET Line /\ failures' \in 0..MaxFailures
BY ClosuresType, PartyLinesType DEF Closures

\* The scope of an active child and a mounted body names principals.
LEMMA ScopeOf ==
  ASSUME LedgerInv, NEW p \in Principal, NEW m \in MountId \cup {None}, InScope(p, m)
  PROVE  /\ Scope(p, m) \in ReviewScope
         /\ Scope(p, m).child = instances[p].ref
         /\ Scope(p, m).child.principal = p
         /\ Scope(p, m).supervisor \in InstanceRef \cup {None}
         /\ Scope(p, m).supervisor # None => Scope(p, m).supervisor.principal \in Principal
<1>1. Scope(p, m) \in ReviewScope /\ Scope(p, m).child.principal = p
  BY ScopeType DEF LedgerInv
<1> QED
  BY <1>1 DEF ReviewScope, InstanceRef, Scope

\* A request that is retained is an insertion of the ledger, and its lines are
\* lines.
LEMMA RetainStep ==
  ASSUME LedgerInv, CoreTypeOK, generation \in Facts, NEW p \in Principal,
         NEW m \in MountId \cup {None}, InScope(p, m), NEW subject \in Subject,
         NEW cause \in Cause, NEW call \in Call \cup {None}, NEW id \in ReviewId,
         NEW ok \in BOOLEAN, RetainReview(p, m, subject, cause, call, id, ok)
  PROVE  /\ InsertAny \/ UNCHANGED ledger
         /\ evidence' \in SUBSET Line /\ failures' \in 0..MaxFailures
<1> DEFINE scope == Scope(p, m)
           supervisor == IF scope.supervisor = None THEN None ELSE scope.supervisor.principal
           request == [child |-> p, supervisor |-> supervisor, subject |-> subject,
                       facts |-> generation, cause |-> cause, scope |-> scope]
           lines == IF supervisor = None THEN <<L(p, "review_request", id)>>
                    ELSE <<L(p, "review_request", id), L(p, "mail_request", id),
                           L(supervisor, "mail_request", id)>>
<1>1. supervisor \in Principal \cup {None}
  BY ScopeOf
<1>2. lines \in Seq(Line)
  BY <1>1, LinesType
<1>3. Record(lines, ok) /\ (UNCHANGED ledger \/ Insert(id, request, call))
  BY DEF RetainReview
<1>4. evidence' \in SUBSET Line /\ failures' \in 0..MaxFailures
  <2> HIDE DEF lines
  <2> QED
    BY <1>2, <1>3, RecordType
<1>5. CASE Insert(id, request, call)
  <2> HIDE DEF supervisor
  <2>1. InsertAny
    BY <1>1, <1>5 DEF InsertAny
  <2> QED
    BY <1>4, <2>1
<1> QED
  BY <1>3, <1>4, <1>5

\* Asking for a review of a tool call is a step of the ledger.
LEMMA AskStep ==
  ASSUME LedgerInv, CoreTypeOK, generation \in Facts, NEW p \in Principal, Active(p),
         NEW call \in Call, ToolOf[call] \in Subject, NEW id \in ReviewId,
         AskForReview(p, call, id)
  PROVE  /\ [LedgerNext]_ledger
         /\ evidence' \in SUBSET Line /\ failures' \in 0..MaxFailures
<1> DEFINE cause == IF PermitOf(p, ToolOf[call]) = "ask" THEN "high_risk" ELSE "permission_denied"
<1>1. InScope(p, None) /\ cause \in Cause
  BY DEF Cause, InScope
<1>2. PICK ok \in BOOLEAN : RetainReview(p, None, ToolOf[call], cause, call, id, ok)
  BY DEF AskForReview
<1> HIDE DEF cause
<1>3. InsertAny \/ UNCHANGED ledger
  BY <1>1, <1>2, RetainStep
<1> QED
  BY <1>1, <1>2, <1>3, RetainStep DEF LedgerNext

\* Using a review is a step of the ledger and keeps the types.
LEMMA UseStep ==
  ASSUME CoreTypeOK, NEW p \in Principal, NEW call, NEW id \in ReviewId,
         UseReview(p, call, id)
  PROVE  /\ [LedgerNext]_ledger
         /\ evidence' \in SUBSET Line /\ failures' \in 0..MaxFailures
<1>1. Close(id) => LedgerNext
  BY DEF LedgerNext
<1>2. Close(id) \/ UNCHANGED ledger
  BY DEF UseReview
<1>3. CASE Closures({id})
  BY <1>1, <1>2, <1>3, ClosuresOf
<1>4. CASE UNCHANGED <<evidence, failures>>
  BY <1>1, <1>2, <1>4 DEF CoreTypeOK
<1>5. CASE \E ok \in BOOLEAN : Record(<<L(p, "review_consumed", id), L(p, "gate", id)>>, ok)
  BY <1>1, <1>2, <1>5, RecordType, LinesType
<1> QED
  BY <1>3, <1>4, <1>5 DEF UseReview

\* An answer is a step of the ledger and keeps the types.
LEMMA ResolveStep ==
  ASSUME LedgerInv, CoreTypeOK, NEW supervisor \in Principal, NEW id \in ReviewId,
         NEW resolution \in Resolution, ResolveReview(supervisor, id, resolution)
  PROVE  /\ [LedgerNext]_ledger
         /\ evidence' \in SUBSET Line /\ failures' \in 0..MaxFailures
<1> DEFINE child == pending[id].request.child
           card == runs[supervisor].card
           answer(tag, mail) ==
             <<L(child, tag, id), L(supervisor, mail, id), L(child, mail, id)>>
<1>1. card \in Card
  BY RunType DEF ResolveReview, Live
<1>2. IsPending(id)
  BY DEF ResolveReview, CheckResolution
<1>3. child \in Principal
  BY <1>2, PendingIsTyped DEF LedgerInv, ReviewRequest
<1>4. answer("approve_once", "mail_approve_once") \in Seq(Line)
      /\ answer("answer", "mail_answer") \in Seq(Line)
  BY <1>3, LinesType
<1>5. Close(id) \/ Resolve(supervisor, id, resolution, card) \/ UNCHANGED ledger
  BY DEF ResolveReview
<1>6. [LedgerNext]_ledger
  BY <1>1, <1>5 DEF LedgerNext
<1>7. \/ Closures({id})
      \/ \E ok \in BOOLEAN : Record(answer("approve_once", "mail_approve_once"), ok)
      \/ \E ok \in BOOLEAN : Record(answer("answer", "mail_answer"), ok)
  BY DEF ResolveReview
<1>8. evidence' \in SUBSET Line /\ failures' \in 0..MaxFailures
  <2> HIDE DEF answer
  <2>1. CASE Closures({id})
    BY <2>1, ClosuresOf
  <2>2. CASE \E ok \in BOOLEAN : Record(answer("approve_once", "mail_approve_once"), ok)
    BY <2>2, <1>4, RecordType
  <2>3. CASE \E ok \in BOOLEAN : Record(answer("answer", "mail_answer"), ok)
    BY <2>3, <1>4, RecordType
  <2> QED
    BY <1>7, <2>1, <2>2, <2>3
<1> QED
  BY <1>6, <1>8

\* A new workspace record is a step of the ledger and keeps the types.
LEMMA PutStep ==
  ASSUME CoreTypeOK, generation \in Facts, NEW kind \in FactKind, PutFact(kind)
  PROVE  /\ [LedgerNext]_ledger /\ generation' \in Facts
         /\ evidence' \in SUBSET Line /\ failures' \in 0..MaxFailures
<1>1. ASSUME NEW id \in 1..MaxRevision, generation' = [generation EXCEPT ![kind] = id],
             Closures(WithStaleFact(kind, id)), InvalidateFact(kind, id)
      PROVE  /\ LedgerNext /\ generation' \in Facts
             /\ evidence' \in SUBSET Line /\ failures' \in 0..MaxFailures
  <2>1. id \in Revision /\ WithStaleFact(kind, id) \in SUBSET ReviewId
    BY RevisionAssumption DEF WithStaleFact
  <2> QED
    BY <1>1, <2>1, ClosuresOf DEF LedgerNext, Facts
<1>2. ASSUME generation[kind] < MaxRevision, generation' = [generation EXCEPT ![kind] = @ + 1],
             AppendFails, UNCHANGED <<ledger, evidence>>
      PROVE  /\ generation' \in Facts
             /\ evidence' \in SUBSET Line /\ failures' \in 0..MaxFailures
  BY <1>2, RevisionAssumption, MaxFailuresAssumption DEF AppendFails, CoreTypeOK, Facts
<1> QED
  BY <1>1, <1>2 DEF PutFact

----------------------------------------------------------------------------
(* The ledger under the control plane *)

\* Every step of the lifecycle is a step of the ledger or a restart.
LEMMA LifecycleStep ==
  ASSUME LifecycleNext
  PROVE  [LedgerNext]_ledger \/ Restart
<1>1. ASSUME NEW card \in Card, NEW s \in Session, NEW i \in InstanceRef,
             OpenAgent(card, s, i) \/ Resume(card, s, i)
      PROVE  [LedgerNext]_ledger
  BY <1>1 DEF OpenAgent, Resume, LedgerNext
<1>2. ASSUME NEW p \in Principal,
             SealSession(p) \/ Release(p) \/ Cancel(p) \/ FinishIntentRetained(p) \/ Finish(p)
      PROVE  [LedgerNext]_ledger
  <2>1. Retire(p) \/ Revoke(p) => LedgerNext
    BY DEF LedgerNext
  <2> QED
    BY <1>2, <2>1 DEF SealSession, Release, Cancel, FinishIntentRetained, Finish
<1>3. ASSUME NEW p, NEW call, BeginBeat(p, call)
      PROVE  UNCHANGED ledger
  BY <1>3 DEF BeginBeat
<1>4. Advance \/ CancelReceiver \/ EndRun => UNCHANGED ledger
  BY DEF Advance, CancelReceiver, EndRun
<1> QED
  BY <1>1, <1>2, <1>3, <1>4 DEF LifecycleNext

\* The invariant of the control plane without its liveness of authority.
PlainInv == LedgerInv /\ TypeOK /\ CallInFlight

\* So is the review of a tool call.
LEMMA ReviewToolStep ==
  ASSUME PlainInv, ReviewTool
  PROVE  /\ [LedgerNext]_ledger /\ CoreTypeOK'
<1> DEFINE p == turn.agent
           call == turn.call
<1>1. /\ turn # None /\ CoreTypeOK /\ LedgerInv /\ generation \in Facts
      /\ p \in Principal /\ call \in Call /\ ToolOf[call] \in Subject
  BY SubscribedType DEF ReviewTool, PlainInv, TypeOK, Facts
<1>2. /\ [LedgerNext]_ledger
      /\ evidence' \in SUBSET Line /\ failures' \in 0..MaxFailures
  <2>1. CASE UNCHANGED <<ledger, evidence, failures>>
    BY <2>1, <1>1 DEF CoreTypeOK
  <2>2. CASE Active(p) /\ \E id \in ReviewId : AskForReview(p, call, id)
    BY <2>2, <1>1, AskStep
  <2>3. CASE \E id \in ReviewId : UseReview(p, call, id)
    BY <2>3, <1>1, UseStep
  <2> QED
    BY <2>1, <2>2, <2>3 DEF ReviewTool, Waiting
<1>3. turn' \in Turn \cup {None}
  BY <1>1, TurnSteps
<1> QED
  BY <1>1, <1>2, <1>3 DEF ReviewTool, CoreTypeOK

\* So is every step of the control plane; all keep the types.
LEMMA ControlStep ==
  ASSUME PlainInv, [Next]_all
  PROVE  /\ [LedgerNext]_ledger \/ Restart
         /\ CoreTypeOK' /\ generation' \in Facts
<1>1. LedgerInv /\ CoreTypeOK /\ generation \in Facts
  BY DEF PlainInv, TypeOK, Facts
<1>2. CASE LifecycleNext /\ UNCHANGED workspace
  BY <1>1, <1>2, LifecycleStep, LifecycleType DEF workspace
<1>3. ASSUME NEW child \in Principal, NEW supervisor \in Principal,
             SetSupervisor(child, supervisor)
      PROVE  LedgerNext /\ CoreTypeOK' /\ generation' \in Facts
  BY <1>1, <1>3 DEF SetSupervisor, LedgerNext, core, workspace, CoreTypeOK
<1>4. ASSUME NEW p \in Principal, RevokeReviews(p)
      PROVE  LedgerNext /\ CoreTypeOK' /\ generation' \in Facts
  BY <1>1, <1>4, ClosuresOf DEF RevokeReviews, LedgerNext, Involving, workspace, CoreTypeOK
<1>5. ASSUME NEW supervisor \in Principal, NEW id \in ReviewId, NEW resolution \in Resolution,
             ResolveReview(supervisor, id, resolution)
      PROVE  [LedgerNext]_ledger /\ CoreTypeOK' /\ generation' \in Facts
  BY <1>1, <1>5, ResolveStep DEF ResolveReview, workspace, CoreTypeOK
<1>6. CASE ReviewTool
  BY <1>1, <1>6, ReviewToolStep DEF ReviewTool
<1>7. ASSUME NEW kind \in FactKind, PutFact(kind)
      PROVE  [LedgerNext]_ledger /\ CoreTypeOK' /\ generation' \in Facts
  BY <1>1, <1>7, PutStep DEF PutFact, CoreTypeOK
<1>8. CASE UNCHANGED all
  BY <1>1, <1>8 DEF all, vars, core, CoreTypeOK
<1>9. CASE Crash /\ UNCHANGED workspace
  BY <1>1, <1>9 DEF Crash, CoreTypeOK, workspace
<1> QED
  BY <1>2, <1>3, <1>4, <1>5, <1>6, <1>7, <1>8, <1>9 DEF Next, Operation

\* A new process starts with an empty ledger.
LEMMA RestartInv ==
  ASSUME Restart, LedgerTypeOK
  PROVE  LedgerInv'
<1>1. LedgerTypeOK'
  BY DEF Restart, LedgerTypeOK
<1>2. EdgesLive' /\ Acyclic'
  BY NoneAssumption DEF Restart, EdgesLive, Acyclic
<1>3. PendingCurrent' /\ WaitingUnique' /\ ApprovedIsHighRiskCall'
  BY DEF Restart, PendingCurrent, WaitingUnique, Waiting, ApprovedIsHighRiskCall, Approved, IsPending
<1> QED
  BY <1>1, <1>2, <1>3 DEF LedgerInv

----------------------------------------------------------------------------
(* Live agents *)

\* Whoever holds authority, and whoever holds the slot, is live.
LiveInv ==
  /\ \A p \in Principal : Active(p) => Live(p)
  /\ BeatIsLive

\* The operations that neither open, end nor seat anybody.
LEMMA QuietStep ==
  ASSUME LiveInv, CoreTypeOK,
         \A p \in Principal : Live(p) => Live(p)',
         \A p \in Principal : Active(p)' => Active(p),
         turn' # None => turn # None /\ turn'.agent = turn.agent
  PROVE  LiveInv'
<1>1. turn # None => turn.agent \in Principal
  BY DEF CoreTypeOK, Turn
<1> QED
  BY <1>1 DEF LiveInv, BeatIsLive

\* None of these transitions makes a principal active.
LEMMA NoOpening ==
  ASSUME LedgerTypeOK,
         \/ UNCHANGED ledger
         \/ \E child, supervisor \in Principal : Bind(child, supervisor)
         \/ InsertAny
         \/ \E supervisor \in Principal, id \in ReviewId, r \in Resolution, card \in Card :
              Resolve(supervisor, id, r, card)
         \/ \E id \in ReviewId : Close(id)
         \/ \E p \in Principal : Revoke(p) \/ Retire(p)
         \/ \E kind \in FactKind, revision \in Revision : InvalidateFact(kind, revision)
  PROVE  \A p \in Principal : Active(p)' => Active(p)
<1>1. ASSUME NEW p \in Principal, Revoke(p) \/ Retire(p)
      PROVE  \A q \in Principal : Active(q)' => Active(q)
  BY <1>1, NoneAssumption DEF Revoke, Retire, Active, LedgerTypeOK
<1>2. CASE UNCHANGED instances
  BY <1>2 DEF Active
<1>3. InsertAny => UNCHANGED instances
  BY DEF InsertAny, Insert
<1>4. /\ UNCHANGED ledger => UNCHANGED instances
      /\ \A c, s : Bind(c, s) => UNCHANGED instances
      /\ \A s, id, r, card : Resolve(s, id, r, card) => UNCHANGED instances
      /\ \A id : Close(id) => UNCHANGED instances
      /\ \A kind, revision : InvalidateFact(kind, revision) => UNCHANGED instances
  BY DEF ledger, Bind, Resolve, Close, InvalidateFact
<1> QED
  BY <1>1, <1>2, <1>3, <1>4

\* Opening and resuming: the engagement is opened for a run that is live.
LEMMA OpenLive ==
  ASSUME LiveInv, LedgerTypeOK, CoreTypeOK, NEW card \in Card, NEW s \in Session,
         NEW i \in InstanceRef, OpenAgent(card, s, i) \/ Resume(card, s, i)
  PROVE  LiveInv'
<1> DEFINE p == CardId[card]
<1>1. p \in Principal /\ ~Seated(p) /\ UNCHANGED turn
      /\ i.principal = p
  BY CardIdAssumption DEF OpenAgent, Resume
<1>2. ~Live(p) /\ ~InBeat(p)
  BY <1>1 DEF Live, LiveInv, BeatIsLive, InBeat
<1>3. ASSUME Open(i), NEW run, run.status = "live", run # None, runs' = [runs EXCEPT ![p] = run]
      PROVE  LiveInv'
  <2>1. \A q \in Principal : q # p => (Active(q)' <=> Active(q)) /\ runs'[q] = runs[q]
    BY <1>1, <1>3 DEF Open, Active, LedgerTypeOK, CoreTypeOK
  <2>2. Live(p)'
    BY <1>1, <1>3 DEF Live, Seated, CoreTypeOK
  <2>3. \A q \in Principal : Live(q) => Live(q)'
    BY <1>2, <2>1 DEF Live, Seated
  <2> QED
    BY <1>1, <2>1, <2>2, <2>3 DEF LiveInv, BeatIsLive, CoreTypeOK, Turn, Live, Seated
<1>4. ASSUME UNCHANGED ledger, \A q \in Principal : q # p => runs'[q] = runs[q]
      PROVE  LiveInv'
  <2>1. \A q \in Principal : Live(q) => Live(q)'
    BY <1>2, <1>4 DEF Live, Seated
  <2>2. \A q \in Principal : Active(q)' => Active(q)
    BY <1>4 DEF ledger, Active
  <2> QED
    BY <1>1, <2>1, <2>2, QuietStep
<1> DEFINE run == NewRun(card, s)
           resumed == [run EXCEPT !.status =
                         IF sessions[s].mark = "finish_pending" THEN "finishing" ELSE "live"]
<1>5. run.status = "live" /\ run # None
  BY NewRunType, NoneCoreAssumption DEF NewRun
<1>6. resumed # None /\ (sessions[s].mark # "finish_pending" => resumed.status = "live")
  <2>1. run \in Run
    BY NewRunType
  <2> HIDE DEF run
  <2>2. resumed \in Run /\ (sessions[s].mark # "finish_pending" => resumed.status = "live")
    BY <2>1 DEF Run
  <2> QED
    BY <2>2, NoneCoreAssumption
<1>7. CASE OpenAgent(card, s, i)
  <2>1. \/ Open(i) /\ runs' = [runs EXCEPT ![p] = run]
        \/ UNCHANGED <<ledger, runs>>
    BY <1>7 DEF OpenAgent
  <2> HIDE DEF run
  <2> QED
    BY <2>1, <1>3, <1>4, <1>5 DEF CoreTypeOK
<1>8. CASE Resume(card, s, i)
  <2>1. \/ sessions[s].mark # "finish_pending" /\ Open(i) /\ runs' = [runs EXCEPT ![p] = resumed]
        \/ UNCHANGED ledger /\ runs' = [runs EXCEPT ![p] = resumed]
        \/ UNCHANGED <<ledger, runs>>
    BY <1>8 DEF Resume, PendingFinish
  <2> HIDE DEF resumed
  <2> QED
    BY <2>1, <1>3, <1>4, <1>6 DEF CoreTypeOK
<1> QED
  BY <1>7, <1>8

\* Finishing and releasing: authority is retired before liveness is given up,
\* and neither is done to the agent that holds the slot.
LEMMA EndLive ==
  ASSUME LiveInv, LedgerTypeOK, CoreTypeOK, NEW p \in Principal, Finish(p) \/ Release(p)
  PROVE  LiveInv'
<1>1. ~InBeat(p) /\ UNCHANGED turn /\ \A q \in Principal : q # p => runs'[q] = runs[q]
  BY DEF Finish, Release, CoreTypeOK
<1>2. \A q \in Principal : q # p => (Live(q) => Live(q)')
  BY <1>1 DEF Live, Seated
<1>3. (Retire(p) /\ ~Active(p)') \/ (UNCHANGED ledger /\ ~Live(p))
  <2>1. Retire(p) => ~Active(p)'
    BY DEF Retire, Active, LedgerTypeOK
  <2> QED
    BY <2>1 DEF Finish, Release, Live
<1>4. \A q \in Principal : Active(q)' => Active(q)
  BY <1>3, NoOpening
<1> QED
  BY <1>1, <1>2, <1>3, <1>4 DEF LiveInv, BeatIsLive, InBeat, CoreTypeOK, Turn, ledger, Active

\* Every step keeps authority with live agents, and the turn too.
LEMMA LiveStep ==
  ASSUME PlainInv, LiveInv, [Next]_all
  PROVE  LiveInv'
<1>1. LedgerTypeOK /\ CoreTypeOK
  BY DEF PlainInv, TypeOK
<1> DEFINE Quiet == /\ \A p \in Principal : Live(p) => Live(p)'
                    /\ \A p \in Principal : Active(p)' => Active(p)
                    /\ turn' # None => turn # None /\ turn'.agent = turn.agent
           SameTurn == turn' # None => turn # None /\ turn'.agent = turn.agent
<1>2. UNCHANGED runs => \A p \in Principal : Live(p) => Live(p)'
  BY DEF Live, Seated
<1>3. ASSUME NEW card \in Card, NEW s \in Session, NEW i \in InstanceRef,
             OpenAgent(card, s, i) \/ Resume(card, s, i)
      PROVE  LiveInv'
  BY <1>1, <1>3, OpenLive
<1>4. ASSUME NEW p \in Principal, Release(p) \/ Finish(p)
      PROVE  LiveInv'
  BY <1>1, <1>4, EndLive
<1>5. ASSUME NEW p \in Principal, SealSession(p) \/ FinishIntentRetained(p)
      PROVE  Quiet
  <2>1. UNCHANGED <<ledger, runs, turn>>
    BY <1>5 DEF SealSession, FinishIntentRetained
  <2> QED
    BY <1>1, <1>2, <2>1, NoOpening
<1>6. ASSUME NEW p \in Principal, Cancel(p)
      PROVE  Quiet
  <2>1. Revoke(p) \/ UNCHANGED ledger
    BY <1>6 DEF Cancel
  <2>2. \A q \in Principal : Active(q)' => Active(q)
    BY <1>1, <2>1, NoOpening
  <2>3. \A q \in Principal : Live(q) => Live(q)'
    BY <1>1, <1>6, RunType, NoneCoreAssumption DEF Cancel, Live, Seated, CoreTypeOK, Run
  <2>4. SameTurn
    BY <1>1, <1>6, TurnType DEF Cancel, InBeat, Turn
  <2> QED
    BY <2>2, <2>3, <2>4
<1>7. ASSUME NEW p \in Principal, NEW call \in Call \cup {None}, BeginBeat(p, call)
      PROVE  LiveInv'
  <2>1. \A q \in Principal : Live(q) => Live(q)'
    <3> DEFINE lowered == [runs[p] EXCEPT !.cancelled = FALSE,
                                          !.signal = runs[p].signal /\ ~Listening(p)]
    <3>1. lowered \in Run /\ lowered.status = runs[p].status
      BY <1>1, <1>7, RunType DEF BeginBeat, Live, Run
    <3>2. UNCHANGED runs \/ runs' = [runs EXCEPT ![p] = lowered]
      BY <1>7 DEF BeginBeat
    <3> HIDE DEF lowered
    <3> QED
      BY <1>1, <3>1, <3>2, NoneCoreAssumption DEF Live, Seated, CoreTypeOK
  <2>2. \A q \in Principal : Active(q)' => Active(q)
    BY <1>1, <1>7, NoOpening DEF BeginBeat
  <2>3. turn' = turn \/ (turn' # None => turn'.agent = p)
    BY <1>7 DEF BeginBeat
  <2>4. Live(p)'
    BY <1>7, <2>1 DEF BeginBeat
  <2> QED
    BY <1>1, <2>1, <2>2, <2>3, <2>4 DEF LiveInv, BeatIsLive, CoreTypeOK, Turn
<1>8. ASSUME Advance \/ CancelReceiver \/ EndRun
      PROVE  Quiet
  <2>1. UNCHANGED <<ledger, runs>> /\ SameTurn
    BY <1>1, <1>8, TurnType DEF Advance, CancelReceiver, EndRun, Turn
  <2> QED
    BY <1>1, <1>2, <2>1, NoOpening
<1>9. ASSUME Crash
      PROVE  LiveInv'
  BY <1>9 DEF Crash, Restart, LiveInv, BeatIsLive, Active
<1>10. ASSUME NEW child \in Principal, NEW supervisor \in Principal,
              SetSupervisor(child, supervisor)
       PROVE  Quiet
  BY <1>1, <1>2, <1>10, NoOpening DEF SetSupervisor, core
<1>11. ASSUME NEW p \in Principal, RevokeReviews(p)
       PROVE  Quiet
  BY <1>1, <1>2, <1>11, NoOpening DEF RevokeReviews
<1>12. ASSUME NEW supervisor \in Principal, NEW id \in ReviewId, NEW resolution \in Resolution,
              ResolveReview(supervisor, id, resolution)
       PROVE  Quiet
  <2>1. runs[supervisor].card \in Card
    BY <1>1, <1>12, RunType DEF ResolveReview, Live
  <2>2. Close(id) \/ Resolve(supervisor, id, resolution, runs[supervisor].card) \/ UNCHANGED ledger
    BY <1>12 DEF ResolveReview
  <2> QED
    BY <1>1, <1>2, <1>12, <2>1, <2>2, NoOpening DEF ResolveReview
<1>13. ASSUME ReviewTool
       PROVE  Quiet
  <2>0. \A id, request, call : Insert(id, request, call) => UNCHANGED instances
    BY DEF Insert
  <2>1. \A p, call, id : AskForReview(p, call, id) => UNCHANGED instances
    BY <2>0 DEF AskForReview, RetainReview, ledger
  <2>2. \A p, call, id : UseReview(p, call, id) => UNCHANGED instances
    BY DEF UseReview, Close, ledger
  <2>3. UNCHANGED <<instances, runs>>
    BY <1>13, <2>1, <2>2 DEF ReviewTool, ledger
  <2>4. turn \in Turn /\ (turn' = None \/ \E id : StartTool(id))
    BY <1>1, <1>13, TurnType DEF ReviewTool, AskForReview, UseReview, GiveUp
  <2>5. SameTurn
    BY <1>13, <2>4 DEF StartTool, Turn, ReviewTool
  <2> QED
    BY <1>2, <1>13, <2>3, <2>5 DEF Active
<1>14. ASSUME NEW kind \in FactKind, PutFact(kind)
       PROVE  Quiet
  <2>1. UNCHANGED <<runs, turn>>
        /\ (UNCHANGED ledger \/ \E revision \in Revision : InvalidateFact(kind, revision))
    BY <1>14, RevisionAssumption DEF PutFact
  <2> QED
    BY <1>1, <1>2, <2>1, NoOpening
<1>15. CASE UNCHANGED all
  BY <1>1, <1>2, <1>15, NoOpening, QuietStep DEF all, vars, core
<1>16. Quiet => LiveInv'
  BY <1>1, QuietStep
<1> QED
  <2> HIDE DEF Quiet
  <2> QED
    BY <1>3, <1>4, <1>5, <1>6, <1>7, <1>8, <1>9, <1>10, <1>11, <1>12, <1>13, <1>14, <1>15, <1>16
    DEF Next, Operation, LifecycleNext

\* The two facts together: who is not live takes part in no review either.
LEMMA AuthorityFollows ==
  ASSUME LedgerInv, \A p \in Principal : Active(p) => Live(p)
  PROVE  AuthorityIsLive
<1>1. ASSUME NEW p \in Principal, NEW id \in Involving(p)
      PROVE  Active(p)
  <2>1. id \in ReviewId /\ IsPending(id)
        /\ (pending[id].request.child = p \/ pending[id].request.supervisor = p)
    BY DEF Involving
  <2>2. pending[id].request \in ReviewRequest /\ ReviewCurrent(pending[id].request)
    BY <2>1, PendingIsTyped DEF LedgerInv, PendingCurrent, ReviewCurrent
  <2> QED
    BY <2>1, <2>2, ReviewParties DEF LedgerInv
<1> QED
  BY <1>1 DEF AuthorityIsLive

----------------------------------------------------------------------------
(* The beat in flight and the reviews it consumed *)

\* A call that waits for a review names the tool its subject is.
LEMMA CallStep ==
  ASSUME PlainInv, [Next]_all
  PROVE  CallInFlight'
<1>1. CASE UNCHANGED turn
  BY <1>1 DEF PlainInv, CallInFlight
<1>2. CASE turn' = None
  BY <1>2 DEF CallInFlight
<1>3. ASSUME NEW p \in Principal, Cancel(p)
      PROVE  CallInFlight'
  BY <1>3, TurnType DEF Cancel, InBeat, PlainInv, TypeOK, CallInFlight, Turn
<1>4. ASSUME NEW p, NEW call, BeginBeat(p, call)
      PROVE  CallInFlight'
  BY <1>1, <1>4 DEF BeginBeat, CallInFlight
<1>5. CancelReceiver => CallInFlight'
  BY TurnType DEF CancelReceiver, PlainInv, TypeOK, CallInFlight, Turn
<1>6. ASSUME ReviewTool
      PROVE  CallInFlight'
  <2>1. turn \in Turn /\ (turn' = None \/ \E id : StartTool(id)) /\ turn # None /\ turn.call # None
    BY <1>6, TurnType DEF ReviewTool, AskForReview, UseReview, GiveUp, PlainInv, TypeOK, CallInFlight
  <2> QED
    BY <2>1, <1>2 DEF StartTool, CallInFlight, Turn
<1>7. \A kind : PutFact(kind) => UNCHANGED turn
  BY DEF PutFact
<1>8. \A s, id, r : ResolveReview(s, id, r) => UNCHANGED turn
  BY DEF ResolveReview
<1>9. \A c, s : SetSupervisor(c, s) => UNCHANGED turn
  BY DEF SetSupervisor, core
<1>10. \A p : RevokeReviews(p) => UNCHANGED turn
  BY DEF RevokeReviews
<1>11. \A card, s, i : OpenAgent(card, s, i) \/ Resume(card, s, i) => UNCHANGED turn
  BY DEF OpenAgent, Resume
<1>12. \A p : SealSession(p) \/ Release(p) \/ FinishIntentRetained(p) => UNCHANGED turn
  BY DEF SealSession, Release, FinishIntentRetained
<1>13. \A p : Finish(p) => UNCHANGED turn
  BY DEF Finish
<1>14. Advance \/ EndRun \/ Crash => turn' = None
  BY DEF Advance, EndRun, Crash
<1>15. UNCHANGED all => UNCHANGED turn
  BY DEF all, vars, core
<1> QED
  BY <1>1, <1>2, <1>3, <1>4, <1>5, <1>6, <1>7, <1>8, <1>9, <1>10, <1>11, <1>12, <1>13, <1>14, <1>15
  DEF Next, Operation, LifecycleNext

\* What is pending has been seen, and what was used is not pending any more.
UsedOnce ==
  /\ \A id \in ReviewId : IsPending(id) => id \in seen
  /\ \A id \in executed : id \in seen /\ ~IsPending(id)

\* What a ledger step does to the life of the requests.
Removal ==
  /\ UNCHANGED seen
  /\ \A id \in ReviewId : IsPending(id)' => IsPending(id) /\ pending'[id] = pending[id]
Insertion(id) ==
  /\ id \notin seen /\ seen' = seen \cup {id}
  /\ IsPending(id)' /\ ~Approved(id)'
  /\ \A other \in ReviewId : other # id => pending'[other] = pending[other]

\* An insertion fills one fresh id.
LEMMA InsertionLemma ==
  ASSUME LedgerTypeOK, NEW id \in ReviewId, NEW request, NEW call, Insert(id, request, call),
         request \in ReviewRequest, call \in Call \cup {None}
  PROVE  Insertion(id)
<1> DEFINE review == [request |-> request, call |-> call, approver_card |-> None]
<1>1. review \in PendingReview /\ review.approver_card = None
  BY DEF PendingReview
<1>2. pending' = [pending EXCEPT ![id] = review] /\ id \notin seen /\ seen' = seen \cup {id}
  BY DEF Insert
<1> HIDE DEF review
<1> QED
  BY <1>1, <1>2, NoneAssumption DEF Insertion, Approved, IsPending, LedgerTypeOK

\* Ids are only added to seen, and whatever waits has been seen.
LEMMA SeenSteps ==
  ASSUME LedgerTypeOK, EdgesLive, [LedgerNext]_ledger \/ Restart
  PROVE  \/ Removal
         \/ \E id \in ReviewId : Insertion(id)
         \/ \E supervisor \in Principal, id \in ReviewId, res \in Resolution, card \in Card :
              Resolve(supervisor, id, res, card)
<1>1. \A ids : Remove(ids) =>
        \A id \in ReviewId : IsPending(id)' => IsPending(id) /\ pending'[id] = pending[id]
  BY RemoveLemma
<1>2. CASE Restart
  BY <1>2 DEF Restart, Removal, IsPending
<1>3. CASE InsertAny
  <2>1. PICK id \in ReviewId, p \in Principal, sup \in Principal \cup {None},
             m \in MountId \cup {None}, s \in Subject, c \in Call \cup {None},
             facts \in Facts, cause \in Cause :
               /\ InScope(p, m)
               /\ Insert(id, [child |-> p, supervisor |-> sup, subject |-> s, facts |-> facts,
                              cause |-> cause, scope |-> Scope(p, m)], c)
    BY <1>3 DEF InsertAny
  <2>2. Scope(p, m) \in ReviewScope
    BY <2>1, ScopeType
  <2>3. [child |-> p, supervisor |-> sup, subject |-> s, facts |-> facts,
         cause |-> cause, scope |-> Scope(p, m)] \in ReviewRequest
    BY <2>2 DEF ReviewRequest
  <2> QED
    BY <2>1, <2>3, InsertionLemma
<1>4. UNCHANGED ledger => Removal
  BY DEF ledger, Removal, IsPending
<1>5. \A i : Open(i) => Removal
  BY DEF Open, Removal, IsPending
<1>6. /\ \A m : Mount(m) => Removal
      /\ \A c, s : Bind(c, s) => Removal
  BY DEF Mount, Bind, Removal, IsPending
<1>7. \A m : Unmount(m) => Removal
  BY <1>1 DEF Unmount, Removal
<1>8. \A id : Close(id) => Removal
  BY <1>1 DEF Close, Removal
<1>9. \A k, r : InvalidateFact(k, r) => Removal
  BY <1>1 DEF InvalidateFact, Removal
<1>10. \A p : Retire(p) => Removal
  BY <1>1 DEF Retire, Removal
<1>11. \A p : Revoke(p) => Removal
  BY <1>1, <1>10 DEF Revoke, Removal
<1> QED
  BY <1>2, <1>3, <1>4, <1>5, <1>6, <1>7, <1>8, <1>9, <1>10, <1>11 DEF LedgerNext

\* A tool starts under a review in one way only.
Used(id) ==
  /\ Approved(id) /\ Close(id)
  /\ executed' = executed \cup {id}

\* Only the review of a tool call records an execution.
LEMMA ExecutedSteps ==
  ASSUME [Next]_all
  PROVE  UNCHANGED executed \/ \E id \in ReviewId : Used(id)
<1>1. ReviewTool => UNCHANGED executed \/ \E id \in ReviewId : Used(id)
  BY DEF ReviewTool, AskForReview, UseReview, Used, Waiting
<1> QED
  BY <1>1 DEF Next, Operation, workspace, SetSupervisor, RevokeReviews, ResolveReview, PutFact, all

\* A review under which a tool was started does not wait any more.
LEMMA UsedStep ==
  ASSUME PlainInv, UsedOnce, [Next]_all
  PROVE  UsedOnce'
<1>1. LedgerTypeOK /\ EdgesLive /\ executed \in SUBSET ReviewId
  BY DEF PlainInv, LedgerInv, TypeOK
<1>2. [LedgerNext]_ledger \/ Restart
  BY ControlStep
<1>3. \/ Removal
      \/ \E id \in ReviewId : Insertion(id)
      \/ \E supervisor \in Principal, id \in ReviewId, res \in Resolution, card \in Card :
           Resolve(supervisor, id, res, card)
  BY <1>1, <1>2, SeenSteps
<1>4. ASSUME NEW id \in ReviewId, Used(id)
      PROVE  UsedOnce'
  BY <1>1, <1>4, RemoveLemma DEF Used, Close, Remove, UsedOnce, Approved, IsPending
<1>5. ASSUME UNCHANGED executed
      PROVE  UsedOnce'
  <2>1. CASE Removal
    BY <1>1, <1>5, <2>1 DEF Removal, UsedOnce
  <2>2. CASE \E id \in ReviewId : Insertion(id)
    BY <1>1, <1>5, <2>2 DEF Insertion, UsedOnce, IsPending
  <2>3. ASSUME NEW supervisor \in Principal, NEW id \in ReviewId, NEW res \in Resolution,
               NEW card \in Card, Resolve(supervisor, id, res, card)
        PROVE  UsedOnce'
    <3>1. UNCHANGED seen /\ \A other \in ReviewId : IsPending(other)' => IsPending(other)
      BY <1>1, <2>3, ResolveLemma DEF Resolve
    <3> QED
      BY <1>1, <1>5, <3>1 DEF UsedOnce
  <2> QED
    BY <1>3, <2>1, <2>2, <2>3
<1> QED
  BY <1>4, <1>5, ExecutedSteps

----------------------------------------------------------------------------
(* Theorems *)

ControlInv == PlainInv /\ LiveInv /\ UsedOnce

\* The initial states satisfy the strengthening.
LEMMA InitInv == Init => ControlInv
<1> SUFFICES ASSUME Init PROVE ControlInv
  OBVIOUS
<1>1. LedgerInv
  BY LedgerInitInv DEF Init, LifecycleInit
<1>2. CoreTypeOK
  <2>1. [owner |-> None, mark |-> "none", sealed |-> None, retained |-> FALSE] \in SessionDir
    BY DEF SessionDir
  <2> QED
    BY <2>1, MaxFailuresAssumption DEF Init, LifecycleInit, CoreTypeOK
<1>3. generation \in Facts /\ executed = {}
  BY RevisionAssumption DEF Init, Facts
<1>4. TypeOK
  BY <1>1, <1>2, <1>3 DEF TypeOK, LedgerInv, Facts
<1>5. CallInFlight /\ LiveInv
  BY DEF Init, LifecycleInit, LedgerInit, CallInFlight, LiveInv, BeatIsLive, Active
<1>6. UsedOnce
  BY <1>3 DEF Init, LifecycleInit, LedgerInit, UsedOnce, IsPending
<1> QED
  BY <1>1, <1>4, <1>5, <1>6 DEF ControlInv, PlainInv

\* Every step preserves the strengthening.
LEMMA NextInv == ControlInv /\ [Next]_all => ControlInv'
<1> SUFFICES ASSUME ControlInv, [Next]_all PROVE ControlInv'
  OBVIOUS
<1>1. PlainInv /\ LiveInv /\ UsedOnce
  BY DEF ControlInv
<1>2. ([LedgerNext]_ledger \/ Restart) /\ CoreTypeOK' /\ generation' \in Facts
  BY <1>1, ControlStep
<1>3. LedgerInv'
  BY <1>1, <1>2, LedgerNextInv, RestartInv DEF PlainInv, LedgerInv
<1>4. executed' \in SUBSET ReviewId
  BY <1>1, ExecutedSteps DEF Used, PlainInv, TypeOK
<1>5. TypeOK'
  BY <1>2, <1>3, <1>4 DEF TypeOK, LedgerInv, Facts
<1> QED
  BY <1>1, <1>3, <1>5, CallStep, LiveStep, UsedStep DEF ControlInv, PlainInv

\* Every step of the control plane keeps its strengthened invariant.
THEOREM ControlInvariance == Spec => []ControlInv
<1>1. Init => ControlInv
  BY InitInv
<1>2. ControlInv /\ [Next]_all => ControlInv'
  BY NextInv
<1> QED
  BY <1>1, <1>2, PTL DEF Spec

\* The control plane stays well typed, tapes and sessions included.
THEOREM ControlTypeCorrect == Spec => []TypeOK
BY ControlInvariance, PTL DEF ControlInv, PlainInv

\* What the ledger guarantees of itself, it guarantees under AgentControl,
\* failing appends, finishes and restarts included.
THEOREM LedgerKept == Spec => []LedgerSafe
BY ControlInvariance, PTL DEF ControlInv, PlainInv, LedgerInv, LedgerSafe

\* A beat in flight belongs to a live agent, and only live agents have authority.
THEOREM OnlyLiveAgents == Spec => [](BeatIsLive /\ AuthorityIsLive)
<1>1. ControlInv => BeatIsLive /\ AuthorityIsLive
  BY AuthorityFollows DEF ControlInv, PlainInv, LiveInv
<1> QED
  BY <1>1, ControlInvariance, PTL

\* No tool without a go permit starts but on a current approval of its call.
THEOREM ApprovedStarts == Spec => StartsApproved
<1> DEFINE Approves(id) ==
             LET request == pending[id].request IN
               /\ turn'.review = id /\ Approved(id) /\ ~IsPending(id)'
               /\ pending[id].call = turn.call
               /\ request.facts = generation
               /\ request.scope.child = instances[turn.agent].ref
               /\ Current(request.scope)
               /\ Live(request.supervisor)
               /\ runs[request.supervisor].card = pending[id].approver_card
<1>1. ASSUME ControlInv, [Next]_all, turn # None, turn' # None, turn'.step = "running",
             turn.step # "running", PermitOf(turn.agent, ToolOf[turn.call]) # "go"
      PROVE  \E id \in ReviewId : Approves(id)
  <2>1. PlainInv /\ LiveInv /\ CoreTypeOK /\ turn \in Turn
    BY <1>1, TurnType DEF ControlInv, PlainInv, TypeOK
  <2>2. ReviewTool
    <3>1. \A p : Cancel(p) => turn'.step = turn.step
      BY <1>1, <2>1 DEF Cancel, InBeat, Turn
    <3>2. \A p, call : BeginBeat(p, call) => turn' = turn
      BY <1>1 DEF BeginBeat
    <3>3. ~Advance /\ ~EndRun /\ ~CancelReceiver /\ ~Crash
      BY <1>1, <2>1 DEF Advance, EndRun, CancelReceiver, Crash, Turn
    <3>4. \A card, s, i : OpenAgent(card, s, i) \/ Resume(card, s, i) => turn' = turn
      BY DEF OpenAgent, Resume
    <3>5. \A p : SealSession(p) \/ Release(p) \/ FinishIntentRetained(p) => turn' = turn
      BY DEF SealSession, Release, FinishIntentRetained
    <3>6. \A p : Finish(p) => turn' = turn
      BY DEF Finish
    <3>7. ~LifecycleNext
      BY <1>1, <3>1, <3>2, <3>3, <3>4, <3>5, <3>6 DEF LifecycleNext
    <3> QED
      BY <1>1, <3>3, <3>7 DEF Next, Operation, SetSupervisor, core, RevokeReviews, ResolveReview, PutFact, all, vars
  <2> DEFINE p == turn.agent
             call == turn.call
  <2>3. PICK id \in Waiting(Scope(p, None), ToolOf[call], TRUE) :
          LET approver == pending[id].request.supervisor IN
            /\ CheckCall(id, call, generation, runs[approver].card)
            /\ Approved(id) /\ Close(id) /\ StartTool(id)
    BY <1>1, <2>2 DEF ReviewTool, AskForReview, UseReview, GiveUp
  <2>4. id \in ReviewId /\ IsPending(id) /\ pending[id].request.scope = Scope(p, None)
    BY <2>3 DEF Waiting
  <2>5. pending[id].request \in ReviewRequest /\ ReviewCurrent(pending[id].request)
    BY <2>1, <2>4, PendingIsTyped DEF PlainInv, LedgerInv, PendingCurrent, ReviewCurrent
  <2>6. pending[id].request.supervisor \in Principal /\ Active(pending[id].request.supervisor)
    BY <2>1, <2>5, ReviewParties DEF PlainInv, LedgerInv
  <2>7. Live(pending[id].request.supervisor)
    BY <2>1, <2>6 DEF LiveInv
  <2>8. turn'.review = id
    BY <2>1, <2>3 DEF StartTool, Turn
  <2>9. ~IsPending(id)'
    BY <2>3, <2>4 DEF Close, Remove, IsPending
  <2>10. pending[id].request.scope.child = instances[p].ref
    BY <2>4 DEF Scope
  <2>11. runs[pending[id].request.supervisor].card = pending[id].approver_card
    BY <2>3 DEF CheckCall, Approved
  <2> QED
    BY <2>3, <2>4, <2>7, <2>8, <2>9, <2>10, <2>11 DEF CheckCall
<1>2. ControlInv /\ [Next]_all =>
        [turn # None /\ turn' # None /\ turn'.step = "running" /\ turn.step # "running"
           /\ PermitOf(turn.agent, ToolOf[turn.call]) # "go" =>
           \E id \in ReviewId : Approves(id)]_all
  BY <1>1
<1> QED
  BY <1>2, ControlInvariance, PTL DEF Spec, StartsApproved

----------------------------------------------------------------------------
(* The control plane implements the one-shot protocol *)

\* The stage of a request in terms of the state.
LEMMA StageFacts ==
  ASSUME NEW id
  PROVE  /\ StageOf(id) = "used" <=> id \in executed /\ ~IsPending(id)
         /\ StageOf(id) = "approved" <=> id \notin executed /\ Approved(id)
         /\ StageOf(id) = "waiting" <=> id \notin executed /\ IsPending(id) /\ ~Approved(id)
         /\ StageOf(id) = "closed" <=> id \notin executed /\ ~IsPending(id) /\ id \in seen
         /\ StageOf(id) = "fresh" <=> id \notin executed /\ ~IsPending(id) /\ id \notin seen
BY DEF StageOf, Approved

\* The same one step later.
LEMMA NextStageFacts ==
  ASSUME NEW id
  PROVE  /\ StageOf(id)' = "used" <=> id \in executed' /\ ~IsPending(id)'
         /\ StageOf(id)' = "approved" <=> id \notin executed' /\ Approved(id)'
         /\ StageOf(id)' = "waiting" <=> id \notin executed' /\ IsPending(id)' /\ ~Approved(id)'
         /\ StageOf(id)' = "closed" <=> id \notin executed' /\ ~IsPending(id)' /\ id \in seen'
         /\ StageOf(id)' = "fresh" <=> id \notin executed' /\ ~IsPending(id)' /\ id \notin seen'
BY DEF StageOf, Approved

\* A stage is settled by what is known of the request.
LEMMA SameStage ==
  ASSUME NEW id, (id \in executed') = (id \in executed), (id \in seen') = (id \in seen),
         pending'[id] = pending[id]
  PROVE  StageOf(id)' = StageOf(id)
BY DEF StageOf, Approved, IsPending

\* Every step is a step of the one-shot protocol or changes no stage.
LEMMA StageStep ==
  ASSUME PlainInv, UsedOnce, [Next]_all
  PROVE  [Protocol!Next]_[id \in ReviewId |-> StageOf(id)]
<1> DEFINE stage == [id \in ReviewId |-> StageOf(id)]
           Moves(id, from, to) == /\ StageOf(id) = from /\ StageOf(id)' = to
                                  /\ \A other \in ReviewId : other # id =>
                                       StageOf(other)' = StageOf(other)
<1>1. LedgerTypeOK /\ EdgesLive /\ executed \in SUBSET ReviewId
  BY DEF PlainInv, LedgerInv, TypeOK
<1>2. ASSUME NEW id \in ReviewId, NEW from, NEW to, Moves(id, from, to)
      PROVE  Protocol!Move(id, from, to)
  BY <1>2 DEF Protocol!Move
<1>3. ASSUME NEW ids \in SUBSET ReviewId,
             \A id \in ids : StageOf(id) \in {"waiting", "approved"} /\ StageOf(id)' = "closed",
             \A id \in ReviewId \ ids : StageOf(id)' = StageOf(id)
      PROVE  Protocol!Next
  <2>1. Protocol!End(ids)
    BY <1>3 DEF Protocol!End
  <2> QED
    BY <2>1 DEF Protocol!Next
<1>4. ASSUME NEW id \in ReviewId, Used(id)
      PROVE  Protocol!Next
  <2>1. id \notin executed /\ Approved(id) /\ IsPending(id)
    BY <1>4 DEF Used, UsedOnce, Approved
  <2>2. StageOf(id) = "approved" /\ StageOf(id)' = "used"
    BY <1>1, <1>4, <2>1, StageFacts, NextStageFacts DEF Used, Close, Remove, IsPending
  <2>3. \A other \in ReviewId : other # id => StageOf(other)' = StageOf(other)
    BY <1>4, SameStage DEF Used, Close, Remove
  <2>4. Protocol!Use(id)
    BY <2>2, <2>3, <1>2 DEF Protocol!Use
  <2> QED
    BY <2>4 DEF Protocol!Next
<1>5. ASSUME UNCHANGED executed, Removal
      PROVE  Protocol!Next
  <2> DEFINE ids == {id \in ReviewId : IsPending(id) /\ ~IsPending(id)'}
  <2>1. ASSUME NEW id \in ids
        PROVE  StageOf(id) \in {"waiting", "approved"} /\ StageOf(id)' = "closed"
    <3>1. id \notin executed /\ id \in seen /\ IsPending(id) /\ ~IsPending(id)'
      BY DEF UsedOnce
    <3>2. id \notin executed' /\ id \in seen'
      BY <1>5, <3>1 DEF Removal
    <3> QED
      BY <3>1, <3>2, StageFacts, NextStageFacts
  <2>2. ASSUME NEW id \in ReviewId \ ids
        PROVE  StageOf(id)' = StageOf(id)
    <3>1. pending'[id] = pending[id]
      BY <1>5 DEF Removal, IsPending
    <3> QED
      BY <1>5, <3>1, SameStage DEF Removal
  <2> HIDE DEF ids
  <2>3. ids \in SUBSET ReviewId
    BY DEF ids
  <2> QED
    BY <1>3, <2>1, <2>2, <2>3
<1>6. ASSUME UNCHANGED executed, NEW id \in ReviewId, Insertion(id)
      PROVE  Protocol!Next
  <2>1. id \notin executed /\ ~IsPending(id) /\ id \notin seen
    BY <1>6 DEF Insertion, UsedOnce
  <2>2. StageOf(id) = "fresh" /\ StageOf(id)' = "waiting"
    BY <1>6, <2>1, StageFacts, NextStageFacts DEF Insertion
  <2>3. \A other \in ReviewId : other # id => StageOf(other)' = StageOf(other)
    BY <1>6, SameStage DEF Insertion
  <2>4. Protocol!Request(id)
    BY <2>2, <2>3, <1>2 DEF Protocol!Request
  <2> QED
    BY <2>4 DEF Protocol!Next
<1>7. ASSUME UNCHANGED executed, NEW supervisor \in Principal, NEW id \in ReviewId,
             NEW res \in Resolution, NEW card \in Card, Resolve(supervisor, id, res, card)
      PROVE  [Protocol!Next]_stage
  <2>1. IsPending(id) /\ id \notin executed /\ UNCHANGED seen
    BY <1>7 DEF Resolve, CheckResolution, UsedOnce
  <2>2. CASE res \in {"retry", "reject"}
    <3>1. Removal
      BY <1>1, <1>7, <2>1, <2>2, RemoveLemma DEF Resolve, Removal
    <3> QED
      BY <1>5, <1>7, <3>1
  <2>3. CASE res \in {"approve_once", "consult"}
    <3>1. /\ pending' = [pending EXCEPT ![id] = WithApprover(id, IF res = "consult" THEN None ELSE card)]
          /\ res = "approve_once" => ~Approved(id)
      BY <1>7, <2>3 DEF Resolve, CheckResolution
    <3>2. \A other \in ReviewId : other # id => StageOf(other)' = StageOf(other)
      BY <1>1, <1>7, <2>1, <3>1, SameStage DEF LedgerTypeOK
    <3>3. IsPending(id)' /\ (Approved(id)' <=> res = "approve_once")
      <4> DEFINE review == WithApprover(id, IF res = "consult" THEN None ELSE card)
      <4>1. review \in PendingReview /\ (review.approver_card # None <=> res = "approve_once")
        BY <1>1, <2>1, <2>3, PendingIsTyped, NoneAssumption DEF WithApprover, PendingReview
      <4>2. pending'[id] = review
        BY <1>1, <3>1 DEF LedgerTypeOK
      <4> HIDE DEF review
      <4> QED
        BY <4>1, <4>2, NoneAssumption DEF IsPending, Approved
    <3>4. CASE res = "approve_once"
      <4>1. StageOf(id) = "waiting" /\ StageOf(id)' = "approved"
        BY <1>7, <2>1, <3>1, <3>3, <3>4, StageFacts, NextStageFacts
      <4>2. Protocol!Approve(id)
        BY <4>1, <3>2, <1>2 DEF Protocol!Approve
      <4> QED
        BY <4>2 DEF Protocol!Next
    <3>5. CASE res = "consult" /\ Approved(id)
      <4>1. StageOf(id) = "approved" /\ StageOf(id)' = "waiting"
        BY <1>7, <2>1, <3>3, <3>5, StageFacts, NextStageFacts
      <4>2. Protocol!Consult(id)
        BY <4>1, <3>2, <1>2 DEF Protocol!Consult
      <4> QED
        BY <4>2 DEF Protocol!Next
    <3>6. CASE res = "consult" /\ ~Approved(id)
      <4>1. StageOf(id) = "waiting" /\ StageOf(id)' = "waiting"
        BY <1>7, <2>1, <3>3, <3>6, StageFacts, NextStageFacts
      <4> QED
        BY <3>2, <4>1
    <3> QED
      BY <2>3, <3>4, <3>5, <3>6
  <2> QED
    BY <2>2, <2>3 DEF Resolution
<1>8. [LedgerNext]_ledger \/ Restart
  BY ControlStep
<1> QED
  BY <1>1, <1>4, <1>5, <1>6, <1>7, <1>8, SeenSteps, ExecutedSteps

\* An approval admits at most one execution, and nothing ended is revived: the
\* control plane implements the one-shot protocol.
THEOREM OneShotImplemented == Spec => OneShotProtocol
<1>1. Init => Protocol!Init
  <2> SUFFICES ASSUME Init PROVE Protocol!Init
    OBVIOUS
  <2>1. \A id \in ReviewId : StageOf(id) = "fresh"
    BY StageFacts DEF Init, LifecycleInit, LedgerInit, IsPending
  <2> QED
    BY <2>1 DEF Protocol!Init
<1>2. ControlInv /\ [Next]_all => [Protocol!Next]_[id \in ReviewId |-> StageOf(id)]
  BY StageStep DEF ControlInv
<1> QED
  BY <1>1, <1>2, ControlInvariance, PTL DEF Spec, OneShotProtocol, Protocol!Spec

----------------------------------------------------------------------------
(* Finishing *)

SameRun(p) ==
  /\ runs'[p].card = runs[p].card /\ runs'[p].session = runs[p].session
  /\ runs'[p].status = runs[p].status
  /\ runs'[p].closing = runs[p].closing /\ runs'[p].ended = runs[p].ended

\* Nobody is seated, nobody finishes, and who leaves has finished or died with all.
Steady ==
  \A p \in Principal :
    /\ Seated(p)' => Seated(p) /\ SameRun(p)
    /\ Seated(p) /\ ~Seated(p)' =>
         \/ runs[p].status = "finished" /\ ~InBeat(p)
         \/ turn' = None /\ \A q \in Principal : ~Seated(q)'

\* What a step does to the agents and their sessions.
LEMMA RunsSteps ==
  ASSUME CoreTypeOK, [Next]_all
  PROVE  \/ Steady /\ UNCHANGED sessions
         \/ UNCHANGED <<runs, turn>> /\ \E p \in Principal : SealSession(p) \/ FinishIntentRetained(p)
         \/ \E card \in Card, s \in Session, i \in InstanceRef : OpenAgent(card, s, i) \/ Resume(card, s, i)
         \/ \E p \in Principal : Finish(p)
<1>1. UNCHANGED runs => Steady
  BY DEF Steady, Seated, SameRun
<1>2. ASSUME NEW p \in Principal, NEW run \in Run, Seated(p), runs' = [runs EXCEPT ![p] = run],
             run.card = runs[p].card, run.session = runs[p].session, run.status = runs[p].status,
             run.closing = runs[p].closing, run.ended = runs[p].ended
      PROVE  Steady
  BY <1>2, NoneCoreAssumption DEF Steady, Seated, SameRun, CoreTypeOK
<1>3. ASSUME NEW p \in Principal, Cancel(p) PROVE Steady /\ UNCHANGED sessions
  <2> DEFINE run == [runs[p] EXCEPT !.cancelled = TRUE, !.signal = TRUE]
  <2>1. runs[p] \in Run /\ Seated(p)
    BY <1>3, RunType DEF Cancel, Live
  <2>2. /\ run \in Run
        /\ run.card = runs[p].card /\ run.session = runs[p].session /\ run.status = runs[p].status
        /\ run.closing = runs[p].closing /\ run.ended = runs[p].ended
    BY <2>1 DEF Run
  <2>3. runs' = [runs EXCEPT ![p] = run] /\ UNCHANGED sessions
    BY <1>3 DEF Cancel
  <2> HIDE DEF run
  <2> QED
    BY <1>2, <2>1, <2>2, <2>3
<1>4. ASSUME NEW p \in Principal, NEW call \in Call \cup {None}, BeginBeat(p, call)
      PROVE  Steady /\ UNCHANGED sessions
  <2> DEFINE run == [runs[p] EXCEPT !.cancelled = FALSE, !.signal = runs[p].signal /\ ~Listening(p)]
  <2>1. runs[p] \in Run /\ Seated(p)
    BY <1>4, RunType DEF BeginBeat, Live
  <2>2. /\ run \in Run
        /\ run.card = runs[p].card /\ run.session = runs[p].session /\ run.status = runs[p].status
        /\ run.closing = runs[p].closing /\ run.ended = runs[p].ended
    BY <2>1 DEF Run
  <2>3. (UNCHANGED runs \/ runs' = [runs EXCEPT ![p] = run]) /\ UNCHANGED sessions
    BY <1>4 DEF BeginBeat
  <2> HIDE DEF run
  <2> QED
    BY <1>1, <1>2, <2>1, <2>2, <2>3
<1>5. ASSUME NEW p \in Principal, Release(p) PROVE Steady /\ UNCHANGED sessions
  <2>1. runs' = [runs EXCEPT ![p] = None] /\ runs[p].status = "finished" /\ ~InBeat(p)
    BY <1>5 DEF Release
  <2> QED
    BY <1>5, <2>1 DEF Steady, Seated, SameRun, CoreTypeOK, Release
<1>6. ASSUME Crash PROVE Steady /\ UNCHANGED sessions
  BY <1>6 DEF Crash, Steady, Seated
<1>7. ASSUME NEW p \in Principal, SealSession(p) \/ FinishIntentRetained(p)
      PROVE  UNCHANGED <<runs, turn>>
  BY <1>7 DEF SealSession, FinishIntentRetained
<1>8. Advance \/ CancelReceiver \/ EndRun => UNCHANGED <<runs, sessions>>
  BY DEF Advance, CancelReceiver, EndRun
<1>9. /\ \A c, s : SetSupervisor(c, s) => UNCHANGED <<runs, sessions>>
      /\ \A p : RevokeReviews(p) => UNCHANGED <<runs, sessions>>
      /\ \A s, id, r : ResolveReview(s, id, r) => UNCHANGED <<runs, sessions>>
      /\ ReviewTool => UNCHANGED <<runs, sessions>>
      /\ \A kind : PutFact(kind) => UNCHANGED <<runs, sessions>>
      /\ UNCHANGED all => UNCHANGED <<runs, sessions>>
  BY DEF SetSupervisor, core, RevokeReviews, ResolveReview, ReviewTool, PutFact, all, vars
<1> QED
  BY <1>1, <1>3, <1>4, <1>5, <1>6, <1>7, <1>8, <1>9 DEF Next, Operation, LifecycleNext

\* Tapes only grow.
LEMMA EvidenceGrows ==
  ASSUME [Next]_all
  PROVE  evidence \subseteq evidence'
<1>1. /\ \A lines, ok : Record(lines, ok) => evidence \subseteq evidence'
      /\ \A lines, ok : RecordClosures(lines, ok) => evidence \subseteq evidence'
  BY DEF Record, RecordClosures
<1>2. \A ids : Closures(ids) => evidence \subseteq evidence'
  BY <1>1 DEF Closures
<1>3. \A card, s, i : OpenAgent(card, s, i) \/ Resume(card, s, i) => evidence \subseteq evidence'
  BY DEF OpenAgent, Resume
<1>4. \A p : SealSession(p) \/ FinishIntentRetained(p) => evidence \subseteq evidence'
  BY DEF SealSession, FinishIntentRetained
<1>5. \A p : Release(p) \/ Cancel(p) => evidence \subseteq evidence'
  BY <1>1 DEF Release, Cancel
<1>6. \A p : Finish(p) => evidence \subseteq evidence'
  BY <1>1 DEF Finish
<1>7. /\ \A p, call : BeginBeat(p, call) => evidence \subseteq evidence'
      /\ Advance \/ CancelReceiver \/ EndRun \/ Crash => evidence \subseteq evidence'
  BY DEF BeginBeat, Advance, CancelReceiver, EndRun, Crash
<1>8. /\ \A c, s : SetSupervisor(c, s) => evidence \subseteq evidence'
      /\ \A p : RevokeReviews(p) => evidence \subseteq evidence'
  BY <1>2 DEF SetSupervisor, core, RevokeReviews
<1>9. \A s, id, r : ResolveReview(s, id, r) => evidence \subseteq evidence'
  BY <1>1, <1>2 DEF ResolveReview
<1>10. /\ \A p, call, id : AskForReview(p, call, id) => evidence \subseteq evidence'
       /\ \A p, call, id : UseReview(p, call, id) => evidence \subseteq evidence'
  <2>1. \A p, m, subject, cause, call, id, ok :
          RetainReview(p, m, subject, cause, call, id, ok) => evidence \subseteq evidence'
    BY <1>1 DEF RetainReview
  <2> QED
    BY <1>1, <1>2, <2>1 DEF AskForReview, UseReview
<1>11. ReviewTool => evidence \subseteq evidence'
  BY <1>10 DEF ReviewTool
<1>12. \A kind : PutFact(kind) => evidence \subseteq evidence'
  BY <1>2 DEF PutFact
<1>13. UNCHANGED all => evidence \subseteq evidence'
  BY DEF all, vars, core
<1> QED
  BY <1>3, <1>4, <1>5, <1>6, <1>7, <1>8, <1>9, <1>11, <1>12, <1>13 DEF Next, Operation, LifecycleNext

\* A session belongs to who is seated on it, and what a finish has to record
\* accounts for every review its intent ended.
SessionsOwned == \A p \in Principal : Seated(p) => SessionOf(p).owner = p
EndedAreClosing ==
  \A p \in Principal : Seated(p) => \A id \in runs[p].ended : L(p, "review_closed", id) \in runs[p].closing

FinishInv == SessionsOwned /\ PendingFinishHolds /\ EndedAreClosing /\ FinishAccountsForReviews

\* What holds of one agent.
FinishOf(p) ==
  Seated(p) =>
    /\ SessionOf(p).owner = p
    /\ runs[p].status = "live" /\ SessionOf(p).mark = "finish_pending" => SessionOf(p).retained
    /\ \A id \in runs[p].ended : L(p, "review_closed", id) \in runs[p].closing
    /\ runs[p].status = "finished" =>
         \A id \in runs[p].ended : L(p, "review_closed", id) \in evidence

LEMMA FinishByAgent ==
  /\ FinishInv <=> \A p \in Principal : FinishOf(p)
  /\ FinishInv' <=> \A p \in Principal : FinishOf(p)'
BY DEF FinishInv, SessionsOwned, PendingFinishHolds, EndedAreClosing, FinishAccountsForReviews,
  FinishOf, Live, L

\* An agent whose run and session stay keeps what holds of it.
LEMMA FinishOfStays ==
  ASSUME NEW p \in Principal, FinishOf(p), evidence \subseteq evidence',
         Seated(p)' => Seated(p) /\ SameRun(p) /\ sessions'[runs[p].session] = sessions[runs[p].session]
  PROVE  FinishOf(p)'
BY DEF FinishOf, SessionOf, SameRun

\* Two agents are not seated on one session.
LEMMA SessionsDiffer ==
  ASSUME FinishInv, NEW p \in Principal, NEW q \in Principal, p # q, Seated(p), Seated(q)
  PROVE  runs[p].session # runs[q].session
BY DEF FinishInv, SessionsOwned, SessionOf

LEMMA FinishKeeps ==
  ASSUME CoreTypeOK, FinishInv, evidence \subseteq evidence', NEW p \in Principal, Finish(p)
  PROVE  FinishInv'
<1> DEFINE first == runs[p].status = "live"
           closing == IF first THEN PartyLines(Involving(p)) ELSE runs[p].closing
           ended == IF first THEN Involving(p) ELSE runs[p].ended
           intended == IF first THEN [SessionOf(p) EXCEPT !.mark = "finish_pending", !.retained = FALSE]
                       ELSE SessionOf(p)
           done == [runs[p] EXCEPT !.status = "finished", !.closing = closing, !.ended = ended,
                                   !.cancelled = FALSE]
           left == [runs[p] EXCEPT !.status = "finishing", !.closing = closing, !.ended = ended]
           written == [intended EXCEPT !.mark = "finish"]
<1>1. /\ runs[p] \in Run /\ runs[p].session \in Session /\ SessionOf(p) \in SessionDir
      /\ Seated(p) /\ SessionOf(p).owner = p
  BY RunType DEF Finish, SessionOf, FinishInv, SessionsOwned
<1>2. PICK concluded \in {"yes", "retained", "no"} :
        /\ \/ concluded = "yes" /\ RecordClosures(OnSeatedTapes(closing), TRUE)
           \/ /\ concluded # "yes" /\ AppendFails
              /\ evidence' = evidence \cup OnSeatedTapes(closing)
           \/ concluded = "no" /\ RecordClosures(OnSeatedTapes(closing), FALSE)
        /\ sessions' = [sessions EXCEPT ![runs[p].session] =
                          IF concluded = "no" THEN intended ELSE written]
        /\ runs' = [runs EXCEPT ![p] = IF concluded = "yes" THEN done ELSE left]
  BY DEF Finish
<1>3. intended \in SessionDir /\ intended.owner = p
  BY <1>1 DEF SessionDir
<1>4. \A id \in ended : L(p, "review_closed", id) \in closing
  <2>1. CASE first
    BY <2>1 DEF Involving, PartyLines, ClosureLines, L
  <2>2. CASE ~first
    BY <1>1, <2>2 DEF FinishInv, EndedAreClosing
  <2> QED
    BY <2>1, <2>2
<1> HIDE DEF closing, ended, first
<1>5. /\ done.session = runs[p].session /\ done.status = "finished"
      /\ done.closing = closing /\ done.ended = ended
      /\ left.session = runs[p].session /\ left.status = "finishing"
      /\ left.closing = closing /\ left.ended = ended
  BY <1>1 DEF Run
<1> HIDE DEF intended
<1>6. written.owner = p
  BY <1>3 DEF SessionDir
<1> HIDE DEF done, left, written
<1>7. concluded = "yes" => \A id \in ended : L(p, "review_closed", id) \in evidence'
  <2> SUFFICES ASSUME concluded = "yes", NEW id \in ended
               PROVE  L(p, "review_closed", id) \in evidence'
    OBVIOUS
  <2>1. L(p, "review_closed", id) \in OnSeatedTapes(closing)
    BY <1>1, <1>4 DEF OnSeatedTapes, L
  <2> QED
    BY <1>2, <2>1 DEF RecordClosures
<1>8. FinishOf(p)'
  <2>1. runs'[p] = IF concluded = "yes" THEN done ELSE left
    BY <1>2 DEF CoreTypeOK
  <2>2. runs'[p].session = runs[p].session /\ SessionOf(p)'.owner = p
    BY <1>1, <1>2, <1>3, <1>5, <1>6, <2>1 DEF CoreTypeOK, SessionOf
  <2>3. /\ runs'[p].closing = closing /\ runs'[p].ended = ended
        /\ runs'[p].status # "live"
        /\ runs'[p].status = "finished" => concluded = "yes"
    BY <1>5, <2>1
  <2> QED
    BY <1>4, <1>7, <2>2, <2>3 DEF FinishOf
<1>9. ASSUME NEW q \in Principal, q # p PROVE FinishOf(q)'
  <2>1. runs'[q] = runs[q] /\ (Seated(q) => runs[q].session # runs[p].session)
    BY <1>1, <1>2, <1>9, SessionsDiffer DEF CoreTypeOK
  <2>2. Seated(q) => sessions'[runs[q].session] = sessions[runs[q].session]
    BY <1>2, <2>1, RunType DEF CoreTypeOK
  <2>3. Seated(q)' => Seated(q) /\ SameRun(q)
    BY <2>1 DEF Seated, SameRun
  <2>4. FinishOf(q)
    BY FinishByAgent
  <2> QED
    BY <2>2, <2>3, <2>4, FinishOfStays
<1> QED
  BY <1>8, <1>9, FinishByAgent

\* A new run is live unless the session was left with a finish pending.
LEMMA SeatKeeps ==
  ASSUME CoreTypeOK, FinishInv, UNCHANGED evidence, NEW card \in Card, NEW s \in Session,
         NEW i \in InstanceRef, OpenAgent(card, s, i) \/ Resume(card, s, i)
  PROVE  FinishInv'
<1> DEFINE p == CardId[card]
           opened == [owner |-> p, mark |-> "none", sealed |-> None, retained |-> FALSE]
           run == NewRun(card, s)
           resumed == [run EXCEPT !.status = IF PendingFinish(s) THEN "finishing" ELSE "live"]
<1>1. p \in Principal /\ ~Seated(p)
  BY CardIdAssumption DEF OpenAgent, Resume
<1>2. run \in Run /\ resumed \in Run
  BY NewRunType DEF NewRun, Run
<1>3. /\ run.session = s /\ run.status = "live" /\ run.closing = {} /\ run.ended = {}
      /\ resumed.session = s /\ resumed.closing = {} /\ resumed.ended = {}
      /\ resumed.status = IF PendingFinish(s) THEN "finishing" ELSE "live"
  BY DEF NewRun
<1> HIDE DEF run, resumed
<1>4. \/ /\ sessions[s].owner = None /\ sessions' = [sessions EXCEPT ![s] = opened]
         /\ runs' = runs \/ runs' = [runs EXCEPT ![p] = run]
      \/ /\ sessions[s].owner = p /\ sessions' = sessions
         /\ runs' = runs \/ runs' = [runs EXCEPT ![p] = resumed]
  BY DEF OpenAgent, Resume, run, resumed
<1>5. ASSUME NEW q \in Principal, q # p PROVE FinishOf(q)'
  <2>1. runs'[q] = runs[q]
    BY <1>4, <1>5 DEF CoreTypeOK
  <2>2. Seated(q) => sessions'[runs[q].session] = sessions[runs[q].session]
    <3>1. Seated(q) => SessionOf(q).owner = q /\ runs[q].session \in Session /\ q # None
      BY RunType, NoneAssumption DEF FinishInv, SessionsOwned
    <3> QED
      BY <1>4, <3>1 DEF CoreTypeOK, SessionOf
  <2>3. Seated(q)' => Seated(q) /\ SameRun(q)
    BY <2>1 DEF Seated, SameRun
  <2>4. FinishOf(q)
    BY FinishByAgent
  <2> QED
    BY <2>2, <2>3, <2>4, FinishOfStays
<1>6. FinishOf(p)'
  <2>1. CASE runs' = runs
    BY <1>1, <2>1 DEF FinishOf, Seated
  <2>2. CASE sessions' = [sessions EXCEPT ![s] = opened] /\ runs' = [runs EXCEPT ![p] = run]
    <3>1. runs'[p] = run /\ sessions'[s] = opened
      BY <1>1, <2>2 DEF CoreTypeOK
    <3> QED
      BY <1>3, <3>1 DEF FinishOf, SessionOf
  <2>3. CASE sessions[s].owner = p /\ sessions' = sessions /\ runs' = [runs EXCEPT ![p] = resumed]
    <3>1. runs'[p] = resumed /\ sessions'[s] = sessions[s]
      BY <1>1, <2>3 DEF CoreTypeOK
    <3> QED
      BY <1>3, <2>3, <3>1 DEF FinishOf, SessionOf, PendingFinish
  <2> QED
    BY <1>4, <2>1, <2>2, <2>3
<1> QED
  BY <1>5, <1>6, FinishByAgent

LEMMA MarkKeeps ==
  ASSUME CoreTypeOK, FinishInv, UNCHANGED <<runs, evidence>>, NEW p \in Principal,
         SealSession(p) \/ FinishIntentRetained(p)
  PROVE  FinishInv'
<1>1. /\ Seated(p) /\ runs[p] \in Run /\ runs[p].session \in Session
      /\ SessionOf(p) \in SessionDir /\ SessionOf(p).owner = p
  BY RunType DEF SealSession, FinishIntentRetained, Live, SessionOf, FinishInv, SessionsOwned
<1>2. PICK dir : /\ sessions' = [sessions EXCEPT ![runs[p].session] = dir]
                 /\ dir.owner = p
                 /\ \/ dir.mark = SessionOf(p).mark /\ dir.retained = SessionOf(p).retained
                    \/ dir.retained
  <2>1. CASE SealSession(p)
    <3>1. [SessionOf(p) EXCEPT !.sealed = runs[p].card].owner = p
          /\ [SessionOf(p) EXCEPT !.sealed = runs[p].card].mark = SessionOf(p).mark
          /\ [SessionOf(p) EXCEPT !.sealed = runs[p].card].retained = SessionOf(p).retained
      BY <1>1 DEF SessionDir
    <3> QED
      BY <2>1, <3>1 DEF SealSession, SessionOf
  <2>2. CASE FinishIntentRetained(p)
    <3>1. [SessionOf(p) EXCEPT !.mark = "finish_pending", !.retained = TRUE].owner = p
          /\ [SessionOf(p) EXCEPT !.mark = "finish_pending", !.retained = TRUE].retained
      BY <1>1 DEF SessionDir
    <3> QED
      BY <2>2, <3>1 DEF FinishIntentRetained, SessionOf
  <2> QED
    BY <2>1, <2>2
<1>3. ASSUME NEW q \in Principal, q # p PROVE FinishOf(q)'
  <2>1. Seated(q) => runs[q].session # runs[p].session /\ runs[q].session \in Session
    BY <1>1, <1>3, SessionsDiffer, RunType
  <2>2. Seated(q) => sessions'[runs[q].session] = sessions[runs[q].session]
    BY <1>2, <2>1 DEF CoreTypeOK
  <2>3. Seated(q)' => Seated(q) /\ SameRun(q)
    BY DEF Seated, SameRun
  <2>4. FinishOf(q)
    BY FinishByAgent
  <2> QED
    BY <2>2, <2>3, <2>4, FinishOfStays
<1>4. FinishOf(p)'
  <2>1. SessionOf(p)' = dir
    BY <1>1, <1>2 DEF CoreTypeOK, SessionOf
  <2>2. FinishOf(p)
    BY FinishByAgent
  <2> QED
    BY <1>1, <1>2, <2>1, <2>2 DEF FinishOf, Seated
<1> QED
  BY <1>3, <1>4, FinishByAgent

LEMMA FinishStep ==
  ASSUME CoreTypeOK, FinishInv, [Next]_all
  PROVE  FinishInv'
<1>1. CASE Steady /\ UNCHANGED sessions
  BY <1>1, EvidenceGrows, FinishByAgent, FinishOfStays DEF Steady
<1>2. \A card, s, i : OpenAgent(card, s, i) \/ Resume(card, s, i) => UNCHANGED evidence
  BY DEF OpenAgent, Resume
<1>3. \A p : SealSession(p) \/ FinishIntentRetained(p) => UNCHANGED evidence
  BY DEF SealSession, FinishIntentRetained
<1> QED
  BY <1>1, <1>2, <1>3, RunsSteps, EvidenceGrows, FinishKeeps, SeatKeeps, MarkKeeps

\* A finish, once acknowledged, is the end of an agent: no session it left behind
\* brings it back, and every review it ended is on its tape. (finish, resume)
THEOREM FinishIsFinal == Spec => []LifecycleSafe
<1>1. Init => FinishInv
  BY DEF Init, LifecycleInit, FinishInv, SessionsOwned, PendingFinishHolds, EndedAreClosing,
    FinishAccountsForReviews, Seated, Live
<1>2. ControlInv /\ FinishInv /\ [Next]_all => FinishInv'
  BY FinishStep DEF ControlInv, PlainInv, TypeOK
<1>3. ControlInv /\ FinishInv => LifecycleSafe
  BY AuthorityFollows DEF LifecycleSafe, FinishInv, ControlInv, PlainInv, LiveInv
<1> QED
  BY <1>1, <1>2, <1>3, ControlInvariance, PTL DEF Spec

\* Who finishes stays seated, and is not live any more.
LEMMA FinishSeated ==
  ASSUME CoreTypeOK, NEW p \in Principal, Finish(p)
  PROVE  runs'[p] # None /\ runs'[p].status # "live"
<1> DEFINE first == runs[p].status = "live"
           closing == IF first THEN PartyLines(Involving(p)) ELSE runs[p].closing
           ended == IF first THEN Involving(p) ELSE runs[p].ended
           done == [runs[p] EXCEPT !.status = "finished", !.closing = closing, !.ended = ended,
                                   !.cancelled = FALSE]
           left == [runs[p] EXCEPT !.status = "finishing", !.closing = closing, !.ended = ended]
<1>1. runs[p] \in Run
  BY RunType DEF Finish
<1>2. closing \in SUBSET Line /\ ended \in SUBSET ReviewId
  BY <1>1, PartyLinesType DEF Involving, Run
<1>3. done \in Run /\ left \in Run /\ done.status # "live" /\ left.status # "live"
  BY <1>1, <1>2 DEF Run
<1>4. runs' = [runs EXCEPT ![p] = done] \/ runs' = [runs EXCEPT ![p] = left]
  BY DEF Finish
<1> HIDE DEF done, left
<1> QED
  BY <1>3, <1>4, NoneCoreAssumption DEF CoreTypeOK

\* An agent that is finishing never works again: it can only finish and then be
\* released, or die with the process. (finish, release)
THEOREM FinishConcludes == Spec => FinishOnlyConcludes
<1> DEFINE Concludes(p) ==
             /\ Seated(p) /\ ~Live(p) => ~Live(p)'
             /\ Seated(p) /\ runs[p].status = "finishing" /\ ~Seated(p)' => \A q \in Principal : ~Seated(q)'
<1>1. ASSUME CoreTypeOK, [Next]_all, NEW p \in Principal PROVE Concludes(p)
  <2>1. CASE Steady
    BY <2>1 DEF Steady, SameRun, Live
  <2>2. CASE UNCHANGED runs
    BY <2>2 DEF Live, Seated
  <2>3. ASSUME NEW card \in Card, NEW s \in Session, NEW i \in InstanceRef,
               OpenAgent(card, s, i) \/ Resume(card, s, i)
        PROVE  Concludes(p)
    <3>1. Seated(p) => p # CardId[card]
      BY <2>3 DEF OpenAgent, Resume
    <3>2. Seated(p) => runs'[p] = runs[p]
      BY <1>1, <2>3, <3>1 DEF OpenAgent, Resume, CoreTypeOK
    <3> QED
      BY <3>2 DEF Live, Seated
  <2>4. ASSUME NEW q \in Principal, Finish(q) PROVE Concludes(p)
    <3>1. CASE p # q
      <4>1. runs'[p] = runs[p]
        BY <1>1, <2>4, <3>1 DEF Finish, CoreTypeOK
      <4> QED
        BY <4>1 DEF Live, Seated
    <3>2. CASE p = q
      <4> QED
        BY <1>1, <2>4, <3>2, FinishSeated DEF Live, Seated
    <3> QED
      BY <3>1, <3>2
  <2> HIDE DEF Concludes
  <2> QED
    BY <1>1, <2>1, <2>2, <2>3, <2>4, RunsSteps
<1>2. ControlInv /\ [Next]_all => [\A p \in Principal : Concludes(p)]_vars
  BY <1>1 DEF ControlInv, PlainInv, TypeOK
<1> QED
  BY <1>2, ControlInvariance, PTL DEF Spec, FinishOnlyConcludes

----------------------------------------------------------------------------
(* Evidence *)

\* Whatever waits has been put to both tapes.
RequestLines(id) ==
  LET child == pending[id].request.child
      supervisor == pending[id].request.supervisor
  IN {L(child, "review_request", id), L(child, "mail_request", id), L(supervisor, "mail_request", id)}
ApprovalLines(id) ==
  LET child == pending[id].request.child
      supervisor == pending[id].request.supervisor
  IN {L(child, "approve_once", id), L(supervisor, "mail_approve_once", id),
      L(child, "mail_approve_once", id)}

RequestsEvidenced == \A id \in ReviewId : IsPending(id) => RequestLines(id) \subseteq evidence

EvidenceInv == RequestsEvidenced /\ EvidenceSafe

\* What holds of one review.
EvidenceOf(id) ==
  /\ IsPending(id) => RequestLines(id) \subseteq evidence
  /\ Approved(id) => ApprovalLines(id) \subseteq evidence

LEMMA EvidenceByReview ==
  /\ RequestsEvidenced /\ ApprovalEvidenced <=> \A id \in ReviewId : EvidenceOf(id)
  /\ RequestsEvidenced' /\ ApprovalEvidenced' <=> \A id \in ReviewId : EvidenceOf(id)'
<1>1. RequestsEvidenced /\ ApprovalEvidenced <=> \A id \in ReviewId : EvidenceOf(id)
  BY DEF RequestsEvidenced, ApprovalEvidenced, EvidenceOf, RequestLines, ApprovalLines, Approved
<1>2. RequestsEvidenced' /\ ApprovalEvidenced' <=> \A id \in ReviewId : EvidenceOf(id)'
  BY DEF RequestsEvidenced, ApprovalEvidenced, EvidenceOf, RequestLines, ApprovalLines, Approved
<1> QED
  BY <1>1, <1>2

\* Nothing is asked and nothing is answered.
NoNews == \A id \in ReviewId : IsPending(id)' => IsPending(id) /\ pending'[id] = pending[id]

LEMMA EvidenceOfStays ==
  ASSUME NEW id \in ReviewId, EvidenceOf(id), evidence \subseteq evidence',
         IsPending(id)' => IsPending(id) /\ pending'[id] = pending[id]
  PROVE  EvidenceOf(id)'
BY DEF EvidenceOf, RequestLines, ApprovalLines, Approved, IsPending

\* Only an answer and a tool call bring news to the ledger.
LEMMA NewsSteps ==
  ASSUME LedgerTypeOK, [Next]_all
  PROVE  \/ NoNews
         \/ \E supervisor \in Principal, id \in ReviewId, resolution \in Resolution :
              ResolveReview(supervisor, id, resolution)
         \/ ReviewTool
<1>1. \A ids : Remove(ids) => NoNews
  BY RemoveLemma DEF NoNews
<1>2. UNCHANGED pending => NoNews
  BY DEF NoNews, IsPending
<1>3. \A p : Retire(p) \/ Revoke(p) => NoNews
  BY <1>1 DEF Retire, Revoke
<1>4. \A card, s, i : OpenAgent(card, s, i) \/ Resume(card, s, i) => UNCHANGED pending
  BY DEF OpenAgent, Resume, Open, ledger
<1>5. \A p : SealSession(p) \/ FinishIntentRetained(p) => UNCHANGED pending
  BY DEF SealSession, FinishIntentRetained, ledger
<1>6. \A p : Release(p) => NoNews
  BY <1>3 DEF Release
<1>7. \A p : Cancel(p) => NoNews
  BY <1>2, <1>3 DEF Cancel, ledger
<1>8. \A p : Finish(p) => NoNews
  BY <1>2, <1>3 DEF Finish, ledger
<1>9. /\ \A p, call : BeginBeat(p, call) => UNCHANGED pending
      /\ Advance \/ CancelReceiver \/ EndRun => UNCHANGED pending
  BY DEF BeginBeat, Advance, CancelReceiver, EndRun, ledger
<1>10. Crash => NoNews
  BY DEF Crash, Restart, NoNews, IsPending
<1>11. \A c, s : SetSupervisor(c, s) => UNCHANGED pending
  BY DEF SetSupervisor, Bind
<1>12. \A p : RevokeReviews(p) => NoNews
  BY <1>3 DEF RevokeReviews
<1>13. \A kind : PutFact(kind) => NoNews
  BY <1>1, <1>2 DEF PutFact, InvalidateFact, ledger
<1>14. UNCHANGED all => UNCHANGED pending
  BY DEF all, vars, ledger
<1> QED
  BY <1>2, <1>4, <1>5, <1>6, <1>7, <1>8, <1>9, <1>10, <1>11, <1>12, <1>13, <1>14
  DEF Next, Operation, LifecycleNext

\* What an operation that records its lines leaves on the tapes.
LEMMA Recorded ==
  ASSUME NEW a, NEW b, NEW c, Record(<<a, b, c>>, TRUE)
  PROVE  evidence' = evidence \cup {a, b, c}
<1>1. {<<a, b, c>>[i] : i \in DOMAIN <<a, b, c>>} = {a, b, c}
  <2>1. DOMAIN <<a, b, c>> = {1, 2, 3}
    OBVIOUS
  <2> QED
    BY <2>1
<1> QED
  BY <1>1 DEF Record

LEMMA RecordedPair ==
  ASSUME NEW a, NEW b, Record(<<a, b>>, TRUE)
  PROVE  evidence' = evidence \cup {a, b}
<1>1. {<<a, b>>[i] : i \in DOMAIN <<a, b>>} = {a, b}
  <2>1. DOMAIN <<a, b>> = {1, 2}
    OBVIOUS
  <2> QED
    BY <2>1
<1> QED
  BY <1>1 DEF Record

\* The parties of a review that waits.
LEMMA PartiesOf ==
  ASSUME LedgerInv, NEW id \in ReviewId, IsPending(id)
  PROVE  LET request == pending[id].request IN
         /\ request \in ReviewRequest /\ request.child \in Principal /\ request.supervisor \in Principal
         /\ Active(request.child) /\ Active(request.supervisor)
         /\ instances[request.child].ref = request.scope.child
         /\ instances[request.supervisor].ref = request.scope.supervisor
         /\ request.child = request.scope.child.principal
         /\ request.supervisor = request.scope.supervisor.principal
<1>1. pending[id].request \in ReviewRequest /\ ReviewCurrent(pending[id].request)
  BY PendingIsTyped DEF LedgerInv, PendingCurrent, ReviewCurrent
<1> QED
  BY <1>1, ReviewParties DEF LedgerInv, ReviewCurrent

\* An answer is on the tapes of both before an approval takes effect.
LEMMA AnswerKeeps ==
  ASSUME LedgerInv, RequestsEvidenced /\ ApprovalEvidenced, evidence \subseteq evidence',
         NEW supervisor \in Principal, NEW id \in ReviewId, NEW resolution \in Resolution,
         ResolveReview(supervisor, id, resolution), NEW other \in ReviewId
  PROVE  EvidenceOf(other)'
<1> DEFINE card == runs[supervisor].card
<1>1. LedgerTypeOK /\ IsPending(id) /\ EvidenceOf(other) /\ EvidenceOf(id)
  BY EvidenceByReview DEF LedgerInv, ResolveReview, CheckResolution
<1>2. pending[id].request.supervisor = supervisor
  <2>1. pending[id].request.scope.supervisor = instances[supervisor].ref /\ Active(supervisor)
    BY DEF ResolveReview, CheckResolution
  <2>2. instances[supervisor].ref.principal = supervisor
    BY <1>1, <2>1 DEF LedgerTypeOK, Active
  <2> QED
    BY <1>1, <2>1, <2>2, PartiesOf
<1>3. CASE NoNews
  BY <1>1, <1>3, EvidenceOfStays DEF NoNews
<1>4. CASE Resolve(supervisor, id, resolution, card) /\ resolution # "approve_once"
  <2>1. CASE Remove({id})
    BY <1>1, <1>3, <2>1, RemoveLemma DEF NoNews
  <2>2. CASE pending' = [pending EXCEPT ![id] = WithApprover(id, None)]
    <3>1. pending'[id] = WithApprover(id, None)
      BY <1>1, <2>2 DEF LedgerTypeOK
    <3>2. ~Approved(id)'
      BY <3>1 DEF Approved, WithApprover
    <3>3. RequestLines(id)' = RequestLines(id)
      BY <3>1 DEF RequestLines, WithApprover
    <3>4. EvidenceOf(id)'
      BY <1>1, <3>2, <3>3 DEF EvidenceOf
    <3>5. other # id => pending'[other] = pending[other]
      BY <1>1, <2>2 DEF LedgerTypeOK
    <3> QED
      BY <1>1, <3>4, <3>5, EvidenceOfStays DEF IsPending
  <2> QED
    BY <1>4, <2>1, <2>2 DEF Resolve
<1>5. CASE /\ resolution = "approve_once" /\ Resolve(supervisor, id, resolution, card)
           /\ Record(<<L(pending[id].request.child, "approve_once", id),
                       L(supervisor, "mail_approve_once", id),
                       L(pending[id].request.child, "mail_approve_once", id)>>, TRUE)
  <2>1. pending' = [pending EXCEPT ![id] = WithApprover(id, card)]
    BY <1>5 DEF Resolve
  <2>2. ApprovalLines(id) \subseteq evidence'
    <3>1. evidence' = evidence \cup
                        {L(pending[id].request.child, "approve_once", id),
                         L(supervisor, "mail_approve_once", id),
                         L(pending[id].request.child, "mail_approve_once", id)}
      BY <1>5, Recorded
    <3> QED
      BY <1>2, <3>1 DEF ApprovalLines
  <2>3. pending'[id] = WithApprover(id, card)
    BY <1>1, <2>1 DEF LedgerTypeOK
  <2>4. RequestLines(id)' = RequestLines(id) /\ ApprovalLines(id)' = ApprovalLines(id)
    BY <2>3 DEF RequestLines, ApprovalLines, WithApprover
  <2>5. EvidenceOf(id)'
    BY <1>1, <2>2, <2>4 DEF EvidenceOf
  <2>6. other # id => pending'[other] = pending[other]
    BY <1>1, <2>1 DEF LedgerTypeOK
  <2> QED
    BY <1>1, <2>5, <2>6, EvidenceOfStays DEF IsPending
<1>6. Close(id) => NoNews
  BY <1>1, RemoveLemma DEF Close, NoNews
<1>7. UNCHANGED ledger => NoNews
  BY DEF ledger, NoNews, IsPending
<1> QED
  BY <1>3, <1>4, <1>5, <1>6, <1>7 DEF ResolveReview

\* A request is on the tapes of both before it waits.
LEMMA AskKeeps ==
  ASSUME LedgerInv, CoreTypeOK, RequestsEvidenced /\ ApprovalEvidenced, evidence \subseteq evidence',
         NEW p \in Principal, NEW call \in Call, NEW id \in ReviewId, AskForReview(p, call, id),
         NEW other \in ReviewId
  PROVE  EvidenceOf(other)'
<1> DEFINE scope == Scope(p, None)
           supervisor == IF scope.supervisor = None THEN None ELSE scope.supervisor.principal
           cause == IF PermitOf(p, ToolOf[call]) = "ask" THEN "high_risk" ELSE "permission_denied"
           request == [child |-> p, supervisor |-> supervisor, subject |-> ToolOf[call],
                       facts |-> generation, cause |-> cause, scope |-> scope]
           three == <<L(p, "review_request", id), L(p, "mail_request", id),
                      L(supervisor, "mail_request", id)>>
<1>1. EvidenceOf(other) /\ LedgerTypeOK
  BY EvidenceByReview DEF LedgerInv
<1>2. CASE UNCHANGED ledger
  BY <1>1, <1>2, EvidenceOfStays DEF ledger, IsPending
<1>3. CASE Record(three, TRUE) /\ Insert(id, request, call)
  <2>1. evidence' = evidence \cup {L(p, "review_request", id), L(p, "mail_request", id),
                                   L(supervisor, "mail_request", id)}
    BY <1>3, Recorded
  <2> HIDE DEF scope, supervisor, cause
  <2>2. pending'[id] = [request |-> request, call |-> call, approver_card |-> None]
    BY <1>1, <1>3 DEF Insert, LedgerTypeOK
  <2>3. ~Approved(id)'
    BY <2>2 DEF Approved
  <2>4. RequestLines(id)' \subseteq evidence'
    BY <2>1, <2>2 DEF RequestLines
  <2>5. other # id => pending'[other] = pending[other]
    BY <1>1, <1>3 DEF Insert, LedgerTypeOK
  <2> QED
    BY <1>1, <2>3, <2>4, <2>5, EvidenceOfStays DEF EvidenceOf, IsPending
<1>4. UNCHANGED ledger \/ (Record(three, TRUE) /\ Insert(id, request, call))
  BY DEF AskForReview, RetainReview
<1> QED
  BY <1>2, <1>3, <1>4

\* The beat whose tool runs is the one that started it, with the card it has since.
LEMMA TurnStays ==
  ASSUME CoreTypeOK, BeatIsLive, [Next]_all, turn' # None, turn'.step = "running"
  PROVE  \/ ReviewTool
         \/ /\ turn # None /\ turn.step = "running"
            /\ turn'.agent = turn.agent /\ turn'.call = turn.call /\ turn'.review = turn.review
<1> DEFINE Stays == /\ turn # None /\ turn.step = "running"
                    /\ turn'.agent = turn.agent /\ turn'.call = turn.call /\ turn'.review = turn.review
<1>1. UNCHANGED turn => Stays
  OBVIOUS
<1>2. \A p : Cancel(p) => Stays
  BY TurnType DEF Cancel, InBeat, Turn
<1>3. \A p, call : BeginBeat(p, call) => UNCHANGED turn
  BY DEF BeginBeat
<1>4. ~Advance /\ ~EndRun /\ ~CancelReceiver /\ ~Crash
  BY TurnType DEF Advance, EndRun, CancelReceiver, Crash, Turn
<1>5. \A card, s, i : OpenAgent(card, s, i) \/ Resume(card, s, i) => UNCHANGED turn
  BY DEF OpenAgent, Resume
<1>6. \A p : SealSession(p) \/ Release(p) \/ FinishIntentRetained(p) => UNCHANGED turn
  BY DEF SealSession, Release, FinishIntentRetained
<1>7. \A p : Finish(p) => UNCHANGED turn
  BY DEF Finish
<1>8. /\ \A c, s : SetSupervisor(c, s) => UNCHANGED turn
      /\ \A p : RevokeReviews(p) => UNCHANGED turn
      /\ \A s, id, r : ResolveReview(s, id, r) => UNCHANGED turn
      /\ \A kind : PutFact(kind) => UNCHANGED turn
      /\ UNCHANGED all => UNCHANGED turn
  BY DEF SetSupervisor, core, RevokeReviews, ResolveReview, PutFact, all, vars
<1> HIDE DEF Stays
<1>9. ReviewTool \/ Stays
  BY <1>1, <1>2, <1>3, <1>4, <1>5, <1>6, <1>7, <1>8 DEF Next, Operation, LifecycleNext
<1> QED
  BY <1>9 DEF Stays

LEMMA CardStays ==
  ASSUME CoreTypeOK, BeatIsLive, [Next]_all, turn # None, turn' # None
  PROVE  runs'[turn.agent].card = runs[turn.agent].card
<1> DEFINE p == turn.agent
<1>1. p \in Principal /\ Seated(p) /\ runs[p].status = "live" /\ InBeat(p)
  BY TurnType DEF BeatIsLive, Live, InBeat, Turn
<1>2. CASE Steady
  BY <1>1, <1>2 DEF Steady, SameRun
<1>3. ASSUME NEW card \in Card, NEW s \in Session, NEW i \in InstanceRef,
             OpenAgent(card, s, i) \/ Resume(card, s, i)
      PROVE  runs'[p] = runs[p]
  BY <1>1, <1>3 DEF OpenAgent, Resume, CoreTypeOK
<1>4. ASSUME NEW q \in Principal, Finish(q) PROVE runs'[p] = runs[p]
  <2>1. ~InBeat(q) /\ q # p
    BY <1>1, <1>4 DEF Finish
  <2> QED
    BY <1>1, <1>4, <2>1 DEF Finish, CoreTypeOK
<1> QED
  BY <1>2, <1>3, <1>4, RunsSteps

\* What a call without a go permit has to leave on the tape of its agent.
LEMMA StartKeeps ==
  ASSUME PlainInv, RequestsEvidenced /\ ApprovalEvidenced, evidence \subseteq evidence', ReviewTool,
         turn' # None, turn'.step = "running", PermitOf(turn.agent, ToolOf[turn.call])' # "go"
  PROVE  {L(turn'.agent, tag, turn'.review) :
            tag \in {"review_request", "approve_once", "review_consumed", "gate"}} \subseteq evidence'
<1> DEFINE p == turn.agent
           call == turn.call
<1>1. /\ turn # None /\ CoreTypeOK /\ LedgerInv /\ LedgerTypeOK /\ turn \in Turn /\ p \in Principal
      /\ UNCHANGED runs
  BY SubscribedType DEF ReviewTool, PlainInv, TypeOK
<1>2. PICK id \in ReviewId \cup {None} : StartTool(id)
  BY DEF ReviewTool, AskForReview, UseReview, GiveUp, Waiting
<1>3. turn'.agent = p /\ turn'.call = call
  BY <1>1, <1>2 DEF StartTool, Turn
<1>4. PermitOf(p, ToolOf[call]) # "go"
  BY <1>1, <1>3 DEF PermitOf
<1>5. PICK used \in Waiting(Scope(p, None), ToolOf[call], TRUE) :
        /\ Approved(used) /\ StartTool(used) /\ Active(p)
        /\ Record(<<L(p, "review_consumed", used), L(p, "gate", used)>>, TRUE)
  BY <1>4 DEF ReviewTool, AskForReview, UseReview, GiveUp
<1>6. used \in ReviewId /\ IsPending(used) /\ pending[used].request.scope = Scope(p, None)
  BY <1>5 DEF Waiting
<1>7. pending[used].request.child = p
  <2>1. pending[used].request.child = Scope(p, None).child.principal
    BY <1>1, <1>6, PartiesOf
  <2>2. instances[p].ref.principal = p
    BY <1>1, <1>5 DEF LedgerTypeOK, Active
  <2> QED
    BY <2>1, <2>2 DEF Scope
<1>8. {L(p, "review_request", used), L(p, "approve_once", used)} \subseteq evidence'
  BY <1>5, <1>6, <1>7, EvidenceByReview DEF EvidenceOf, RequestLines, ApprovalLines
<1>9. {L(p, "review_consumed", used), L(p, "gate", used)} \subseteq evidence'
  <2>1. Record(<<L(p, "review_consumed", used), L(p, "gate", used)>>, TRUE)
    BY <1>5
  <2>2. evidence' = evidence \cup {L(p, "review_consumed", used), L(p, "gate", used)}
    BY <2>1, RecordedPair
  <2> QED
    BY <2>2
<1>10. turn'.agent = p /\ turn'.review = used
  BY <1>1, <1>5 DEF StartTool, Turn
<1> QED
  BY <1>8, <1>9, <1>10

LEMMA EvidenceStep ==
  ASSUME ControlInv, EvidenceInv, [Next]_all
  PROVE  EvidenceInv'
<1>1. /\ PlainInv /\ LedgerInv /\ LedgerTypeOK /\ CoreTypeOK /\ BeatIsLive
      /\ RequestsEvidenced /\ ApprovalEvidenced /\ ExecutionEvidenced
      /\ evidence \subseteq evidence'
  BY EvidenceGrows DEF ControlInv, PlainInv, LedgerInv, TypeOK, LiveInv, EvidenceInv, EvidenceSafe
<1>2. ASSUME NEW other \in ReviewId PROVE EvidenceOf(other)'
  <2>1. EvidenceOf(other)
    BY <1>1, EvidenceByReview
  <2>2. CASE NoNews
    BY <1>1, <2>1, <2>2, EvidenceOfStays DEF NoNews
  <2>3. ASSUME NEW supervisor \in Principal, NEW id \in ReviewId, NEW resolution \in Resolution,
               ResolveReview(supervisor, id, resolution)
        PROVE  EvidenceOf(other)'
    BY <1>1, <2>3, AnswerKeeps
  <2>4. CASE ReviewTool
    <3>1. turn.agent \in Principal /\ turn.call \in Call
      BY <1>1, <2>4, SubscribedType DEF ReviewTool, PlainInv
    <3>2. \A p, call, id : UseReview(p, call, id) => NoNews
      <4>1. \A id : Close(id) => NoNews
        BY <1>1, RemoveLemma DEF Close, NoNews
      <4>2. UNCHANGED ledger => NoNews
        BY DEF ledger, NoNews, IsPending
      <4> QED
        BY <4>1, <4>2 DEF UseReview
    <3>3. UNCHANGED ledger => NoNews
      BY DEF ledger, NoNews, IsPending
    <3>4. \/ NoNews
          \/ \E id \in ReviewId : AskForReview(turn.agent, turn.call, id)
      BY <2>4, <3>2, <3>3 DEF ReviewTool
    <3> QED
      BY <1>1, <2>2, <3>1, <3>4, AskKeeps
  <2> QED
    BY <1>1, <2>2, <2>3, <2>4, NewsSteps
<1>3. ExecutionEvidenced'
  <2> SUFFICES ASSUME turn' # None, turn'.step = "running",
                      PermitOf(turn.agent, ToolOf[turn.call])' # "go"
               PROVE  {L(turn'.agent, tag, turn'.review) :
                         tag \in {"review_request", "approve_once", "review_consumed", "gate"}}
                        \subseteq evidence'
    BY DEF ExecutionEvidenced
  <2>1. CASE ReviewTool
    BY <1>1, <2>1, StartKeeps
  <2>2. CASE /\ turn # None /\ turn.step = "running"
             /\ turn'.agent = turn.agent /\ turn'.call = turn.call /\ turn'.review = turn.review
    <3>1. runs'[turn.agent].card = runs[turn.agent].card
      BY <1>1, <2>2, CardStays
    <3>2. PermitOf(turn.agent, ToolOf[turn.call]) # "go"
      BY <2>2, <3>1 DEF PermitOf
    <3> QED
      BY <1>1, <2>2, <3>2 DEF ExecutionEvidenced
  <2> QED
    BY <1>1, <2>1, <2>2, TurnStays
<1> QED
  BY <1>2, <1>3, EvidenceByReview DEF EvidenceInv, EvidenceSafe

\* An approval that can be used is on both tapes, and a tool that was started under
\* one has its whole story on the tape of its agent, whatever append failed.
\* (resolve_review, review_tool)
THEOREM EvidenceIsComplete == Spec => []EvidenceSafe
<1>1. Init => EvidenceInv
  BY DEF Init, LifecycleInit, LedgerInit, EvidenceInv, EvidenceSafe, RequestsEvidenced,
    ApprovalEvidenced, ExecutionEvidenced, Approved, IsPending
<1>2. ControlInv /\ EvidenceInv /\ [Next]_all => EvidenceInv'
  BY EvidenceStep
<1>3. EvidenceInv => EvidenceSafe
  BY DEF EvidenceInv
<1> QED
  BY <1>1, <1>2, <1>3, ControlInvariance, PTL DEF Spec

\* A closure that meets no failing append is on every tape that is mounted.
LEMMA ClosedOnTape ==
  ASSUME CoreTypeOK, NEW ids, NEW ok, RecordClosures(OnSeatedTapes(PartyLines(ids)), ok),
         failures' = failures, NEW id \in ids, pending[id].request.child \in Principal,
         Seated(pending[id].request.child)
  PROVE  L(pending[id].request.child, "review_closed", id) \in evidence'
<1>1. ~AppendFails
  BY MaxFailuresAssumption DEF AppendFails, CoreTypeOK
<1>2. evidence' = evidence \cup OnSeatedTapes(PartyLines(ids))
  BY <1>1 DEF RecordClosures
<1>3. L(pending[id].request.child, "review_closed", id) \in OnSeatedTapes(PartyLines(ids))
  BY DEF OnSeatedTapes, PartyLines, ClosureLines, L
<1> QED
  BY <1>2, <1>3

\* A review that goes away was removed by name.
LEMMA RemovedByName ==
  ASSUME NEW id \in ReviewId, IsPending(id), ~IsPending(id)'
  PROVE  /\ \A ids : Remove(ids) => id \in ids
         /\ ~UNCHANGED pending
BY DEF Remove, IsPending

\* No operation drops a review without a line on its child's tape, unless an append
\* fails or the process dies. (revoke, close_reviews, resolve_review)
THEOREM RemovalsLeaveLines == Spec => RemovalsEvidenced
<1> DEFINE Accounted(id) ==
             \E tag \in {"review_closed", "review_consumed", "answer"} :
               L(pending[id].request.child, tag, id) \in evidence'
<1>1. ASSUME ControlInv, [Next]_all, NEW id \in ReviewId, IsPending(id), ~IsPending(id)',
             failures' = failures, runs'[pending[id].request.child] # None
      PROVE  Accounted(id)
  <2> DEFINE child == pending[id].request.child
  <2>1. LedgerInv /\ LedgerTypeOK /\ CoreTypeOK /\ LiveInv /\ PlainInv
    BY <1>1 DEF ControlInv, PlainInv, LedgerInv, TypeOK
  <2>2. child \in Principal /\ Seated(child)
    BY <1>1, <2>1, PartiesOf DEF LiveInv, Live
  <2>3. ~AppendFails
    BY <1>1, <2>1, MaxFailuresAssumption DEF AppendFails, CoreTypeOK
  <2>4. /\ \A ids : Remove(ids) => id \in ids
        /\ ~UNCHANGED pending
    BY <1>1, RemovedByName
  <2>5. \A ids : id \in ids /\ (\E ok \in BOOLEAN : RecordClosures(OnSeatedTapes(PartyLines(ids)), ok))
           => Accounted(id)
    BY <1>1, <2>1, <2>2, ClosedOnTape
  <2>6. \A ids : id \in ids /\ Closures(ids) => Accounted(id)
    BY <2>5 DEF Closures
  <2>7. \A p : Retire(p) \/ Revoke(p) => id \in Involving(p)
    BY <2>4 DEF Retire, Revoke
  <2> HIDE DEF child
  <2>8. ASSUME NEW p \in Principal, Release(p) \/ Cancel(p) PROVE Accounted(id)
    <3>1. /\ Retire(p) \/ Revoke(p)
          /\ \E ok \in BOOLEAN : RecordClosures(OnSeatedTapes(PartyLines(Involving(p))), ok)
      BY <2>4, <2>8 DEF Release, Cancel, ledger
    <3> QED
      BY <2>5, <2>7, <3>1
  <2>9. ASSUME NEW p \in Principal, Finish(p) PROVE Accounted(id)
    <3>1. runs[p].status = "live" /\ Retire(p)
      BY <2>4, <2>9 DEF Finish, ledger
    <3>2. \/ RecordClosures(OnSeatedTapes(PartyLines(Involving(p))), TRUE)
          \/ RecordClosures(OnSeatedTapes(PartyLines(Involving(p))), FALSE)
      BY <2>3, <2>9, <3>1 DEF Finish
    <3> QED
      BY <2>5, <2>7, <3>1, <3>2
  <2>10. ASSUME NEW p \in Principal, RevokeReviews(p) PROVE Accounted(id)
    BY <2>6, <2>7, <2>10 DEF RevokeReviews
  <2>11. ASSUME NEW supervisor \in Principal, NEW other \in ReviewId, NEW resolution \in Resolution,
                ResolveReview(supervisor, other, resolution)
         PROVE  Accounted(id)
    <3> DEFINE answer(tag, mail) ==
                 <<L(pending[other].request.child, tag, other), L(supervisor, mail, other),
                   L(pending[other].request.child, mail, other)>>
    <3>1. CASE Closures({other}) /\ Close(other)
      BY <2>4, <2>6, <3>1 DEF Close
    <3>2. CASE UNCHANGED ledger
      BY <2>4, <3>2 DEF ledger
    <3>3. CASE resolution = "approve_once" /\ Resolve(supervisor, other, resolution, runs[supervisor].card)
      <4>1. runs[supervisor].card \in Card
        BY <2>1, <2>11, RunType DEF ResolveReview, Live
      <4>2. pending' = [pending EXCEPT ![other] = WithApprover(other, runs[supervisor].card)]
        BY <3>3 DEF Resolve
      <4>3. IsPending(other)
        BY <2>11 DEF ResolveReview, CheckResolution
      <4>4. WithApprover(other, runs[supervisor].card) # None
        BY <2>1, <4>1, <4>3, PendingIsTyped, NoneAssumption DEF WithApprover, PendingReview
      <4>5. pending'[id] # None
        BY <1>1, <2>1, <4>2, <4>4 DEF LedgerTypeOK, IsPending
      <4> QED
        BY <1>1, <4>5 DEF IsPending
    <3>4. CASE /\ resolution # "approve_once"
               /\ \E ok \in BOOLEAN : Record(answer("answer", "mail_answer"), ok)
               /\ Resolve(supervisor, other, resolution, runs[supervisor].card)
      <4>1. Record(answer("answer", "mail_answer"), TRUE)
        BY <2>3, <3>4 DEF Record
      <4>2. CASE Remove({other})
        <5>1. id = other
          BY <2>4, <4>2
        <5>2. evidence' = evidence \cup {L(pending[other].request.child, "answer", other),
                L(supervisor, "mail_answer", other), L(pending[other].request.child, "mail_answer", other)}
          BY <4>1, Recorded
        <5> QED
          BY <5>1, <5>2
      <4>3. CASE pending' = [pending EXCEPT ![other] = WithApprover(other, None)]
        <5>1. IsPending(other)
          BY <2>11 DEF ResolveReview, CheckResolution
        <5>2. WithApprover(other, None) # None
          BY <2>1, <5>1, PendingIsTyped, NoneAssumption DEF WithApprover, PendingReview
        <5>3. pending'[id] # None
          BY <1>1, <2>1, <4>3, <5>2 DEF LedgerTypeOK, IsPending
        <5> QED
          BY <1>1, <5>3 DEF IsPending
      <4> QED
        BY <3>4, <4>2, <4>3 DEF Resolve
    <3> QED
      BY <2>11, <3>1, <3>2, <3>3, <3>4 DEF ResolveReview
  <2>12. CASE ReviewTool
    <3>1. /\ turn.agent \in Principal /\ turn.call \in Call /\ ToolOf[turn.call] \in Subject
      BY <2>1, <2>12, SubscribedType DEF ReviewTool, PlainInv
    <3>2. ~UNCHANGED ledger
      BY <2>4 DEF ledger
    <3>3. ASSUME NEW other \in ReviewId, NEW request, NEW call, Insert(other, request, call) PROVE FALSE
      <4>1. pending' = [pending EXCEPT ![other] = [request |-> request, call |-> call, approver_card |-> None]]
        BY <3>3 DEF Insert
      <4>2. other # id
        BY <1>1, <3>3 DEF Insert, ControlInv, UsedOnce
      <4> QED
        BY <1>1, <2>1, <4>1, <4>2 DEF LedgerTypeOK, IsPending
    <3>4. ASSUME NEW other \in ReviewId, AskForReview(turn.agent, turn.call, other) PROVE FALSE
      <4>1. PICK request : Insert(other, request, turn.call) \/ UNCHANGED ledger
        BY <3>4 DEF AskForReview, RetainReview
      <4> QED
        BY <3>2, <3>3, <4>1
    <3>5. PICK used \in Waiting(Scope(turn.agent, None), ToolOf[turn.call], TRUE) :
            UseReview(turn.agent, turn.call, used) /\ Active(turn.agent)
      BY <2>12, <3>2, <3>4 DEF ReviewTool
    <3>6. used \in ReviewId /\ IsPending(used) /\ pending[used].request.scope = Scope(turn.agent, None)
      BY <3>5 DEF Waiting
    <3>7. Close(used) /\ id = used
      BY <2>4, <3>2, <3>5 DEF UseReview, Close
    <3>8. CASE Closures({used})
      BY <2>6, <3>7, <3>8
    <3>9. CASE \E ok \in BOOLEAN :
                 Record(<<L(turn.agent, "review_consumed", used), L(turn.agent, "gate", used)>>, ok)
      <4>1. Record(<<L(turn.agent, "review_consumed", used), L(turn.agent, "gate", used)>>, TRUE)
        BY <2>3, <3>9 DEF Record
      <4>2. evidence' = evidence \cup {L(turn.agent, "review_consumed", used), L(turn.agent, "gate", used)}
        BY <4>1, RecordedPair
      <4>3. pending[used].request.child = turn.agent
        <5>1. pending[used].request.child = Scope(turn.agent, None).child.principal
          BY <2>1, <3>6, PartiesOf
        <5>2. instances[turn.agent].ref.principal = turn.agent
          BY <2>1, <3>1, <3>5 DEF LedgerTypeOK, Active
        <5> QED
          BY <5>1, <5>2 DEF Scope
      <4> QED
        BY <3>7, <4>2, <4>3
    <3> QED
      BY <3>2, <3>5, <3>8, <3>9 DEF UseReview
  <2>13. ASSUME NEW kind \in FactKind, PutFact(kind) PROVE Accounted(id)
    <3>1. PICK revision : Closures(WithStaleFact(kind, revision)) /\ Remove(WithStaleFact(kind, revision))
      BY <2>4, <2>13 DEF PutFact, InvalidateFact, ledger
    <3> QED
      BY <2>4, <2>6, <3>1
  <2>14. ~Crash
    BY <1>1, <2>2 DEF Crash, child
  <2>15. /\ \A card, s, i : OpenAgent(card, s, i) => UNCHANGED pending
         /\ \A card, s, i : Resume(card, s, i) => UNCHANGED pending
         /\ \A p : SealSession(p) \/ FinishIntentRetained(p) => UNCHANGED pending
    <3>1. \A i : Open(i) => UNCHANGED pending
      BY DEF Open
    <3>2. \A card, s, i : OpenAgent(card, s, i) => UNCHANGED pending
      BY ONLY <3>1 DEF OpenAgent, ledger
    <3>3. \A card, s, i : Resume(card, s, i) => UNCHANGED pending
      BY ONLY <3>1 DEF Resume, ledger
    <3>4. \A p : SealSession(p) \/ FinishIntentRetained(p) => UNCHANGED pending
      BY ONLY TRUE DEF SealSession, FinishIntentRetained, ledger
    <3> QED
      BY <3>2, <3>3, <3>4
  <2>16. /\ \A p, call : BeginBeat(p, call) => UNCHANGED pending
         /\ Advance \/ CancelReceiver \/ EndRun => UNCHANGED pending
    BY DEF BeginBeat, Advance, CancelReceiver, EndRun, ledger, vars
  <2>17. /\ \A c, s : SetSupervisor(c, s) => UNCHANGED pending
         /\ UNCHANGED all => UNCHANGED pending
    BY DEF SetSupervisor, Bind, ledger, all, vars
  <2> HIDE DEF Accounted
  <2> QED
    BY <1>1, <2>4, <2>8, <2>9, <2>10, <2>11, <2>12, <2>13, <2>14, <2>15, <2>16, <2>17
      DEF Next, Operation, LifecycleNext
<1>2. ControlInv /\ [Next]_all =>
        [\A id \in ReviewId :
           IsPending(id) /\ ~IsPending(id)' /\ failures' = failures
             /\ runs'[pending[id].request.child] # None => Accounted(id)]_all
  BY <1>1
<1> QED
  BY <1>2, ControlInvariance, PTL DEF Spec, RemovalsEvidenced

=============================================================================

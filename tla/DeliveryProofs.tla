--------------------------- MODULE DeliveryProofs ---------------------------
(***************************************************************************)
(* Proofs about deliveries, for any number of agents, names, bodies,       *)
(* events, routes, engagements and failing appends.                        *)
(***************************************************************************)
EXTENDS Delivery, ToolReviewProofs

\* Every mounted body has an id of its own, drawn when it was mounted.
BodiesIssued ==
  /\ \A n \in Name : bodies[n] # None => bodies[n].instance \in issued
  /\ \A n, o \in Name :
       bodies[n] # None /\ bodies[o] # None /\ bodies[n].instance = bodies[o].instance => n = o

\* What is engaged now, or was when a batch was marked, has been drawn.
EngagedInv ==
  /\ \A p \in Principal : Active(p) => instances[p].ref \in engaged
  /\ \A s \in Session, e \in Event : marks[s][e] # None => marks[s][e].instance \in engaged

\* Whoever is engaged on the tape of an uncertain event is kept from it: by the fence
\* of its process, by a line that is not settled, or by one of another engagement.
FenceHolds ==
  \A s \in Session, e \in Event : <<s, e>> \in uncertain =>
    /\ marks[s][e] # None
    /\ \A p \in Principal : Active(p) /\ runs[p].session = s => Fenced(s, e, instances[p].ref)

\* The batch in flight is its agent's and has its first line on the tape; no other
\* batch of its event is uncertain.
BatchIsMarked ==
  batch # None =>
    /\ batch.instance.principal = turn.agent /\ batch.instance \in engaged
    /\ <<Tape, batch.event>> \notin uncertain
    /\ marks[Tape][batch.event] # None

BatchHasBody == batch # None /\ batch.step # "next" => batch.body # None /\ batch.route # <<>>

\* Only the body that is running has no note yet.
RunningNoted ==
  batch # None =>
    \A m \in batch.ran : \/ batch.step = "running" /\ m = batch.body.instance
                         \/ \E what \in {"reply", "error", "review"} : <<m, what>> \in batch.noted

\* From its grant on, no review of the body's name waits for the agent, in whatever
\* scope it may come to stand.
AboutBody(id) ==
  /\ pending[id].request.child = turn.agent
  /\ pending[id].request.scope.mount = batch.body.instance
  /\ pending[id].request.subject = Head(batch.route)
  /\ pending[id].call = None

NoneWaits ==
  batch # None /\ batch.step = "granted" => \A id \in ReviewId : IsPending(id) => ~AboutBody(id)

----------------------------------------------------------------------------
(* The batch in flight *)

\* A batch in flight holds the turn of a seated agent.
LEMMA InFlight ==
  ASSUME CoreTypeOK, DeliveryTypeOK, BeatIsLive, batch # None
  PROVE  /\ batch \in Batch /\ turn # None /\ turn \in Turn
         /\ turn.agent \in Principal /\ turn.step = "delivering"
         /\ Seated(turn.agent) /\ Tape \in Session
         /\ batch.event \in Event /\ batch.instance \in InstanceRef
BY TurnType, RunType DEF DeliveryTypeOK, Batch, Turn, BeatIsLive, Live, Tape

\* A batch that has a body is about a name and a mount.
LEMMA BodyInHand ==
  ASSUME CoreTypeOK, DeliveryTypeOK, BatchHasBody, batch # None, batch.step # "next"
  PROVE  /\ batch.body \in Body /\ batch.body.instance \in MountId
         /\ batch.route \in Seq(Name) /\ batch.route # <<>>
         /\ Head(batch.route) \in Name /\ Head(batch.route) \in Subject
<1>1. /\ batch \in Batch /\ batch.body # None /\ batch.route # <<>>
  BY DEF DeliveryTypeOK, BatchHasBody
<1>2. batch.body \in Body /\ batch.route \in Seq(Name)
  BY <1>1 DEF Batch
<1>3. Head(batch.route) \in Name
  BY <1>1, <1>2
<1> QED
  BY <1>1, <1>2, <1>3, NameAssumption DEF Body

\* What a batch keeps from its first line to its last.
SameBatch(b) ==
  /\ b \in Batch /\ b.event = batch.event /\ b.instance = batch.instance
  /\ b.registration = batch.registration /\ b.selected = batch.selected

\* The batches that a step may leave.
LEMMA NextBatch ==
  ASSUME batch \in Batch, batch.route # <<>>
  PROVE  /\ SameBatch(NextSpool)
         /\ NextSpool.step = "next" /\ NextSpool.ran = batch.ran
         /\ NextSpool.noted = batch.noted /\ NextSpool.ready = batch.ready
<1>1. batch.route \in Seq(Name)
  BY DEF Batch
<1>2. Tail(batch.route) \in Seq(Name)
  BY <1>1
<1> QED
  BY <1>2 DEF NextSpool, SameBatch, Batch

LEMMA StepBatch ==
  ASSUME batch \in Batch, NEW step \in {"next", "found", "denied", "granted", "running", "published"}
  PROVE  LET b == [batch EXCEPT !.step = step] IN
         /\ SameBatch(b) /\ b.step = step /\ b.route = batch.route /\ b.body = batch.body
         /\ b.ran = batch.ran /\ b.noted = batch.noted /\ b.ready = batch.ready
BY DEF SameBatch, Batch

LEMMA FoundBatch ==
  ASSUME batch \in Batch, NEW body \in Body
  PROVE  LET b == [batch EXCEPT !.step = "found", !.body = body] IN
         /\ SameBatch(b) /\ b.step = "found" /\ b.route = batch.route /\ b.body = body
         /\ b.ran = batch.ran /\ b.noted = batch.noted /\ b.ready = batch.ready
BY DEF SameBatch, Batch

LEMMA EnteredBatch ==
  ASSUME batch \in Batch, batch.body \in Body
  PROVE  LET b == [batch EXCEPT !.step = "running", !.ran = @ \cup {batch.body.instance}] IN
         /\ SameBatch(b) /\ b.step = "running" /\ b.route = batch.route /\ b.body = batch.body
         /\ b.ran = batch.ran \cup {batch.body.instance}
         /\ b.noted = batch.noted /\ b.ready = batch.ready
BY DEF SameBatch, Batch, Body

LEMMA NotedBatch ==
  ASSUME batch \in Batch, batch.body \in Body, NEW what \in {"reply", "error", "review"}
  PROVE  /\ Noted(what) \in Batch
         /\ Noted(what).noted = batch.noted \cup {<<batch.body.instance, what>>}
<1>1. <<batch.body.instance, what>> \in MountId \X {"reply", "error", "review"}
  BY DEF Body
<1>2. batch.noted \cup {<<batch.body.instance, what>>} \in SUBSET (MountId \X {"reply", "error", "review"})
  BY <1>1 DEF Batch
<1> DEFINE noted == batch.noted \cup {<<batch.body.instance, what>>}
<1>3. Noted(what) = [batch EXCEPT !.noted = noted]
  BY DEF Noted, Batch
<1> HIDE DEF noted
<1>4. [batch EXCEPT !.noted = noted] \in Batch /\ [batch EXCEPT !.noted = noted].noted = noted
  BY <1>2 DEF Batch, noted
<1> QED
  BY <1>3, <1>4 DEF noted

LEMMA NextNotedBatch ==
  ASSUME batch \in Batch, batch.body \in Body, batch.route # <<>>, NEW what \in {"reply", "error", "review"}
  PROVE  /\ SameBatch(NextNoted(what)) /\ NextNoted(what).step = "next"
         /\ NextNoted(what).ran = batch.ran /\ NextNoted(what).ready = batch.ready
         /\ NextNoted(what).noted = batch.noted \cup {<<batch.body.instance, what>>}
<1> DEFINE noted == Noted(what).noted
           next == NextSpool
<1>1. noted \in SUBSET (MountId \X {"reply", "error", "review"})
      /\ noted = batch.noted \cup {<<batch.body.instance, what>>}
  BY NotedBatch DEF Batch
<1>2. SameBatch(next) /\ next.step = "next" /\ next.ran = batch.ran /\ next.ready = batch.ready
  BY NextBatch
<1>3. NextNoted(what) = [next EXCEPT !.noted = noted]
  BY DEF NextNoted
<1> HIDE DEF noted, next
<1>4. next \in Batch
  BY <1>2 DEF SameBatch
<1>5. LET b == [next EXCEPT !.noted = noted] IN
      /\ SameBatch(b) /\ b.step = "next" /\ b.ran = batch.ran /\ b.ready = batch.ready /\ b.noted = noted
  BY <1>1, <1>2, <1>4 DEF SameBatch, Batch
<1> QED
  BY <1>1, <1>3, <1>5

LEMMA PublishedBatch ==
  ASSUME batch \in Batch, batch.body \in Body
  PROVE  LET b == [Noted("reply") EXCEPT !.step = "published"] IN
         /\ SameBatch(b) /\ b.step = "published" /\ b.route = batch.route /\ b.body = batch.body
         /\ b.ran = batch.ran /\ b.ready = batch.ready
         /\ b.noted = batch.noted \cup {<<batch.body.instance, "reply">>}
<1> DEFINE noted == batch.noted \cup {<<batch.body.instance, "reply">>}
<1>1. noted \in SUBSET (MountId \X {"reply", "error", "review"})
  BY NotedBatch DEF Batch
<1>2. Noted("reply") = [batch EXCEPT !.noted = noted]
  BY DEF Noted, Batch
<1> HIDE DEF noted
<1> QED
  BY <1>1, <1>2 DEF SameBatch, Batch, noted

LEMMA ReadyBatch ==
  ASSUME batch \in Batch, batch.body \in Body, batch.route # <<>>
  PROVE  LET b == [NextSpool EXCEPT !.ready = @ \cup {batch.body.instance}] IN
         /\ SameBatch(b) /\ b.step = "next" /\ b.ran = batch.ran /\ b.noted = batch.noted
         /\ b.ready = batch.ready \cup {batch.body.instance}
<1> DEFINE next == NextSpool
<1>1. SameBatch(next) /\ next.step = "next" /\ next.ran = batch.ran /\ next.ready = batch.ready
      /\ next.noted = batch.noted
  BY NextBatch
<1>2. batch.body.instance \in MountId /\ batch.ready \in SUBSET MountId
  BY DEF Body, Batch
<1> HIDE DEF next
<1>3. LET b == [next EXCEPT !.ready = @ \cup {batch.body.instance}] IN
         /\ SameBatch(b) /\ b.step = "next" /\ b.ran = batch.ran /\ b.noted = batch.noted
         /\ b.ready = batch.ready \cup {batch.body.instance}
  BY <1>1, <1>2 DEF SameBatch, Batch
<1> QED
  BY <1>3 DEF next

----------------------------------------------------------------------------
(* What a delivery does to the control plane *)

\* The parts of the invariant that a delivery shares with the control plane.
SharedInv == PlainInv /\ LiveInv /\ FinishInv

\* The ledger steps, lines and failing appends of a delivery.
Effects ==
  /\ UNCHANGED ledger \/ InsertAny \/ \E m \in MountId : Unmount(m)
  /\ evidence' \in SUBSET Line /\ evidence \subseteq evidence' /\ failures' \in 0..MaxFailures

\* Where nothing is asked and nothing dropped, only an append may fail.
LEMMA PlainEffects ==
  ASSUME CoreTypeOK, UNCHANGED <<ledger, evidence>>, UNCHANGED failures \/ AppendFails
  PROVE  Effects
BY MaxFailuresAssumption DEF Effects, CoreTypeOK, AppendFails

\* A request for a review of the body in hand.
LEMMA AskEffects ==
  ASSUME SharedInv, DeliveryTypeOK, BatchHasBody, BatchIsMarked, batch # None, batch.step # "next",
         NEW cause \in Cause, AskAboutBody(cause)
  PROVE  /\ Effects
         /\ UNCHANGED instances /\ UNCHANGED mounts
<1> DEFINE p == turn.agent
           m == batch.body.instance
           subject == Head(batch.route)
<1>1. LedgerInv /\ CoreTypeOK /\ generation \in Facts /\ BeatIsLive
  BY DEF SharedInv, PlainInv, TypeOK, LiveInv, Facts
<1>2. p \in Principal /\ m \in MountId /\ subject \in Subject
  BY <1>1, InFlight, BodyInHand
<1>3. CASE UNCHANGED <<ledger, evidence, failures>>
  BY <1>1, <1>3, PlainEffects DEF ledger
<1>4. ASSUME Granted, NEW id \in ReviewId, NEW ok \in BOOLEAN,
             RetainReview(p, m, subject, cause, None, id, ok)
      PROVE  Effects /\ UNCHANGED instances /\ UNCHANGED mounts
  <2>1. InScope(p, m)
    BY <1>4 DEF Granted, LiveRef, InScope, BatchIsMarked
  <2>2. /\ InsertAny \/ UNCHANGED ledger
        /\ evidence' \in SUBSET Line /\ failures' \in 0..MaxFailures
    BY <1>1, <1>2, <1>4, <2>1, RetainStep
  <2>3. evidence \subseteq evidence'
    BY <1>4 DEF RetainReview, Record
  <2>4. UNCHANGED instances /\ UNCHANGED mounts
    BY <2>2 DEF InsertAny, Insert, ledger
  <2> QED
    BY <2>2, <2>3, <2>4 DEF Effects
<1> QED
  BY <1>3, <1>4 DEF AskAboutBody

\* The closures of a body that failed.
LEMMA FailEffects ==
  ASSUME SharedInv, DeliveryTypeOK, BatchHasBody, batch # None, BodyFails
  PROVE  /\ Effects
         /\ UNCHANGED instances /\ Unmount(batch.body.instance)
<1> DEFINE m == batch.body.instance
           closures == OnSeatedTapes(PartyLines(OnMount(m)))
<1>1. CoreTypeOK /\ m \in MountId
  BY BodyInHand DEF SharedInv, PlainInv, TypeOK, BodyFails
<1>2. closures \in SUBSET Line
  BY PartyLinesType DEF OnMount
<1>3. Unmount(m) /\ UNCHANGED instances
  BY DEF BodyFails, Unmount
<1>4. evidence' \in SUBSET Line /\ evidence \subseteq evidence' /\ failures' \in 0..MaxFailures
  <2> HIDE DEF closures
  <2>1. ASSUME NEW ok \in BOOLEAN, RecordClosures(closures, ok)
        PROVE  evidence' \in SUBSET Line /\ evidence \subseteq evidence' /\ failures' \in 0..MaxFailures
    BY <1>1, <1>2, <2>1, ClosuresType DEF RecordClosures
  <2>2. ASSUME AppendFails, evidence' = evidence \cup closures
        PROVE  evidence' \in SUBSET Line /\ evidence \subseteq evidence' /\ failures' \in 0..MaxFailures
    BY <1>1, <1>2, <2>2, MaxFailuresAssumption DEF AppendFails, CoreTypeOK
  <2>3. \/ \E ok \in BOOLEAN : RecordClosures(closures, ok)
        \/ AppendFails /\ evidence' = evidence \cup closures
    BY DEF BodyFails, closures
  <2> QED
    BY <2>1, <2>2, <2>3
<1> QED
  BY <1>1, <1>3, <1>4 DEF Effects

\* What a delivery does to its turn: it goes on, ends, or has its batch begun.
TurnMoves ==
  \/ turn' = turn
  \/ turn' = None
  \/ turn.step = "begun" /\ turn.call = None /\ turn' = [turn EXCEPT !.step = "delivering"]

\* Every step of a delivery.
LEMMA DeliverEffects ==
  ASSUME SharedInv, DeliveryTypeOK, BatchHasBody, BatchIsMarked, Deliver
  PROVE  /\ Effects /\ turn # None /\ TurnMoves
         /\ UNCHANGED instances
<1>1. CoreTypeOK
  BY DEF SharedInv, PlainInv, TypeOK
<1>2. batch # None => turn # None
  BY DEF DeliveryTypeOK
<1>3. CASE RefuseDelivery
  BY <1>1, <1>3, PlainEffects DEF RefuseDelivery, TurnMoves, ledger
<1>4. ASSUME NEW e, NEW name, StartBatch(e, name)
      PROVE  Effects /\ turn # None /\ TurnMoves /\ UNCHANGED instances
  <2>1. UNCHANGED <<ledger, evidence>> /\ (UNCHANGED failures \/ AppendFails) /\ turn # None /\ TurnMoves
    BY <1>4 DEF StartBatch, TurnMoves
  <2> QED
    BY <1>1, <2>1, PlainEffects DEF ledger
<1>5. (\A b : Continue(b) => UNCHANGED turn) /\ (Interrupt => turn' = None)
  BY DEF Continue, Interrupt, Leave
<1>6. LookUp => batch # None /\ UNCHANGED <<ledger, evidence>> /\ (UNCHANGED failures \/ AppendFails) /\ TurnMoves
  BY <1>5 DEF LookUp, TurnMoves
<1>7. Authorize => batch # None /\ UNCHANGED <<ledger, evidence>> /\ (UNCHANGED failures \/ AppendFails) /\ TurnMoves
  BY <1>5 DEF Authorize, TurnMoves
<1>8. EnterBody => batch # None /\ UNCHANGED <<ledger, evidence>> /\ (UNCHANGED failures \/ AppendFails) /\ TurnMoves
  BY <1>5 DEF EnterBody, TurnMoves
<1>9. Publish => batch # None /\ UNCHANGED <<ledger, evidence>> /\ (UNCHANGED failures \/ AppendFails) /\ TurnMoves
  BY <1>5 DEF Publish, TurnMoves
<1>10. Abandon => batch # None /\ UNCHANGED <<ledger, evidence>> /\ (UNCHANGED failures \/ AppendFails) /\ TurnMoves
  BY <1>5 DEF Abandon, TurnMoves
<1>11. AfterHooks => batch # None /\ UNCHANGED <<ledger, evidence>> /\ (UNCHANGED failures \/ AppendFails) /\ TurnMoves
  BY <1>5 DEF AfterHooks, TurnMoves
<1>12. Settle => batch # None /\ UNCHANGED <<ledger, evidence>> /\ (UNCHANGED failures \/ AppendFails) /\ TurnMoves
  BY <1>5 DEF Settle, TurnMoves, Leave
<1>13. ASSUME NEW cause \in Cause, batch # None, batch.step # "next", AskAboutBody(cause)
       PROVE  Effects /\ TurnMoves /\ UNCHANGED instances
  <2>1. TurnMoves
    BY <1>5, <1>13 DEF AskAboutBody, TurnMoves
  <2> QED
    BY <1>13, <2>1, AskEffects
<1>14. CASE Denied \/ BodyAsks
  BY <1>2, <1>13, <1>14 DEF Denied, BodyAsks, Cause
<1>15. CASE BodyFails
  <2>1. TurnMoves /\ batch # None
    BY <1>5, <1>15 DEF BodyFails, TurnMoves
  <2> QED
    BY <1>2, <1>15, <2>1, FailEffects
<1>16. CASE LookUp \/ Authorize \/ EnterBody \/ Publish \/ Abandon \/ AfterHooks \/ Settle
  BY <1>1, <1>2, <1>6, <1>7, <1>8, <1>9, <1>10, <1>11, <1>12, <1>16, PlainEffects DEF ledger
<1> QED
  BY <1>3, <1>4, <1>14, <1>15, <1>16 DEF Deliver

\* Such a step keeps what the control plane relies on.
LEMMA SharedKept ==
  ASSUME SharedInv, [LedgerNext]_ledger, evidence' \in SUBSET Line, evidence \subseteq evidence',
         failures' \in 0..MaxFailures, UNCHANGED <<runs, sessions, engaged, workspace, instances>>,
         UNCHANGED turn \/ (turn # None /\ TurnMoves)
  PROVE  SharedInv'
<1>1. /\ LedgerInv /\ CoreTypeOK /\ generation \in Facts /\ executed \in SUBSET ReviewId
      /\ CallInFlight /\ LiveInv /\ FinishInv
  BY DEF SharedInv, PlainInv, TypeOK, Facts
<1>2. LedgerInv' /\ LedgerTypeOK'
  BY <1>1, LedgerNextInv DEF LedgerInv
<1>3. /\ turn' \in Turn \cup {None}
      /\ turn' # None => turn # None /\ turn'.agent = turn.agent /\ turn'.call = turn.call
                         /\ (turn'.step = turn.step \/ turn'.step = "delivering")
  BY <1>1, TurnType, NoneCoreAssumption DEF TurnMoves, Turn, CoreTypeOK
<1>4. TypeOK'
  BY <1>1, <1>2, <1>3 DEF TypeOK, CoreTypeOK, Facts, workspace
<1>5. CallInFlight'
  BY <1>1, <1>3 DEF CallInFlight
<1>6. LiveInv'
  BY <1>1, <1>3, QuietStep DEF Live, Seated, Active
<1>7. FinishInv'
  BY <1>1, FinishByAgent, FinishOfStays DEF SameRun, Seated
<1> QED
  BY <1>2, <1>4, <1>5, <1>6, <1>7 DEF SharedInv, PlainInv

\* So does a mount and an unmount.
LEMMA MountShared ==
  ASSUME SharedInv, DeliveryTypeOK, NEW n \in Name,
         UnmountSpool(n) \/ \E m \in MountId : MountSpool(n, m)
  PROVE  SharedInv'
<1>1. CoreTypeOK
  BY DEF SharedInv, PlainInv, TypeOK
<1>2. ASSUME NEW m \in MountId, MountSpool(n, m) PROVE SharedInv'
  <2>1. [LedgerNext]_ledger /\ UNCHANGED instances
    BY <1>2 DEF MountSpool, LedgerNext, Mount
  <2>2. UNCHANGED <<runs, sessions, engaged, workspace, turn, evidence, failures>>
    BY <1>2 DEF MountSpool, core
  <2> QED
    BY <1>1, <2>1, <2>2, SharedKept DEF CoreTypeOK
<1>3. CASE UnmountSpool(n)
  <2> DEFINE m == bodies[n].instance
  <2>1. m \in MountId
    BY <1>3 DEF UnmountSpool, DeliveryTypeOK, Body
  <2>2. [LedgerNext]_ledger /\ UNCHANGED instances
    BY <1>3, <2>1 DEF UnmountSpool, LedgerNext, Unmount
  <2>3. evidence' \in SUBSET Line /\ failures' \in 0..MaxFailures /\ evidence \subseteq evidence'
    BY <1>1, <1>3, ClosuresOf DEF UnmountSpool, Closures, RecordClosures, OnMount
  <2>4. UNCHANGED <<runs, sessions, engaged, workspace, turn>>
    BY <1>3 DEF UnmountSpool
  <2> QED
    BY <2>2, <2>3, <2>4, SharedKept
<1> QED
  BY <1>2, <1>3

LEMMA DeliverShared ==
  ASSUME SharedInv, DeliveryTypeOK, BatchHasBody, BatchIsMarked, Deliver
  PROVE  SharedInv'
<1>1. Effects /\ turn # None /\ TurnMoves /\ UNCHANGED instances
  BY DeliverEffects
<1>2. [LedgerNext]_ledger
  BY <1>1 DEF Effects, LedgerNext
<1>3. UNCHANGED <<runs, sessions, engaged, workspace>>
  BY DEF Deliver
<1> QED
  BY <1>1, <1>2, <1>3, SharedKept DEF Effects

\* And so do the threads that never touch a batch, and a crash.
LEMMA NextShared ==
  ASSUME SharedInv, [Next]_all
  PROVE  SharedInv'
<1>1. PlainInv /\ LiveInv /\ FinishInv /\ CoreTypeOK /\ LedgerInv /\ LedgerTypeOK /\ executed \in SUBSET ReviewId
  BY DEF SharedInv, PlainInv, TypeOK, LedgerInv
<1>2. ([LedgerNext]_ledger \/ Restart) /\ CoreTypeOK' /\ generation' \in Facts
  BY <1>1, ControlStep
<1>3. LedgerInv'
  BY <1>1, <1>2, LedgerNextInv, RestartInv
<1>4. executed' \in SUBSET ReviewId
  BY <1>1, ExecutedSteps DEF Used
<1>5. TypeOK' /\ CallInFlight'
  BY <1>1, <1>2, <1>3, <1>4, CallStep DEF TypeOK, LedgerInv, Facts
<1>6. LiveInv' /\ FinishInv'
  BY <1>1, LiveStep, FinishStep
<1> QED
  BY <1>3, <1>5, <1>6 DEF SharedInv, PlainInv


----------------------------------------------------------------------------
(* What the other threads do to a delivery *)

\* They do not take the turn of a delivery, give it to one, or end it.
LEMMA TurnOfDelivery ==
  ASSUME CoreTypeOK, Operation
  PROVE  /\ turn # None /\ turn.step = "delivering" =>
              turn' # None /\ turn'.step = "delivering" /\ turn'.agent = turn.agent /\ ~ReviewTool
         /\ turn' # None /\ turn'.step = "delivering" => turn # None /\ turn.step = "delivering"
<1> DEFINE Kept ==
             /\ turn # None /\ turn.step = "delivering" =>
                  turn' # None /\ turn'.step = "delivering" /\ turn'.agent = turn.agent
             /\ turn' # None /\ turn'.step = "delivering" => turn # None /\ turn.step = "delivering"
<1>1. UNCHANGED turn => Kept
  OBVIOUS
<1>2. ASSUME NEW p, Cancel(p) PROVE Kept
  <2>1. turn # None => [turn EXCEPT !.stopped = TRUE] \in Turn /\ turn \in Turn
    BY TurnType DEF Turn
  <2>2. turn # None => [turn EXCEPT !.stopped = TRUE].step = turn.step /\ [turn EXCEPT !.stopped = TRUE].agent = turn.agent
    BY <2>1 DEF Turn
  <2>3. turn' = turn \/ (turn # None /\ turn' = [turn EXCEPT !.stopped = TRUE])
    BY <1>2 DEF Cancel, InBeat
  <2> QED
    BY <2>1, <2>2, <2>3, NoneCoreAssumption
<1>3. \A p, call : BeginBeat(p, call) => Kept
  BY DEF BeginBeat
<1>4. Advance \/ EndRun \/ CancelReceiver => Kept
  BY TurnType, NoneCoreAssumption DEF Advance, EndRun, CancelReceiver, Turn
<1>5. \A card, s, i : OpenAgent(card, s, i) \/ Resume(card, s, i) => UNCHANGED turn
  BY DEF OpenAgent, Resume
<1>6. \A p : SealSession(p) \/ Release(p) \/ FinishIntentRetained(p) \/ Finish(p) => UNCHANGED turn
  BY DEF SealSession, Release, FinishIntentRetained, Finish
<1>7. /\ \A c, s : SetSupervisor(c, s) => UNCHANGED turn
      /\ \A p : RevokeReviews(p) => UNCHANGED turn
      /\ \A s, id, r : ResolveReview(s, id, r) => UNCHANGED turn
      /\ \A kind : PutFact(kind) => UNCHANGED turn
  BY DEF SetSupervisor, core, RevokeReviews, ResolveReview, PutFact
<1>8. ASSUME ReviewTool PROVE Kept /\ ~(turn # None /\ turn.step = "delivering")
  <2>1. turn # None /\ turn.step = "subscribed" /\ turn \in Turn
    BY <1>8, TurnType DEF ReviewTool
  <2>2. turn' = None \/ \E review : turn' = [turn EXCEPT !.step = "running", !.review = review]
    BY <1>8 DEF ReviewTool, StartTool, GiveUp, AskForReview, UseReview
  <2> QED
    BY <2>1, <2>2 DEF Turn
<1> HIDE DEF Kept
<1>9. Kept /\ (turn # None /\ turn.step = "delivering" => ~ReviewTool)
  BY <1>1, <1>2, <1>3, <1>4, <1>5, <1>6, <1>7, <1>8 DEF Operation, LifecycleNext
<1> QED
  BY <1>9 DEF Kept

\* They mount and unmount nothing.
LEMMA MountsStay ==
  ASSUME Operation
  PROVE  UNCHANGED mounts
<1>1. /\ \A p : Retire(p) => UNCHANGED mounts
      /\ \A p : Revoke(p) => UNCHANGED mounts
      /\ \A id : Close(id) => UNCHANGED mounts
      /\ \A i : Open(i) => UNCHANGED mounts
      /\ UNCHANGED ledger => UNCHANGED mounts
  BY DEF Retire, Revoke, Close, Open, ledger
<1>2. \A card, s, i : OpenAgent(card, s, i) \/ Resume(card, s, i) => UNCHANGED mounts
  BY <1>1 DEF OpenAgent, Resume
<1>3. \A p : SealSession(p) \/ Release(p) \/ Cancel(p) \/ FinishIntentRetained(p) => UNCHANGED mounts
  BY <1>1 DEF SealSession, Release, Cancel, FinishIntentRetained
<1>4. \A p : Finish(p) => UNCHANGED mounts
  BY <1>1 DEF Finish
<1>5. /\ \A p, call : BeginBeat(p, call) => UNCHANGED mounts
      /\ Advance \/ CancelReceiver \/ EndRun => UNCHANGED mounts
  BY <1>1 DEF BeginBeat, Advance, CancelReceiver, EndRun
<1>6. /\ \A c, s : SetSupervisor(c, s) => UNCHANGED mounts
      /\ \A p : RevokeReviews(p) => UNCHANGED mounts
      /\ \A kind : PutFact(kind) => UNCHANGED mounts
  BY <1>1 DEF SetSupervisor, Bind, RevokeReviews, PutFact, InvalidateFact, ledger
<1>7. ASSUME NEW s, NEW id, NEW r, ResolveReview(s, id, r) PROVE UNCHANGED mounts
  <2>1. Close(id) \/ (\E card : Resolve(s, id, r, card)) \/ UNCHANGED ledger
    BY <1>7 DEF ResolveReview
  <2> QED
    BY <1>1, <2>1 DEF Resolve
<1>8. ReviewTool => UNCHANGED mounts
  <2>1. \A p, m, subject, cause, call, id, ok :
          RetainReview(p, m, subject, cause, call, id, ok) => UNCHANGED mounts
    BY <1>1 DEF RetainReview, Insert
  <2>2. \A p, call, id : AskForReview(p, call, id) => UNCHANGED mounts
    BY <2>1 DEF AskForReview
  <2>3. \A p, call, id : UseReview(p, call, id) => UNCHANGED mounts
    BY <1>1 DEF UseReview, ledger
  <2> QED
    BY <1>1, <2>2, <2>3 DEF ReviewTool, ledger
<1> QED
  BY <1>2, <1>3, <1>4, <1>5, <1>6, <1>7, <1>8 DEF Operation, LifecycleNext

\* An agent that is engaged was so before, or is under an engagement drawn now.
Engages(p) ==
  Active(p)' =>
    \/ Active(p) /\ instances'[p].ref = instances[p].ref
    \/ ~Seated(p) /\ instances'[p].ref \notin engaged /\ instances'[p].ref \in engaged'

LEMMA EngagesStep ==
  ASSUME LedgerTypeOK, CoreTypeOK, LiveInv, Operation
  PROVE  (\A p \in Principal : Engages(p)) /\ engaged \subseteq engaged'
<1>1. \A ref, epoch : [ref |-> ref, epoch |-> epoch].ref = ref
  OBVIOUS
<1>2. ASSUME NEW q \in Principal, Retire(q) \/ Revoke(q), NEW p \in Principal PROVE Engages(p)
  <2>1. Retire(q) => Engages(p)
    BY DEF Retire, Engages, Active, LedgerTypeOK
  <2>2. ASSUME instances' = [instances EXCEPT ![q] = [ref |-> instances[q].ref, epoch |-> instances[q].epoch + 1]],
               Active(q)
        PROVE  Engages(p)
    BY <1>1, <2>2 DEF Engages, Active, LedgerTypeOK
  <2> QED
    BY <1>2, <2>1, <2>2 DEF Revoke
<1>3. UNCHANGED instances => \A p \in Principal : Engages(p)
  BY DEF Engages, Active
<1>4. UNCHANGED ledger => UNCHANGED instances
  BY DEF ledger
<1>5. ASSUME NEW card \in Card, NEW s \in Session, NEW i \in InstanceRef,
             OpenAgent(card, s, i) \/ Resume(card, s, i)
      PROVE  (\A p \in Principal : Engages(p)) /\ engaged \subseteq engaged'
  <2> DEFINE q == CardId[card]
  <2>1. q \in Principal /\ ~Seated(q) /\ i.principal = q /\ i \notin engaged /\ engaged' = engaged \cup {i}
    BY <1>5, CardIdAssumption DEF OpenAgent, Resume
  <2>2. Open(i) \/ UNCHANGED instances
    BY <1>4, <1>5 DEF OpenAgent, Resume
  <2>3. ASSUME Open(i), NEW p \in Principal PROVE Engages(p)
    <3>1. instances' = [instances EXCEPT ![q] = [ref |-> i, epoch |-> 0]]
      BY <2>1, <2>3 DEF Open
    <3>2. p = q => instances'[p].ref = i
      BY <2>1, <3>1, <1>1 DEF LedgerTypeOK
    <3>3. p # q => instances'[p] = instances[p]
      BY <3>1 DEF LedgerTypeOK
    <3> QED
      BY <2>1, <3>2, <3>3 DEF Engages, Active
  <2> QED
    BY <1>3, <2>1, <2>2, <2>3
<1>6. /\ \A p : SealSession(p) \/ Release(p) \/ Cancel(p) \/ FinishIntentRetained(p) => UNCHANGED engaged
      /\ \A p : Finish(p) => UNCHANGED engaged
      /\ \A p, call : BeginBeat(p, call) => UNCHANGED engaged
      /\ Advance \/ CancelReceiver \/ EndRun => UNCHANGED engaged
      /\ \A c, s : SetSupervisor(c, s) => UNCHANGED engaged
      /\ \A p : RevokeReviews(p) => UNCHANGED engaged
      /\ \A s, id, r : ResolveReview(s, id, r) => UNCHANGED engaged
      /\ \A kind : PutFact(kind) => UNCHANGED engaged
      /\ ReviewTool => UNCHANGED engaged
  BY DEF SealSession, Release, Cancel, FinishIntentRetained, Finish, BeginBeat, Advance, CancelReceiver,
    EndRun, SetSupervisor, core, RevokeReviews, ResolveReview, PutFact, ReviewTool
<1>7. ASSUME NEW p \in Principal, SealSession(p) \/ Release(p) \/ Cancel(p) \/ FinishIntentRetained(p)
      PROVE  \A q \in Principal : Engages(q)
  BY <1>2, <1>3, <1>4, <1>7 DEF SealSession, Release, Cancel, FinishIntentRetained
<1>8. ASSUME NEW p \in Principal, Finish(p) PROVE \A q \in Principal : Engages(q)
  BY <1>2, <1>3, <1>4, <1>8 DEF Finish
<1>9. /\ \A p, call : BeginBeat(p, call) => UNCHANGED instances
      /\ Advance \/ CancelReceiver \/ EndRun => UNCHANGED instances
      /\ \A c, s : SetSupervisor(c, s) => UNCHANGED instances
      /\ \A kind : PutFact(kind) => UNCHANGED instances
  BY <1>4 DEF BeginBeat, Advance, CancelReceiver, EndRun, SetSupervisor, Bind, PutFact, InvalidateFact
<1>10. ASSUME NEW s, NEW id, NEW r, ResolveReview(s, id, r) PROVE UNCHANGED instances
  <2>1. Close(id) \/ (\E card : Resolve(s, id, r, card)) \/ UNCHANGED ledger
    BY <1>10 DEF ResolveReview
  <2> QED
    BY <1>4, <2>1 DEF Resolve, Close
<1>11. ReviewTool => UNCHANGED instances
  <2>1. \A p, m, subject, cause, call, id, ok :
          RetainReview(p, m, subject, cause, call, id, ok) => UNCHANGED instances
    BY <1>4 DEF RetainReview, Insert
  <2>2. \A p, call, id : AskForReview(p, call, id) => UNCHANGED instances
    BY <2>1 DEF AskForReview
  <2>3. \A p, call, id : UseReview(p, call, id) => UNCHANGED instances
    BY <1>4 DEF UseReview, Close
  <2> QED
    BY <1>4, <2>2, <2>3 DEF ReviewTool
<1>12. ASSUME NEW p \in Principal, RevokeReviews(p) PROVE \A q \in Principal : Engages(q)
  BY <1>2, <1>12 DEF RevokeReviews
<1> QED
  BY <1>3, <1>5, <1>6, <1>7, <1>8, <1>9, <1>10, <1>11, <1>12 DEF Operation, LifecycleNext

\* An agent that keeps its seat keeps its session.
LEMMA SessionStays ==
  ASSUME CoreTypeOK, [Next]_all, NEW p \in Principal, Seated(p), Seated(p)'
  PROVE  runs'[p].session = runs[p].session
<1>1. CASE Steady
  BY <1>1 DEF Steady, SameRun
<1>2. ASSUME NEW card \in Card, NEW s \in Session, NEW i \in InstanceRef,
             OpenAgent(card, s, i) \/ Resume(card, s, i)
      PROVE  runs'[p] = runs[p]
  BY <1>2 DEF OpenAgent, Resume, CoreTypeOK
<1>3. ASSUME NEW q \in Principal, Finish(q) PROVE runs'[p].session = runs[p].session
  <2> DEFINE first == runs[q].status = "live"
             closing == IF first THEN PartyLines(Involving(q)) ELSE runs[q].closing
             ended == IF first THEN Involving(q) ELSE runs[q].ended
             done == [runs[q] EXCEPT !.status = "finished", !.closing = closing, !.ended = ended,
                                     !.cancelled = FALSE]
             left == [runs[q] EXCEPT !.status = "finishing", !.closing = closing, !.ended = ended]
  <2>1. runs[q] \in Run
    BY <1>3, RunType DEF Finish
  <2>2. runs' = [runs EXCEPT ![q] = done] \/ runs' = [runs EXCEPT ![q] = left]
    BY <1>3 DEF Finish
  <2> HIDE DEF closing, ended
  <2>3. done.session = runs[q].session /\ left.session = runs[q].session
    BY <2>1 DEF Run
  <2> HIDE DEF done, left
  <2> QED
    BY <2>2, <2>3 DEF CoreTypeOK
<1> QED
  BY <1>1, <1>2, <1>3, RunsSteps

----------------------------------------------------------------------------
(* The fence *)

\* A line about one event of the tape in hand touches no other.
LEMMA MarkedOne ==
  ASSUME DeliveryTypeOK, Tape \in Session, NEW e \in Event, NEW status \in {"started", "settled"},
         NEW instance \in InstanceRef
  PROVE  /\ Marked(e, status, instance) \in [Session -> [Event -> Mark \cup {None}]]
         /\ Marked(e, status, instance)[Tape][e] = [status |-> status, instance |-> instance]
         /\ \A s \in Session, f \in Event :
              <<s, f>> # <<Tape, e>> => Marked(e, status, instance)[s][f] = marks[s][f]
<1>1. [status |-> status, instance |-> instance] \in Mark
  BY DEF Mark
<1>2. \A s \in Session : marks[s] \in [Event -> Mark \cup {None}]
  BY DEF DeliveryTypeOK
<1>3. marks \in [Session -> [Event -> Mark \cup {None}]]
  BY DEF DeliveryTypeOK
<1> QED
  BY <1>1, <1>2, <1>3 DEF Marked

\* The fence of an event whose line and engagements stay.
FenceOf(s, e) ==
  <<s, e>> \in uncertain =>
    /\ marks[s][e] # None
    /\ \A p \in Principal : Active(p) /\ runs[p].session = s => Fenced(s, e, instances[p].ref)

LEMMA FenceByEvent ==
  /\ FenceHolds <=> \A s \in Session, e \in Event : FenceOf(s, e)
  /\ FenceHolds' <=> \A s \in Session, e \in Event : FenceOf(s, e)'
BY DEF FenceHolds, FenceOf

LEMMA FenceStays ==
  ASSUME NEW s \in Session, NEW e \in Event, FenceOf(s, e), LedgerTypeOK,
         UNCHANGED <<instances, runs>>, marks'[s][e] = marks[s][e],
         \A p \in Principal : fence[p] \subseteq fence'[p],
         <<s, e>> \in uncertain' => <<s, e>> \in uncertain
  PROVE  FenceOf(s, e)'
<1>1. \A p \in Principal : Active(p) => instances[p].ref.principal = p
  BY DEF LedgerTypeOK, Active
<1> QED
  BY <1>1 DEF FenceOf, Fenced, Active

FenceInv == EngagedInv /\ FenceHolds /\ BatchIsMarked

\* What the lemmas about the fence assume.
FenceContext == CoreTypeOK /\ LedgerTypeOK /\ DeliveryTypeOK /\ LiveInv /\ SessionsOwned /\ FenceInv

\* An event that starts a batch is not uncertain.
LEMMA StartFence ==
  ASSUME FenceContext, NEW e \in Event, NEW name \in Name \cup {None}, StartBatch(e, name),
         UNCHANGED <<instances, runs, engaged>>
  PROVE  FenceInv' /\ marks' \in [Session -> [Event -> Mark \cup {None}]]
<1> DEFINE p == turn.agent
           instance == instances[p].ref
<1>1. /\ turn # None /\ turn \in Turn /\ p \in Principal /\ Active(p) /\ ~Fenced(Tape, e, instance)
      /\ batch = None
  BY TurnType DEF FenceContext, StartBatch, Turn, DeliveryTypeOK
<1>2. Seated(p) /\ Tape \in Session /\ Tape = runs[p].session
  BY <1>1, RunType DEF FenceContext, LiveInv, BeatIsLive, Live, Tape
<1>3. instance \in InstanceRef /\ instance.principal = p /\ instance \in engaged
  BY <1>1 DEF FenceContext, LedgerTypeOK, Active, Engagement, FenceInv, EngagedInv
<1>4. <<Tape, e>> \notin uncertain
  BY <1>1, <1>2 DEF FenceContext, FenceInv, FenceHolds
<1>5. marks' = marks \/ marks' = Marked(e, "started", instance)
  BY DEF StartBatch
<1>6. UNCHANGED <<fence, uncertain>>
  BY DEF StartBatch
<1>7. /\ marks' \in [Session -> [Event -> Mark \cup {None}]]
      /\ \A s \in Session, f \in Event : <<s, f>> # <<Tape, e>> => marks'[s][f] = marks[s][f]
      /\ marks'[Tape][e] = marks[Tape][e] \/ marks'[Tape][e] = [status |-> "started", instance |-> instance]
  BY <1>2, <1>3, <1>5, MarkedOne DEF FenceContext, DeliveryTypeOK
<1>8. FenceHolds'
  <2>1. ASSUME NEW s \in Session, NEW f \in Event PROVE FenceOf(s, f)'
    <3>1. CASE <<s, f>> = <<Tape, e>>
      BY <1>4, <1>6, <3>1 DEF FenceOf
    <3>2. CASE <<s, f>> # <<Tape, e>>
      BY <1>6, <1>7, <3>2, FenceByEvent, FenceStays DEF FenceContext, FenceInv
    <3> QED
      BY <3>1, <3>2
  <2> QED
    BY <2>1, FenceByEvent
<1>9. EngagedInv'
  <2>1. ASSUME NEW s \in Session, NEW f \in Event, marks'[s][f] # None
        PROVE  marks'[s][f].instance \in engaged
    <3>1. marks[s][f] # None => marks[s][f].instance \in engaged
      BY DEF FenceContext, FenceInv, EngagedInv
    <3> QED
      BY <1>3, <1>7, <2>1, <3>1
  <2> QED
    BY <2>1 DEF FenceContext, FenceInv, EngagedInv, Active
<1>10. BatchIsMarked'
  <2>1. CASE batch' = None
    BY <2>1 DEF BatchIsMarked
  <2>2. CASE batch' # None
    <3>1. /\ marks' = Marked(e, "started", instance)
          /\ batch'.event = e /\ batch'.instance = instance
          /\ turn' = [turn EXCEPT !.step = "delivering"]
      BY <1>1, <2>2 DEF StartBatch
    <3>2. turn'.agent = p
      BY <1>1, <3>1 DEF Turn
    <3>3. Tape' = Tape
      BY <1>2, <3>2 DEF Tape
    <3>4. marks'[Tape][e] # None
      <4>1. [status |-> "started", instance |-> instance] \in Mark
        BY <1>3 DEF Mark
      <4>2. marks'[Tape][e] = [status |-> "started", instance |-> instance]
        BY <1>2, <1>3, <3>1, MarkedOne DEF FenceContext
      <4> QED
        BY <4>1, <4>2, NoneDeliveryAssumption
    <3> QED
      BY <1>3, <1>4, <1>6, <3>1, <3>2, <3>3, <3>4 DEF BatchIsMarked
  <2> QED
    BY <2>1, <2>2
<1> QED
  BY <1>7, <1>8, <1>9, <1>10 DEF FenceInv

\* A batch that goes on.
LEMMA MoveFence ==
  ASSUME FenceContext, UNCHANGED <<instances, runs, engaged, turn, marks, fence, uncertain>>,
         batch' # None => batch # None /\ batch'.event = batch.event /\ batch'.instance = batch.instance
  PROVE  FenceInv'
<1>1. Tape' = Tape
  BY DEF Tape
<1>2. FenceHolds'
  <2>1. ASSUME NEW s \in Session, NEW e \in Event PROVE FenceOf(s, e)'
    BY FenceByEvent, FenceStays DEF FenceContext, FenceInv
  <2> QED
    BY <2>1, FenceByEvent
<1>3. EngagedInv'
  BY DEF FenceContext, FenceInv, EngagedInv, Active
<1>4. BatchIsMarked'
  BY <1>1 DEF FenceContext, FenceInv, BatchIsMarked
<1> QED
  BY <1>2, <1>3, <1>4 DEF FenceInv

\* The end of a batch, settled or not: nobody else is seated on the tape.
LEMMA EndFence ==
  ASSUME FenceContext, batch # None, batch' = None,
         UNCHANGED <<instances, runs, engaged>>,
         UNCHANGED marks \/ marks' = Marked(batch.event, "settled", batch.instance),
         \/ UNCHANGED <<fence, uncertain>>
         \/ /\ fence' = [fence EXCEPT ![turn.agent] = @ \cup {batch.event}]
            /\ uncertain' = Uncertain
  PROVE  FenceInv' /\ marks' \in [Session -> [Event -> Mark \cup {None}]]
<1> DEFINE p == turn.agent
           e == batch.event
           instance == batch.instance
<1>1. /\ batch \in Batch /\ turn # None /\ p \in Principal /\ Seated(p) /\ Tape \in Session
      /\ e \in Event /\ instance \in InstanceRef /\ Tape = runs[p].session
  BY InFlight DEF FenceContext, LiveInv, Tape
<1>2. /\ instance.principal = p /\ <<Tape, e>> \notin uncertain /\ marks[Tape][e] # None
      /\ marks[Tape][e] # None => marks[Tape][e].instance \in engaged
  BY <1>1 DEF FenceContext, FenceInv, BatchIsMarked, EngagedInv
<1>3. /\ marks' \in [Session -> [Event -> Mark \cup {None}]]
      /\ \A s \in Session, f \in Event : <<s, f>> # <<Tape, e>> => marks'[s][f] = marks[s][f]
      /\ marks'[Tape][e] = marks[Tape][e] \/ marks'[Tape][e] = [status |-> "settled", instance |-> instance]
  BY <1>1, MarkedOne DEF FenceContext, DeliveryTypeOK
<1>4. \A q \in Principal : fence[q] \subseteq fence'[q]
  BY DEF FenceContext, DeliveryTypeOK
<1>5. uncertain' \subseteq uncertain \cup {<<Tape, e>>}
  BY DEF Uncertain
<1>6. marks'[Tape][e] # None
  <2>1. [status |-> "settled", instance |-> instance] \in Mark
    BY <1>1 DEF Mark
  <2> QED
    BY <1>2, <1>3, <2>1, NoneDeliveryAssumption
<1>7. FenceHolds'
  <2>1. ASSUME NEW s \in Session, NEW f \in Event PROVE FenceOf(s, f)'
    <3>1. CASE <<s, f>> # <<Tape, e>>
      BY <1>3, <1>4, <1>5, <3>1, FenceByEvent, FenceStays DEF FenceContext, FenceInv
    <3>2. ASSUME <<s, f>> = <<Tape, e>>, <<s, f>> \in uncertain' PROVE FenceOf(s, f)'
      <4>1. s = Tape /\ f = e
        BY <3>2
      <4>2. e \in fence'[p]
        BY <1>1, <1>2, <3>2 DEF FenceContext, DeliveryTypeOK
      <4>3. ASSUME NEW q \in Principal, Active(q)', runs'[q].session = s
            PROVE  q = p /\ instances'[q].ref.principal = p
        <5>1. Active(q) /\ Seated(q) /\ runs[q].session = Tape
          BY <4>1, <4>3 DEF Active, FenceContext, LiveInv, Live
        <5>2. q = p
          BY <1>1, <5>1 DEF FenceContext, SessionsOwned, SessionOf
        <5> QED
          BY <5>1, <5>2 DEF FenceContext, LedgerTypeOK, Active
      <4>4. \A q \in Principal : Active(q)' /\ runs'[q].session = s => Fenced(s, f, instances[q].ref)'
        BY <4>1, <4>2, <4>3 DEF Fenced
      <4> QED
        BY <1>6, <4>1, <4>4 DEF FenceOf
    <3> QED
      BY <3>1, <3>2 DEF FenceOf
  <2> QED
    BY <2>1, FenceByEvent
<1>8. EngagedInv'
  <2>1. ASSUME NEW s \in Session, NEW f \in Event, marks'[s][f] # None
        PROVE  marks'[s][f].instance \in engaged
    <3>1. marks[s][f] # None => marks[s][f].instance \in engaged
      BY DEF FenceContext, FenceInv, EngagedInv
    <3>2. instance \in engaged
      BY DEF FenceContext, FenceInv, BatchIsMarked
    <3> QED
      BY <1>3, <2>1, <3>1, <3>2
  <2> QED
    BY <2>1 DEF FenceContext, FenceInv, EngagedInv, Active
<1>9. BatchIsMarked'
  BY DEF BatchIsMarked
<1> QED
  BY <1>3, <1>7, <1>8, <1>9 DEF FenceInv

\* The other threads: an engagement drawn now is of no line, and a batch in flight
\* keeps its tape.
LEMMA ElsewhereFence ==
  ASSUME FenceContext, LiveInv', Elsewhere
  PROVE  FenceInv'
<1>1. /\ Operation /\ [Next]_all /\ UNCHANGED <<marks, batch, uncertain>>
      /\ fence' = [p \in Principal |-> IF Seated(p) /\ Seated(p)' THEN fence[p] ELSE {}]
      /\ CoreTypeOK /\ LiveInv /\ EngagedInv
  BY DEF Elsewhere, Next, FenceContext, FenceInv
<1>2. (\A p \in Principal : Engages(p)) /\ engaged \subseteq engaged'
  BY <1>1, EngagesStep DEF FenceContext
<1>3. ASSUME NEW p \in Principal, Active(p)', Active(p)
      PROVE  /\ Seated(p) /\ Seated(p)' /\ runs'[p].session = runs[p].session
             /\ instances'[p].ref = instances[p].ref /\ fence'[p] = fence[p]
  <2>1. Seated(p) /\ Seated(p)'
    BY <1>1, <1>3 DEF LiveInv, Live, Seated
  <2> QED
    BY <1>1, <1>2, <1>3, <2>1, SessionStays DEF Engages
<1>4. EngagedInv'
  <2>1. ASSUME NEW p \in Principal, Active(p)' PROVE instances'[p].ref \in engaged'
    BY <1>1, <1>2, <2>1 DEF Engages, EngagedInv
  <2> QED
    BY <1>1, <1>2, <2>1 DEF EngagedInv
<1>5. ASSUME NEW s \in Session, NEW e \in Event PROVE FenceOf(s, e)'
  <2>1. FenceOf(s, e) /\ (marks[s][e] # None => marks[s][e].instance \in engaged)
    BY <1>1, FenceByEvent DEF FenceContext, FenceInv, EngagedInv
  <2>2. ASSUME <<s, e>> \in uncertain', NEW p \in Principal, Active(p)', runs'[p].session = s
        PROVE  Fenced(s, e, instances[p].ref)'
    <3>1. marks[s][e] # None /\ \A q \in Principal : Active(q) /\ runs[q].session = s => Fenced(s, e, instances[q].ref)
      BY <1>1, <2>1, <2>2 DEF FenceOf
    <3>2. CASE Active(p)
      <4>1. Fenced(s, e, instances[p].ref)
        BY <1>3, <2>2, <3>1, <3>2
      <4>2. instances[p].ref.principal = p
        BY <3>2 DEF FenceContext, LedgerTypeOK, Active
      <4> QED
        BY <1>1, <1>3, <2>2, <3>2, <4>1, <4>2 DEF Fenced
    <3>3. CASE ~Active(p)
      BY <1>1, <1>2, <2>1, <2>2, <3>1, <3>3 DEF Fenced, Engages
    <3> QED
      BY <3>2, <3>3
  <2> QED
    BY <1>1, <2>1, <2>2 DEF FenceOf
<1>6. BatchIsMarked'
  <2>1. SUFFICES ASSUME batch # None PROVE BatchIsMarked'
    BY <1>1 DEF BatchIsMarked
  <2>2. turn # None /\ turn.step = "delivering" /\ turn.agent \in Principal /\ Seated(turn.agent)
    BY <2>1, InFlight DEF FenceContext, LiveInv
  <2>3. turn' # None /\ turn'.agent = turn.agent
    BY <1>1, <2>2, TurnOfDelivery
  <2>4. Seated(turn.agent)'
    BY <2>3 DEF LiveInv, BeatIsLive, Live, Seated
  <2>5. Tape' = Tape
    BY <1>1, <2>2, <2>3, <2>4, SessionStays DEF Tape
  <2> QED
    BY <1>1, <1>2, <2>3, <2>5 DEF FenceContext, FenceInv, BatchIsMarked
<1> QED
  BY <1>4, <1>5, <1>6, FenceByEvent DEF FenceInv

\* A crash leaves nobody engaged.
LEMMA CrashFence ==
  ASSUME FenceContext, HostCrash
  PROVE  FenceInv'
<1>1. /\ \A p \in Principal : ~Active(p)'
      /\ batch' = None /\ UNCHANGED <<marks, engaged>> /\ uncertain' = Uncertain
  BY DEF HostCrash, Crash, Restart, Active
<1>2. EngagedInv' /\ BatchIsMarked'
  BY <1>1 DEF FenceContext, FenceInv, EngagedInv, BatchIsMarked
<1>3. ASSUME NEW s \in Session, NEW e \in Event PROVE FenceOf(s, e)'
  BY <1>1 DEF FenceContext, FenceInv, FenceHolds, BatchIsMarked, FenceOf, Uncertain
<1> QED
  BY <1>2, <1>3, FenceByEvent DEF FenceInv

----------------------------------------------------------------------------
(* Bodies, notes and reviews *)

BodiesInv == BodiesAreMounts /\ BodiesIssued

\* The bodies as a set of mounts.
LEMMA BodiesKept ==
  ASSUME BodiesInv, UNCHANGED <<bodies, mounts, issued>>
  PROVE  BodiesInv'
BY DEF BodiesInv, BodiesAreMounts, BodiesIssued

LEMMA MountBodies ==
  ASSUME BodiesInv, DeliveryTypeOK, NEW n \in Name, NEW m \in MountId, MountSpool(n, m)
  PROVE  BodiesInv' /\ bodies' \in [Name -> Body \cup {None}]
<1> DEFINE body == [instance |-> m, consumes |-> {e \in Event : OnRoute(Registered, e, n)}]
<1>1. body \in Body /\ body.instance = m /\ body # None
  BY NoneDeliveryAssumption DEF Body
<1>2. /\ bodies' = [bodies EXCEPT ![n] = body] /\ bodies[n] = None /\ m \notin issued
      /\ issued' = issued \cup {m} /\ mounts' = mounts \cup {m}
      /\ bodies \in [Name -> Body \cup {None}]
  BY DEF MountSpool, Mount, DeliveryTypeOK
<1> HIDE DEF body
<1>3. bodies' \in [Name -> Body \cup {None}] /\ bodies'[n] = body /\ \A o \in Name : o # n => bodies'[o] = bodies[o]
  BY <1>1, <1>2
<1>4. BodiesIssued'
  BY <1>1, <1>2, <1>3 DEF BodiesInv, BodiesIssued
<1>5. \A x : x \in mounts' <=> \E o \in Name : bodies'[o] # None /\ bodies'[o].instance = x
  <2>1. \A x : x \in mounts <=> \E o \in Name : bodies[o] # None /\ bodies[o].instance = x
    BY DEF BodiesInv, BodiesAreMounts
  <2> QED
    BY <1>1, <1>2, <1>3, <2>1
<1> QED
  BY <1>3, <1>4, <1>5 DEF BodiesInv, BodiesAreMounts

\* Dropping every name of a mount.
LEMMA DropBodies ==
  ASSUME BodiesInv, DeliveryTypeOK, NEW m, Unmount(m), UNCHANGED issued,
         bodies' = Without(m)
  PROVE  BodiesInv' /\ bodies' \in [Name -> Body \cup {None}]
<1>1. mounts' = mounts \ {m} /\ bodies \in [Name -> Body \cup {None}]
  BY DEF Unmount, DeliveryTypeOK
<1>2. \A n \in Name : IF bodies[n] # None /\ bodies[n].instance = m THEN bodies'[n] = None ELSE bodies'[n] = bodies[n]
  BY DEF Without
<1>3. bodies' \in [Name -> Body \cup {None}]
  BY <1>1 DEF Without
<1>4. BodiesIssued'
  BY <1>2 DEF BodiesInv, BodiesIssued
<1>5. \A x : x \in mounts' <=> \E o \in Name : bodies'[o] # None /\ bodies'[o].instance = x
  <2>1. \A x : x \in mounts <=> \E o \in Name : bodies[o] # None /\ bodies[o].instance = x
    BY DEF BodiesInv, BodiesAreMounts
  <2> QED
    BY <1>1, <1>2, <2>1
<1> QED
  BY <1>3, <1>4, <1>5 DEF BodiesInv, BodiesAreMounts

LEMMA UnmountBodies ==
  ASSUME BodiesInv, DeliveryTypeOK, NEW n \in Name, UnmountSpool(n)
  PROVE  BodiesInv' /\ bodies' \in [Name -> Body \cup {None}]
<1> DEFINE m == bodies[n].instance
<1>1. bodies' = Without(m)
  BY DEF UnmountSpool, Without, BodiesInv, BodiesIssued, DeliveryTypeOK
<1> QED
  BY <1>1, DropBodies DEF UnmountSpool

\* A batch with a body in every step that needs one, and a note about every body
\* that is not running.
Whole(b) ==
  /\ SameBatch(b)
  /\ b.step # "next" => b.body # None /\ b.route # <<>>
  /\ \A m \in b.ran : \/ b.step = "running" /\ m = b.body.instance
                      \/ \E what \in {"reply", "error", "review"} : <<m, what>> \in b.noted

\* Nothing waited when the grant was given.
JustGranted ==
  /\ batch.step = "found" /\ batch'.body = batch.body /\ batch'.route = batch.route
  /\ InScope(turn.agent, batch.body.instance)
  /\ Waiting(Scope(turn.agent, batch.body.instance), Head(batch.route), FALSE) = {}
  /\ UNCHANGED ledger

\* Notes of replies, and replies, are of the body in hand, whose grant is current.
Answers(b) ==
  \A m : <<m, "reply">> \in b.noted \ batch.noted \/ m \in b.ready \ batch.ready =>
    Granted /\ m = batch.body.instance

GoesOn ==
  /\ batch # None /\ Whole(batch') /\ Answers(batch')
  /\ batch'.step = "granted" => JustGranted
  /\ batch'.ran # batch.ran => batch.step = "granted" /\ Granted
  /\ UNCHANGED <<turn, marks, fence, uncertain>>

Ends ==
  /\ batch # None /\ batch' = None /\ turn' = None
  /\ UNCHANGED marks \/ marks' = Marked(batch.event, "settled", batch.instance)
  /\ \/ UNCHANGED <<fence, uncertain>>
     \/ /\ fence' = [fence EXCEPT ![turn.agent] = @ \cup {batch.event}]
        /\ uncertain' = Uncertain

\* What the lemmas about a batch assume.
BatchContext == CoreTypeOK /\ DeliveryTypeOK /\ BatchHasBody /\ RunningNoted

\* Skipping the head of the route is always possible, once its body is noted.
LEMMA Skips ==
  ASSUME BatchContext, batch # None, batch.step # "running", batch.route # <<>>
  PROVE  Whole(NextSpool) /\ Answers(NextSpool) /\ NextSpool.step = "next" /\ NextSpool.ran = batch.ran
<1>1. batch \in Batch
  BY DEF BatchContext, DeliveryTypeOK
<1> QED
  BY <1>1, NextBatch DEF Whole, Answers, BatchContext, RunningNoted

\* So it is for the body that runs, with a note that is no reply or a current grant.
LEMMA SkipsNoted ==
  ASSUME BatchContext, batch # None, batch.step # "next", NEW what \in {"reply", "error", "review"},
         what = "reply" => Granted
  PROVE  /\ Whole(NextNoted(what)) /\ Answers(NextNoted(what))
         /\ NextNoted(what).step = "next" /\ NextNoted(what).ran = batch.ran
<1> DEFINE m == batch.body.instance
           b == NextNoted(what)
<1>1. batch \in Batch /\ batch.body \in Body /\ batch.route # <<>>
  BY BodyInHand DEF BatchContext, DeliveryTypeOK
<1>2. /\ SameBatch(b) /\ b.step = "next" /\ b.ran = batch.ran /\ b.ready = batch.ready
      /\ b.noted = batch.noted \cup {<<m, what>>}
  BY <1>1, NextNotedBatch
<1> HIDE DEF b
<1>3. Whole(b)
  <2>1. ASSUME NEW x \in batch.ran
        PROVE  x = m \/ \E w \in {"reply", "error", "review"} : <<x, w>> \in batch.noted
    BY DEF BatchContext, RunningNoted
  <2> QED
    BY <1>2, <2>1 DEF Whole
<1>4. Answers(b)
  <2>1. ASSUME NEW x, <<x, "reply">> \in b.noted \ batch.noted PROVE Granted /\ x = m
    <3>1. <<x, "reply">> = <<m, what>>
      BY <1>2, <2>1
    <3>2. x = m /\ what = "reply"
      BY <3>1
    <3> QED
      BY <3>2
  <2> QED
    BY <1>2, <2>1 DEF Answers
<1> QED
  BY <1>2, <1>3, <1>4 DEF b

LEMMA InterruptEnds == batch # None /\ Interrupt /\ UNCHANGED marks => Ends
BY DEF Interrupt, Leave, Ends

\* The steps of a batch, each in turn.
LEMMA LookUpMoves ==
  ASSUME BatchContext, LookUp
  PROVE  GoesOn \/ Ends
<1> DEFINE body == bodies[Head(batch.route)]
<1>1. /\ batch # None /\ batch \in Batch /\ batch.step = "next" /\ batch.route # <<>>
      /\ UNCHANGED <<ledger, marks>>
  BY DEF LookUp, BatchContext, DeliveryTypeOK
<1>2. ASSUME body # None, Continue([batch EXCEPT !.step = "found", !.body = body]) PROVE GoesOn
  <2>1. Head(batch.route) \in Name
    <3>1. batch.route \in Seq(Name)
      BY <1>1 DEF Batch
    <3> QED
      BY <1>1, <3>1
  <2>2. body \in Body
    BY <1>2, <2>1 DEF BatchContext, DeliveryTypeOK
  <2> HIDE DEF body
  <2>3. /\ SameBatch(batch') /\ batch'.step = "found" /\ batch'.route = batch.route /\ batch'.body = body
        /\ batch'.ran = batch.ran /\ batch'.noted = batch.noted /\ batch'.ready = batch.ready
    BY <1>1, <1>2, <2>2, FoundBatch DEF Continue
  <2> QED
    BY <1>1, <1>2, <2>3 DEF GoesOn, Whole, Answers, Continue, BatchContext, RunningNoted
<1>3. ASSUME Continue(NextSpool) PROVE GoesOn
  BY <1>1, <1>3, Skips DEF GoesOn, Continue
<1> QED
  BY <1>1, <1>2, <1>3, InterruptEnds DEF LookUp

LEMMA AuthorizeMoves ==
  ASSUME BatchContext, Authorize
  PROVE  GoesOn \/ Ends
<1> DEFINE p == turn.agent
           m == batch.body.instance
           waiting == Waiting(Scope(p, m), Head(batch.route), FALSE)
<1>1. /\ batch # None /\ batch \in Batch /\ batch.step = "found" /\ UNCHANGED <<ledger, marks>>
      /\ batch.body # None /\ batch.route # <<>>
  BY DEF Authorize, BatchContext, DeliveryTypeOK, BatchHasBody
<1>2. ASSUME Continue(NextSpool) PROVE GoesOn
  BY <1>1, <1>2, Skips DEF GoesOn, Continue
<1>3. ASSUME InScope(p, m), waiting = {}, NEW step \in {"granted", "denied"},
             Continue([batch EXCEPT !.step = step])
      PROVE  GoesOn
  <2>1. /\ SameBatch(batch') /\ batch'.step = step /\ batch'.route = batch.route
        /\ batch'.body = batch.body
        /\ batch'.ran = batch.ran /\ batch'.noted = batch.noted /\ batch'.ready = batch.ready
    BY <1>1, <1>3, StepBatch DEF Continue
  <2>2. JustGranted
    BY <1>1, <1>3, <2>1 DEF JustGranted
  <2>3. Whole(batch') /\ Answers(batch')
    BY <1>1, <2>1 DEF Whole, Answers, BatchContext, RunningNoted
  <2> QED
    BY <1>1, <1>3, <2>1, <2>2, <2>3 DEF GoesOn, Continue
<1>4. CASE InScope(p, m) /\ waiting = {} /\ Continue([batch EXCEPT !.step = IF Covered THEN "granted" ELSE "denied"])
  BY <1>3, <1>4
<1> QED
  BY <1>1, <1>2, <1>4, InterruptEnds DEF Authorize

LEMMA AskMoves ==
  ASSUME BatchContext, Denied \/ BodyAsks
  PROVE  GoesOn \/ Ends
<1>1. batch # None /\ batch.step # "next" /\ UNCHANGED marks
  BY DEF Denied, BodyAsks
<1>2. Continue(NextNoted("review")) \/ Interrupt
  BY DEF Denied, BodyAsks, AskAboutBody
<1>3. Continue(NextNoted("review")) => GoesOn
  BY <1>1, SkipsNoted DEF GoesOn, Continue
<1> QED
  BY <1>1, <1>2, <1>3, InterruptEnds

LEMMA EnterMoves ==
  ASSUME BatchContext, EnterBody
  PROVE  GoesOn \/ Ends
<1> DEFINE m == batch.body.instance
<1>1. /\ batch # None /\ batch.step = "granted" /\ UNCHANGED marks
      /\ batch \in Batch /\ batch.body \in Body /\ batch.route # <<>> /\ batch.body # None
  BY BodyInHand DEF EnterBody, BatchContext, DeliveryTypeOK, BatchHasBody
<1>2. ASSUME Granted, Continue([batch EXCEPT !.step = "running", !.ran = @ \cup {m}]) PROVE GoesOn
  <2>1. /\ SameBatch(batch') /\ batch'.step = "running" /\ batch'.route = batch.route
        /\ batch'.body = batch.body /\ batch'.ran = batch.ran \cup {m}
        /\ batch'.noted = batch.noted /\ batch'.ready = batch.ready
    BY <1>1, <1>2, EnteredBatch DEF Continue
  <2>2. \A x \in batch.ran : \E what \in {"reply", "error", "review"} : <<x, what>> \in batch.noted
    BY <1>1 DEF BatchContext, RunningNoted
  <2> QED
    BY <1>1, <1>2, <2>1, <2>2 DEF GoesOn, Whole, Answers, Continue
<1> QED
  BY <1>1, <1>2, InterruptEnds DEF EnterBody

LEMMA PublishMoves ==
  ASSUME BatchContext, Publish
  PROVE  GoesOn \/ Ends
<1> DEFINE m == batch.body.instance
<1>1. /\ batch # None /\ batch.step = "running" /\ Granted /\ UNCHANGED marks
      /\ batch \in Batch /\ batch.body \in Body /\ batch.route # <<>> /\ batch.body # None
  BY BodyInHand DEF Publish, BatchContext, DeliveryTypeOK, BatchHasBody
<1>2. ASSUME Continue([Noted("reply") EXCEPT !.step = "published"]) PROVE GoesOn
  <2>1. /\ SameBatch(batch') /\ batch'.step = "published" /\ batch'.route = batch.route
        /\ batch'.body = batch.body /\ batch'.ran = batch.ran /\ batch'.ready = batch.ready
        /\ batch'.noted = batch.noted \cup {<<m, "reply">>}
    BY <1>1, <1>2, PublishedBatch DEF Continue
  <2>2. Answers(batch')
    <3>1. ASSUME NEW x, <<x, "reply">> \in batch'.noted \ batch.noted PROVE x = m
      <4>1. <<x, "reply">> = <<m, "reply">>
        BY <2>1, <3>1
      <4> QED
        BY <4>1
    <3> QED
      BY <1>1, <2>1, <3>1 DEF Answers
  <2>3. \A x \in batch.ran : x = m \/ \E what \in {"reply", "error", "review"} : <<x, what>> \in batch.noted
    BY <1>1 DEF BatchContext, RunningNoted
  <2>4. Whole(batch')
    BY <1>1, <2>1, <2>3 DEF Whole
  <2> QED
    BY <1>1, <1>2, <2>1, <2>2, <2>4 DEF GoesOn, Continue
<1>3. ASSUME Continue(NextNoted("reply")) PROVE GoesOn
  BY <1>1, <1>3, SkipsNoted DEF GoesOn, Continue
<1> QED
  BY <1>1, <1>2, <1>3, InterruptEnds DEF Publish

LEMMA FailMoves ==
  ASSUME BatchContext, BodyFails
  PROVE  GoesOn \/ Ends
<1>1. batch # None /\ batch.step # "next" /\ UNCHANGED marks
  BY DEF BodyFails
<1>2. Continue(NextNoted("error")) \/ Interrupt
  BY DEF BodyFails
<1>3. Continue(NextNoted("error")) => GoesOn
  BY <1>1, SkipsNoted DEF GoesOn, Continue
<1> QED
  BY <1>1, <1>2, <1>3, InterruptEnds

LEMMA AfterMoves ==
  ASSUME BatchContext, AfterHooks
  PROVE  GoesOn \/ Ends
<1> DEFINE m == batch.body.instance
<1>1. /\ batch # None /\ batch.step = "published" /\ UNCHANGED marks
      /\ batch \in Batch /\ batch.body \in Body /\ batch.route # <<>>
  BY BodyInHand DEF AfterHooks, BatchContext, DeliveryTypeOK
<1>2. ASSUME Granted, Continue([NextSpool EXCEPT !.ready = @ \cup {m}]) PROVE GoesOn
  <2>1. /\ SameBatch(batch') /\ batch'.step = "next" /\ batch'.ran = batch.ran
        /\ batch'.noted = batch.noted /\ batch'.ready = batch.ready \cup {m}
    BY <1>1, <1>2, ReadyBatch DEF Continue
  <2> QED
    BY <1>1, <1>2, <2>1 DEF GoesOn, Whole, Answers, Continue, BatchContext, RunningNoted
<1>3. ASSUME Continue(NextSpool) PROVE GoesOn
  BY <1>1, <1>3, Skips DEF GoesOn, Continue
<1> QED
  BY <1>1, <1>2, <1>3, InterruptEnds DEF AfterHooks

LEMMA SettleEnds == Settle => Ends
BY DEF Settle, Interrupt, Leave, Ends

\* Every step of a delivery.
LEMMA DeliverMoves ==
  ASSUME BatchContext, Deliver
  PROVE  \/ RefuseDelivery
         \/ \E e \in Event, name \in Name \cup {None} : StartBatch(e, name)
         \/ GoesOn \/ Ends
<1>1. Abandon => Ends
  BY InterruptEnds DEF Abandon
<1> QED
  BY <1>1, LookUpMoves, AuthorizeMoves, AskMoves, EnterMoves, PublishMoves, FailMoves, AfterMoves,
    SettleEnds DEF Deliver

----------------------------------------------------------------------------
(* The invariant of deliveries *)

DeliveryInv ==
  /\ SharedInv /\ DeliveryTypeOK /\ FenceInv /\ BodiesInv
  /\ BatchHasBody /\ RunningNoted /\ NoneWaits

\* The invariant gives each lemma what it assumes.
LEMMA Contexts ==
  ASSUME DeliveryInv
  PROVE  /\ FenceContext /\ BatchContext /\ BatchIsMarked
         /\ LedgerInv /\ LedgerTypeOK /\ CoreTypeOK /\ LiveInv /\ BeatIsLive /\ PendingCurrent
         /\ generation \in Facts
BY DEF DeliveryInv, SharedInv, FenceContext, BatchContext, FenceInv, PlainInv, TypeOK, LedgerInv,
  FinishInv, LiveInv, Facts

\* Reviews that only go away, or are answered, leave a granted body alone.
LEMMA NoneWaitsStays ==
  ASSUME NoneWaits, batch' # None => batch' = batch /\ turn'.agent = turn.agent,
         batch # None => \A id \in ReviewId : IsPending(id)' =>
           /\ IsPending(id) /\ pending'[id].request = pending[id].request
           /\ pending'[id].call = pending[id].call
  PROVE  NoneWaits'
BY DEF NoneWaits, AboutBody

\* Whatever waits for an agent about a mount waits in its one current scope.
LEMMA GrantWaits ==
  ASSUME PendingCurrent, JustGranted, UNCHANGED turn
  PROVE  NoneWaits'
<1>1. ASSUME NEW id \in ReviewId, IsPending(id), AboutBody(id) PROVE FALSE
  <2>1. pending[id].request.scope = Scope(turn.agent, batch.body.instance)
    BY <1>1 DEF PendingCurrent, Current, AboutBody
  <2>2. id \in Waiting(Scope(turn.agent, batch.body.instance), Head(batch.route), FALSE)
    BY <1>1, <2>1 DEF Waiting, AboutBody
  <2> QED
    BY <2>2 DEF JustGranted
<1>2. /\ batch'.body = batch.body /\ batch'.route = batch.route
      /\ UNCHANGED pending
  BY DEF JustGranted, ledger
<1>3. \A id \in ReviewId : (IsPending(id)' <=> IsPending(id)) /\ (AboutBody(id)' <=> AboutBody(id))
  BY <1>2 DEF IsPending, AboutBody
<1> QED
  BY <1>1, <1>3 DEF NoneWaits

\* The first step of a batch.
LEMMA StartKeepsBatch ==
  ASSUME DeliveryInv, NEW e \in Event, NEW name \in Name \cup {None}, StartBatch(e, name),
         UNCHANGED <<instances, runs, engaged, issued>>
  PROVE  DeliveryTypeOK' /\ FenceInv' /\ BatchHasBody' /\ RunningNoted' /\ NoneWaits'
<1>1. FenceInv' /\ marks' \in [Session -> [Event -> Mark \cup {None}]]
  BY StartFence, Contexts
<1>2. /\ turn # None /\ turn \in Turn /\ batch = None /\ turn.step = "begun"
      /\ UNCHANGED <<bodies, fence, uncertain>>
  BY TurnType, Contexts DEF StartBatch, DeliveryInv, DeliveryTypeOK
<1> DEFINE instance == instances[turn.agent].ref
           route == IF name = None THEN Route[Registered][e] ELSE <<name>>
           named == name # None
           first == [event |-> e, selected |-> named, instance |-> instance,
                     registration |-> Registered, route |-> route,
                     body |-> None, step |-> "next", ran |-> {}, noted |-> {}, ready |-> {}]
<1>3. \/ batch' = first /\ turn' = [turn EXCEPT !.step = "delivering"]
      \/ turn' = None /\ UNCHANGED batch
  BY DEF StartBatch
<1>4. CASE turn' = None /\ UNCHANGED batch
  BY <1>1, <1>2, <1>4 DEF DeliveryInv, DeliveryTypeOK, BatchHasBody, RunningNoted, NoneWaits
<1>5. CASE batch' = first /\ turn' = [turn EXCEPT !.step = "delivering"]
  <2>2. instance \in InstanceRef
    BY <1>2, Contexts DEF StartBatch, LedgerTypeOK, Active, Engagement, Turn
  <2>3. Registered \in Revision
    BY Contexts, RegisterAssumption DEF Registered, Facts
  <2>4. route \in Seq(Name)
    <3>1. name = None => e \in DOMAIN Route[Registered]
      BY DEF StartBatch
    <3>2. name = None => Route[Registered][e] \in Seq(Name)
      BY <2>3, <3>1, RouteAssumption
    <3>3. name # None => name \in Name
      OBVIOUS
    <3> QED
      BY <3>2, <3>3
  <2>9. named \in BOOLEAN
    OBVIOUS
  <2> HIDE DEF instance, route, named
  <2>5. batch' \in Batch /\ batch' # None /\ batch'.step = "next" /\ batch'.ran = {}
    BY <1>5, <2>2, <2>3, <2>4, <2>9, NoneDeliveryAssumption DEF Batch
  <2>6. turn' \in Turn /\ turn'.step = "delivering" /\ turn' # None
    BY <1>2, <1>5, NoneCoreAssumption DEF Turn
  <2>7. DeliveryTypeOK'
    BY <1>1, <1>2, <2>5, <2>6 DEF DeliveryInv, DeliveryTypeOK
  <2> QED
    BY <1>1, <2>5, <2>7 DEF BatchHasBody, RunningNoted, NoneWaits
<1> QED
  BY <1>3, <1>4, <1>5

\* Every later one.
LEMMA MoveKeepsBatch ==
  ASSUME DeliveryInv, GoesOn \/ Ends, UNCHANGED <<instances, runs, engaged, issued>>,
         bodies' \in [Name -> Body \cup {None}]
  PROVE  DeliveryTypeOK' /\ FenceInv' /\ BatchHasBody' /\ RunningNoted' /\ NoneWaits'
<1>1. CASE GoesOn
  <2>1. /\ batch' \in Batch /\ batch # None /\ batch'.event = batch.event
        /\ batch'.instance = batch.instance /\ UNCHANGED <<turn, marks, fence, uncertain>>
        /\ batch' # None
    BY <1>1, NoneDeliveryAssumption DEF GoesOn, Whole, SameBatch
  <2>2. FenceInv'
    BY <2>1, MoveFence, Contexts
  <2>3. DeliveryTypeOK'
    BY <2>1 DEF DeliveryInv, DeliveryTypeOK
  <2>4. BatchHasBody' /\ RunningNoted'
    BY <1>1 DEF GoesOn, Whole, BatchHasBody, RunningNoted
  <2>5. NoneWaits'
    <3>1. CASE batch'.step = "granted"
      BY <1>1, <2>1, <3>1, GrantWaits, Contexts DEF GoesOn
    <3>2. CASE batch'.step # "granted"
      BY <3>2 DEF NoneWaits
    <3> QED
      BY <3>1, <3>2
  <2> QED
    BY <2>2, <2>3, <2>4, <2>5
<1>2. CASE Ends
  <2>1. FenceInv' /\ marks' \in [Session -> [Event -> Mark \cup {None}]]
    BY <1>2, EndFence, Contexts DEF Ends
  <2>2. batch \in Batch /\ turn.agent \in Principal /\ Tape \in Session /\ batch.event \in Event
    BY <1>2, InFlight, Contexts DEF Ends, DeliveryInv
  <2>3. fence' \in [Principal -> SUBSET Event] /\ uncertain' \in SUBSET (Session \X Event)
    BY <1>2, <2>2 DEF Ends, Uncertain, DeliveryInv, DeliveryTypeOK
  <2>4. DeliveryTypeOK'
    BY <1>2, <2>1, <2>3 DEF Ends, DeliveryInv, DeliveryTypeOK
  <2> QED
    BY <1>2, <2>1, <2>4 DEF Ends, BatchHasBody, RunningNoted, NoneWaits
<1> QED
  BY <1>1, <1>2

\* The table of bodies under a delivery.
LEMMA DeliverBodies ==
  ASSUME DeliveryInv, Deliver
  PROVE  BodiesInv' /\ bodies' \in [Name -> Body \cup {None}]
<1>1. UNCHANGED issued /\ BodiesInv /\ DeliveryTypeOK /\ bodies \in [Name -> Body \cup {None}]
  BY DEF Deliver, DeliveryInv, DeliveryTypeOK
<1>2. CASE BodyFails
  BY <1>1, <1>2, DropBodies DEF BodyFails
<1>3. CASE ~BodyFails
  <2>1. UNCHANGED bodies
    BY <1>3 DEF Deliver, RefuseDelivery, StartBatch, LookUp, Authorize, Denied, EnterBody, Publish,
      Abandon, BodyAsks, AfterHooks, Settle
  <2>2. UNCHANGED mounts
    <3>1. ASSUME NEW cause \in Cause, batch # None, batch.step # "next", AskAboutBody(cause)
          PROVE  UNCHANGED mounts
      BY <3>1, AskEffects, Contexts DEF DeliveryInv
    <3>2. Denied \/ BodyAsks => UNCHANGED mounts
      BY <3>1 DEF Denied, BodyAsks, Cause
    <3>3. ~(Denied \/ BodyAsks) => UNCHANGED ledger
      BY <1>3 DEF Deliver, RefuseDelivery, StartBatch, LookUp, Authorize, EnterBody, Publish,
        Abandon, AfterHooks, Settle
    <3> QED
      BY <3>2, <3>3 DEF ledger
  <2> QED
    BY <1>1, <2>1, <2>2, BodiesKept
<1> QED
  BY <1>2, <1>3

LEMMA DeliverInv ==
  ASSUME DeliveryInv, Deliver
  PROVE  DeliveryInv'
<1>1. SharedInv'
  BY DeliverShared, Contexts DEF DeliveryInv
<1>2. BodiesInv' /\ bodies' \in [Name -> Body \cup {None}]
  BY DeliverBodies
<1>3. UNCHANGED <<instances, runs, engaged, issued>>
  BY DeliverEffects, Contexts DEF Deliver, DeliveryInv
<1>4. CASE RefuseDelivery
  <2>1. batch = None /\ batch' = None /\ turn' = None /\ UNCHANGED <<ledger, marks, fence, uncertain, bodies>>
    BY <1>4 DEF RefuseDelivery, DeliveryInv, DeliveryTypeOK
  <2>2. DeliveryTypeOK'
    BY <1>3, <2>1 DEF DeliveryInv, DeliveryTypeOK
  <2>3. EngagedInv'
    BY <1>3, <2>1 DEF DeliveryInv, FenceInv, EngagedInv, Active
  <2>4. FenceHolds'
    <3>1. ASSUME NEW s \in Session, NEW e \in Event PROVE FenceOf(s, e)'
      BY <1>3, <2>1, FenceByEvent, FenceStays, Contexts DEF DeliveryInv, FenceInv
    <3> QED
      BY <3>1, FenceByEvent
  <2>5. BatchIsMarked' /\ BatchHasBody' /\ RunningNoted' /\ NoneWaits'
    BY <2>1 DEF BatchIsMarked, BatchHasBody, RunningNoted, NoneWaits
  <2> QED
    BY <1>1, <1>2, <2>2, <2>3, <2>4, <2>5 DEF DeliveryInv, FenceInv
<1>5. ASSUME NEW e \in Event, NEW name \in Name \cup {None}, StartBatch(e, name) PROVE DeliveryInv'
  BY <1>1, <1>2, <1>3, <1>5, StartKeepsBatch DEF DeliveryInv
<1>6. CASE GoesOn \/ Ends
  BY <1>1, <1>2, <1>3, <1>6, MoveKeepsBatch DEF DeliveryInv
<1> QED
  BY <1>4, <1>5, <1>6, DeliverMoves, Contexts

\* Mounting and unmounting leave a batch where it is.
LEMMA MountInv ==
  ASSUME DeliveryInv, NEW n \in Name, UnmountSpool(n) \/ \E m \in MountId : MountSpool(n, m)
  PROVE  DeliveryInv'
<1>1. /\ UNCHANGED <<runs, turn, engaged, marks, fence, batch, uncertain>>
  BY DEF UnmountSpool, MountSpool, core
<1>2. UNCHANGED instances /\ issued' \in SUBSET MountId
  BY DEF UnmountSpool, MountSpool, Mount, Unmount, DeliveryInv, DeliveryTypeOK
<1>3. SharedInv'
  BY MountShared DEF DeliveryInv
<1>4. BodiesInv' /\ bodies' \in [Name -> Body \cup {None}]
  BY MountBodies, UnmountBodies DEF DeliveryInv
<1>5. DeliveryTypeOK'
  BY <1>1, <1>2, <1>4 DEF DeliveryInv, DeliveryTypeOK
<1>6. FenceInv'
  BY <1>1, <1>2, MoveFence, Contexts
<1>7. BatchHasBody' /\ RunningNoted'
  BY <1>1 DEF DeliveryInv, BatchHasBody, RunningNoted
<1>8. NoneWaits'
  <2>1. \A id \in ReviewId : IsPending(id)' => IsPending(id) /\ pending'[id] = pending[id]
    <3>1. \A m : Mount(m) => UNCHANGED pending
      BY DEF Mount
    <3>2. \A m : Unmount(m) => Remove(OnMount(m))
      BY DEF Unmount
    <3> QED
      BY <3>1, <3>2, RemoveLemma, Contexts DEF UnmountSpool, MountSpool, IsPending
  <2> QED
    BY <1>1, <2>1, NoneWaitsStays DEF DeliveryInv
<1> QED
  BY <1>3, <1>4, <1>5, <1>6, <1>7, <1>8 DEF DeliveryInv

LEMMA ElsewhereInv ==
  ASSUME DeliveryInv, Elsewhere
  PROVE  DeliveryInv'
<1>1. /\ Operation /\ [Next]_all /\ UNCHANGED <<bodies, issued, marks, batch, uncertain>>
      /\ fence' = [p \in Principal |-> IF Seated(p) /\ Seated(p)' THEN fence[p] ELSE {}]
  BY DEF Elsewhere, Next
<1>2. SharedInv' /\ LiveInv'
  BY <1>1, NextShared DEF DeliveryInv, SharedInv
<1>3. FenceInv'
  BY <1>2, ElsewhereFence, Contexts
<1>4. BodiesInv'
  BY <1>1, MountsStay, BodiesKept DEF DeliveryInv
<1>5. /\ turn # None /\ turn.step = "delivering" =>
           turn' # None /\ turn'.step = "delivering" /\ turn'.agent = turn.agent /\ ~ReviewTool
      /\ turn' # None /\ turn'.step = "delivering" => turn # None /\ turn.step = "delivering"
  BY <1>1, TurnOfDelivery, Contexts
<1>6. DeliveryTypeOK'
  BY <1>1, <1>5 DEF DeliveryInv, DeliveryTypeOK
<1>7. BatchHasBody' /\ RunningNoted'
  BY <1>1 DEF DeliveryInv, BatchHasBody, RunningNoted
<1>8. NoneWaits'
  <2>1. ASSUME batch # None, NEW id \in ReviewId, IsPending(id)'
        PROVE  /\ IsPending(id) /\ pending'[id].request = pending[id].request
               /\ pending'[id].call = pending[id].call
    <3>1. ~ReviewTool
      BY <1>5, <2>1 DEF DeliveryInv, DeliveryTypeOK
    <3>2. CASE NoNews
      BY <2>1, <3>2 DEF NoNews
    <3>3. ASSUME NEW supervisor \in Principal, NEW other \in ReviewId, NEW resolution \in Resolution,
                 ResolveReview(supervisor, other, resolution)
          PROVE  /\ IsPending(id) /\ pending'[id].request = pending[id].request
                 /\ pending'[id].call = pending[id].call
      <4>1. Close(other) \/ Resolve(supervisor, other, resolution, runs[supervisor].card) \/ UNCHANGED ledger
        BY <3>3 DEF ResolveReview
      <4>2. runs[supervisor].card \in Card
        BY <3>3, RunType, Contexts DEF ResolveReview, Live
      <4>3. Close(other) => IsPending(id) /\ pending'[id] = pending[id]
        BY <2>1, RemoveLemma, Contexts DEF Close
      <4>4. UNCHANGED ledger => IsPending(id) /\ pending'[id] = pending[id]
        BY <2>1 DEF ledger, IsPending
      <4> QED
        BY <2>1, <4>1, <4>2, <4>3, <4>4, ResolveLemma, Contexts
    <3> QED
      BY <1>1, <3>1, <3>2, <3>3, NewsSteps, Contexts
  <2>2. batch' # None => batch' = batch /\ turn'.agent = turn.agent
    BY <1>1, <1>5 DEF DeliveryInv, DeliveryTypeOK
  <2> QED
    BY <2>1, <2>2, NoneWaitsStays DEF DeliveryInv
<1> QED
  BY <1>2, <1>3, <1>4, <1>6, <1>7, <1>8 DEF DeliveryInv

LEMMA CrashInv ==
  ASSUME DeliveryInv, HostCrash
  PROVE  DeliveryInv'
<1>1. /\ [Next]_all /\ batch' = None /\ turn' = None /\ UNCHANGED <<issued, marks>>
      /\ bodies' = [n \in Name |-> None] /\ fence' = [p \in Principal |-> {}]
      /\ uncertain' = Uncertain /\ mounts' = {}
  BY DEF HostCrash, Crash, Restart, Next
<1>2. SharedInv'
  BY <1>1, NextShared DEF DeliveryInv
<1>3. FenceInv'
  BY CrashFence, Contexts
<1>4. BodiesInv'
  BY <1>1 DEF BodiesInv, BodiesAreMounts, BodiesIssued
<1>5. uncertain' \in SUBSET (Session \X Event)
  BY <1>1, InFlight, Contexts DEF Uncertain, DeliveryInv, DeliveryTypeOK
<1>6. DeliveryTypeOK'
  BY <1>1, <1>5 DEF DeliveryInv, DeliveryTypeOK
<1> QED
  BY <1>1, <1>2, <1>3, <1>4, <1>6 DEF DeliveryInv, BatchHasBody, RunningNoted, NoneWaits

LEMMA StartInv == DeliveryInit => DeliveryInv
<1> SUFFICES ASSUME DeliveryInit PROVE DeliveryInv
  OBVIOUS
<1>1. Init
  BY DEF DeliveryInit
<1>2. ControlInv
  BY <1>1, InitInv
<1>3. FinishInv
  BY <1>1 DEF Init, LifecycleInit, FinishInv, SessionsOwned, PendingFinishHolds, EndedAreClosing,
    FinishAccountsForReviews, Seated, Live
<1>4. SharedInv
  BY <1>2, <1>3 DEF ControlInv, SharedInv
<1>5. mounts = {} /\ turn = None /\ \A p \in Principal : ~Active(p)
  BY <1>1 DEF Init, LifecycleInit, LedgerInit, Active
<1>6. DeliveryTypeOK
  BY <1>5 DEF DeliveryInit, DeliveryTypeOK
<1>7. FenceInv
  BY <1>5 DEF DeliveryInit, FenceInv, EngagedInv, FenceHolds, BatchIsMarked
<1>8. BodiesInv
  BY <1>5 DEF DeliveryInit, BodiesInv, BodiesAreMounts, BodiesIssued
<1> QED
  BY <1>4, <1>6, <1>7, <1>8 DEF DeliveryInit, DeliveryInv, BatchHasBody, RunningNoted, NoneWaits

LEMMA StutterInv ==
  ASSUME DeliveryInv, UNCHANGED everything
  PROVE  DeliveryInv'
<1>1. /\ UNCHANGED <<instances, runs, turn, engaged, mounts, pending>> /\ UNCHANGED all
      /\ UNCHANGED <<bodies, issued, marks, fence, batch, uncertain>>
  BY DEF everything, all, vars, ledger, core, deliveries
<1>2. SharedInv'
  BY <1>1, NextShared DEF DeliveryInv
<1>3. FenceInv'
  BY <1>1, MoveFence, Contexts
<1>4. BodiesInv' /\ DeliveryTypeOK'
  BY <1>1, BodiesKept DEF DeliveryInv, DeliveryTypeOK
<1>5. NoneWaits'
  BY <1>1, NoneWaitsStays DEF DeliveryInv, IsPending
<1> QED
  BY <1>1, <1>2, <1>3, <1>4, <1>5 DEF DeliveryInv, BatchHasBody, RunningNoted

LEMMA DeliveryNextInv == DeliveryInv /\ [DeliveryNext]_everything => DeliveryInv'
BY MountInv, DeliverInv, ElsewhereInv, CrashInv, StutterInv DEF DeliveryNext

\* The invariant of deliveries holds, for any bodies, routes and failures.
THEOREM DeliveryInvariance == DeliverySpec => []DeliveryInv
BY StartInv, DeliveryNextInv, PTL DEF DeliverySpec

\* A batch that ran a body and did not settle is never run again, the table of bodies
\* is what the ledger calls mounted, and every body a batch leaves behind has its line.
\* (dispatch, offer, drop_body)
THEOREM DeliveryIsSafe == DeliverySpec => []DeliverySafe
<1>1. DeliveryInv => DeliverySafe
  <2>1. FenceInv => UncertainStaysFenced
    BY DEF FenceInv, BatchIsMarked, UncertainStaysFenced
  <2>2. RunningNoted => EverythingNoted
    BY DEF RunningNoted, EverythingNoted
  <2> QED
    BY <2>1, <2>2 DEF DeliveryInv, BodiesInv, DeliverySafe
<1> QED
  BY <1>1, DeliveryInvariance, PTL

\* A reply is noted and handed over only under the grant its body was asked under.
\* (check_delivery_current)
THEOREM RepliesCurrent == DeliverySpec => RepliesAreCurrent
<1> DEFINE Answered(m) ==
             batch # None /\ batch' # None /\
             (\/ <<m, "reply">> \in batch'.noted \ batch.noted
              \/ m \in batch'.ready \ batch.ready)
           Fine(m) == /\ generation[RegisterKind] = batch.registration
                      /\ LiveRef(batch.instance) /\ batch.instance.principal = turn.agent
                      /\ m \in mounts
<1>1. ASSUME DeliveryInv, [DeliveryNext]_everything, NEW m \in MountId, Answered(m) PROVE Fine(m)
  <2>1. batch' # batch /\ batch # None /\ batch' # None
    BY <1>1
  <2>2. UNCHANGED everything \/ Elsewhere \/ HostCrash => FALSE
    BY <2>1 DEF everything, deliveries, Elsewhere, HostCrash
  <2>3. ASSUME NEW n \in Name PROVE ~UnmountSpool(n) /\ \A id \in MountId : ~MountSpool(n, id)
    BY <2>1 DEF UnmountSpool, MountSpool
  <2>4. Deliver
    BY <1>1, <2>2, <2>3 DEF DeliveryNext
  <2>5. GoesOn
    <3>1. ~RefuseDelivery /\ ~\E e \in Event, name \in Name \cup {None} : StartBatch(e, name)
      BY <1>1, <2>1 DEF RefuseDelivery, StartBatch, DeliveryInv, DeliveryTypeOK
    <3> QED
      BY <1>1, <2>1, <2>4, <3>1, DeliverMoves, Contexts DEF Ends
  <2>6. Granted /\ m = batch.body.instance
    BY <1>1, <2>5 DEF GoesOn, Answers
  <2> QED
    BY <1>1, <2>1, <2>6, Contexts DEF Granted, Registered, Mounted, BatchIsMarked
<1>2. DeliveryInv /\ [DeliveryNext]_everything => [\A m \in MountId : Answered(m) => Fine(m)]_everything
  BY <1>1
<1> QED
  BY <1>2, DeliveryInvariance, PTL DEF RepliesAreCurrent, DeliverySpec

\* A failing body takes itself off its names and nothing else. (drop_body)
THEOREM FailuresDropThemselves == DeliverySpec => FailureDropsOnlyItself
<1> DEFINE Drops ==
             batch # None /\ batch' # batch /\ runs'[turn.agent] # None =>
               \A n \in Name : bodies'[n] # bodies[n] => bodies[n].instance = batch.body.instance
<1>1. ASSUME DeliveryInv, [DeliveryNext]_everything PROVE Drops
  <2>1. CASE Deliver
    <3>1. CASE BodyFails
      BY <1>1, <3>1 DEF BodyFails, Without
    <3>2. CASE ~BodyFails
      BY <2>1, <3>2 DEF Deliver, RefuseDelivery, StartBatch, LookUp, Authorize, Denied, EnterBody,
        Publish, Abandon, BodyAsks, AfterHooks, Settle
    <3> QED
      BY <3>1, <3>2
  <2>2. CASE UNCHANGED everything \/ Elsewhere
    BY <2>2 DEF everything, deliveries, Elsewhere
  <2>3. CASE HostCrash
    <3>1. batch # None => turn.agent \in Principal
      BY <1>1, InFlight, Contexts DEF DeliveryInv
    <3> QED
      BY <2>3, <3>1 DEF HostCrash, Crash
  <2>4. ASSUME NEW n \in Name, UnmountSpool(n) \/ \E m \in MountId : MountSpool(n, m) PROVE Drops
    BY <2>4 DEF UnmountSpool, MountSpool
  <2> QED
    BY <1>1, <2>1, <2>2, <2>3, <2>4 DEF DeliveryNext
<1> QED
  BY <1>1, DeliveryInvariance, PTL DEF FailureDropsOnlyItself, DeliverySpec

\* A body that a review stopped is not entered for that agent while the review waits,
\* under no registration and in no scope. (waiting_review)
THEOREM StoppedRest == DeliverySpec => StoppedBodiesRest
<1> DEFINE Rests ==
             batch # None /\ batch' # None /\ batch'.ran # batch.ran =>
               Waiting(Scope(turn.agent, batch.body.instance), Head(batch.route), FALSE) = {}
<1>1. ASSUME DeliveryInv, [DeliveryNext]_everything PROVE Rests
  <2>1. SUFFICES ASSUME batch # None, batch' # None, batch'.ran # batch.ran PROVE Rests
    OBVIOUS
  <2>2. ~(UNCHANGED everything \/ Elsewhere \/ HostCrash)
    BY <2>1 DEF everything, deliveries, Elsewhere, HostCrash
  <2>3. ASSUME NEW n \in Name PROVE ~UnmountSpool(n) /\ \A id \in MountId : ~MountSpool(n, id)
    BY <2>1 DEF UnmountSpool, MountSpool
  <2>4. Deliver
    BY <1>1, <2>2, <2>3 DEF DeliveryNext
  <2>5. ~RefuseDelivery /\ ~\E e \in Event, name \in Name \cup {None} : StartBatch(e, name)
    BY <1>1, <2>1 DEF RefuseDelivery, StartBatch, DeliveryInv, DeliveryTypeOK
  <2>6. GoesOn
    BY <1>1, <2>1, <2>4, <2>5, DeliverMoves, Contexts DEF Ends
  <2>7. batch.step = "granted" /\ Granted /\ NoneWaits
    BY <1>1, <2>1, <2>6 DEF GoesOn, DeliveryInv
  <2>8. ASSUME NEW id \in Waiting(Scope(turn.agent, batch.body.instance), Head(batch.route), FALSE)
        PROVE  FALSE
    <3>1. /\ id \in ReviewId /\ IsPending(id) /\ pending[id].call = None
          /\ pending[id].request.scope = Scope(turn.agent, batch.body.instance)
          /\ pending[id].request.subject = Head(batch.route)
      BY <2>8 DEF Waiting
    <3>2. pending[id].request.scope.mount = batch.body.instance
      BY <3>1 DEF Scope
    <3>3. pending[id].request.child = turn.agent
      <4>1. pending[id].request.child = instances[turn.agent].ref.principal
        BY <1>1, <3>1, Contexts DEF PendingCurrent, Scope
      <4>2. Active(turn.agent)
        BY <1>1, <2>1, <2>7, Contexts DEF BatchIsMarked, Granted, LiveRef
      <4> QED
        BY <1>1, <2>1, <4>1, <4>2, InFlight, Contexts DEF DeliveryInv, LedgerTypeOK, Active
    <3> QED
      BY <2>1, <2>7, <3>1, <3>2, <3>3 DEF NoneWaits, AboutBody
  <2> QED
    BY <2>8
<1> QED
  BY <1>1, DeliveryInvariance, PTL DEF StoppedBodiesRest, DeliverySpec
=============================================================================

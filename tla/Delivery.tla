------------------------------- MODULE Delivery -------------------------------
(***************************************************************************)
(* Delivering workspace events to mounted bodies: offer and dispatch of    *)
(* AgentControl, the batch that makes an event's effects accountable, and  *)
(* the fence that keeps an uncertain batch from being run again.           *)
(*                                                                         *)
(* A delivery is a beat: it holds the pool's only turn from its first      *)
(* check to its last line, and the supervision lock only for single        *)
(* checks.  Between two of its actions the host may mount and unmount,     *)
(* register, cancel, answer reviews, or die.  Bodies and hooks answer what *)
(* they want.  An append to the agent's own tape, which nobody else        *)
(* writes, is part of the action before it.                                *)
(***************************************************************************)
EXTENDS ToolReview

CONSTANTS
  Name,          \* names bodies are mounted under
  Event,         \* workspace events; a route is kept for each
  RegisterKind,  \* the fact kind of the current registration
  Route          \* registration -> event it lists -> names on its route

ASSUME RegisterAssumption == RegisterKind \in FactKind
ASSUME NameAssumption == Name \subseteq Subject /\ None \notin Name
ASSUME RouteAssumption ==
  \A g \in Revision : DOMAIN Route[g] \subseteq Event /\ \A e \in DOMAIN Route[g] : Route[g][e] \in Seq(Name)

VARIABLES
  bodies,    \* name -> the body mounted under it, or None
  issued,    \* mount ids drawn so far
  marks,     \* session -> event -> its last delivery_batch line, or None
  fence,     \* principal -> its failed_deliveries
  batch,     \* progress of the delivery in flight, or None
  uncertain  \* <<session, event>> of the batches that ran a body and did not
             \* settle (no program state)

deliveries == <<bodies, issued, marks, fence, batch, uncertain>>
everything == <<all, deliveries>>

Body == [instance : MountId, consumes : SUBSET Event]
Mark == [status : {"started", "settled"}, instance : InstanceRef]

\* body is the one found for the head of route.  ran, noted and ready are the
\* bodies entered, the notes about them and the replies admitted; of these the
\* program keeps ready.
Batch == [event : Event, selected : BOOLEAN, instance : InstanceRef, registration : Revision,
          route : Seq(Name), body : Body \cup {None},
          step : {"next", "found", "denied", "granted", "running", "published"},
          ran : SUBSET MountId, noted : SUBSET (MountId \X {"reply", "error", "review"}),
          ready : SUBSET MountId]

ASSUME NoneDeliveryAssumption == None \notin Body /\ None \notin Mark /\ None \notin Batch

DeliveryTypeOK ==
  /\ bodies \in [Name -> Body \cup {None}]
  /\ issued \in SUBSET MountId
  /\ marks \in [Session -> [Event -> Mark \cup {None}]]
  /\ fence \in [Principal -> SUBSET Event]
  /\ batch \in Batch \cup {None}
  /\ batch # None <=> turn # None /\ turn.step = "delivering"
  /\ uncertain \in SUBSET (Session \X Event)

----------------------------------------------------------------------------
(* Mounting *)

Registered == generation[RegisterKind]

OnRoute(g, e, n) == e \in DOMAIN Route[g] /\ \E i \in DOMAIN Route[g][e] : Route[g][e][i] = n

\* match_declaration is mutual: the body consumes what is routed to its name,
\* no more and no less.
MountSpool(n, m) ==
  /\ bodies[n] = None
  /\ m \notin issued
  /\ issued' = issued \cup {m}
  /\ bodies' = [bodies EXCEPT ![n] = [instance |-> m,
                                      consumes |-> {e \in Event : OnRoute(Registered, e, n)}]]
  /\ Mount(m)
  /\ UNCHANGED <<core, workspace, marks, fence, batch, uncertain>>

UnmountSpool(n) ==
  /\ bodies[n] # None
  /\ bodies' = [bodies EXCEPT ![n] = None]
  /\ Closures(OnMount(bodies[n].instance))
  /\ Unmount(bodies[n].instance)
  /\ UNCHANGED <<runs, turn, sessions, engaged, workspace, issued, marks, fence, batch, uncertain>>

----------------------------------------------------------------------------
(* A batch *)

Tape == runs[turn.agent].session
NextSpool == [batch EXCEPT !.step = "next", !.route = Tail(@), !.body = None]

\* The end of a batch, and of the beat.
Leave == turn' = None /\ batch' = None
Uncertain ==
  uncertain \cup IF batch # None /\ batch.ran # {} THEN {<<Tape, batch.event>>} ELSE {}

\* Any error that leaves progress behind fences the event in this process.
Interrupt ==
  /\ Leave
  /\ fence' = [fence EXCEPT ![turn.agent] = @ \cup {batch.event}]
  /\ uncertain' = Uncertain

Continue(b) == batch' = b /\ UNCHANGED <<turn, fence, uncertain>>

\* Mutant: a settled batch may be repeated by any engagement.
FencedInProcess(s, e, instance) ==
  \/ e \in fence[instance.principal]
  \/ marks[s][e] # None /\ marks[s][e].status # "settled"

\* An event may be delivered again only by the engagement that settled it.
Fenced(s, e, instance) ==
  \/ e \in fence[instance.principal]
  \/ /\ marks[s][e] # None
     /\ marks[s][e].status # "settled" \/ marks[s][e].instance # instance

Marked(e, status, instance) ==
  [marks EXCEPT ![Tape] = [@ EXCEPT ![e] = [status |-> status, instance |-> instance]]]

\* The before chain denies, or a check before the first line fails.
RefuseDelivery ==
  /\ turn # None /\ turn.step = "begun" /\ turn.call = None
  /\ turn' = None
  /\ UNCHANGED <<ledger, evidence, failures, bodies, marks, fence, batch, uncertain>>

\* offer names a body, dispatch takes the route; both of one registration,
\* whatever is registered later.
StartBatch(e, name) ==
  LET p == turn.agent
      instance == instances[p].ref
  IN
  /\ turn # None /\ turn.step = "begun" /\ turn.call = None
  /\ Active(p) /\ ~Fenced(Tape, e, instance)
  /\ Registered # 0
  /\ name = None => e \in DOMAIN Route[Registered]
  /\ \/ /\ marks' = Marked(e, "started", instance)
        /\ batch' = [event |-> e, selected |-> name # None, instance |-> instance,
                     registration |-> Registered,
                     route |-> IF name = None THEN Route[Registered][e] ELSE <<name>>,
                     body |-> None, step |-> "next", ran |-> {}, noted |-> {}, ready |-> {}]
        /\ turn' = [turn EXCEPT !.step = "delivering"]
        /\ UNCHANGED failures
     \/ /\ AppendFails
        /\ marks' \in {marks, Marked(e, "started", instance)}
        /\ turn' = None
        /\ UNCHANGED batch
  /\ UNCHANGED <<ledger, evidence, bodies, fence, uncertain>>

\* A body that is not there is noted and skipped by dispatch, an error of offer.
LookUp ==
  /\ batch # None /\ batch.step = "next" /\ batch.route # <<>>
  /\ LET body == bodies[Head(batch.route)] IN
     \/ body # None /\ Continue([batch EXCEPT !.step = "found", !.body = body]) /\ UNCHANGED failures
     \/ body = None /\ Continue(NextSpool) /\ UNCHANGED failures
     \/ body = None /\ ~batch.selected /\ AppendFails /\ Interrupt
  /\ UNCHANGED <<ledger, evidence, bodies, marks>>

\* Both claims, the body's and the route of the batch's registration.
Covered ==
  /\ batch.event \in batch.body.consumes
  /\ OnRoute(batch.registration, batch.event, Head(batch.route))

\* Mutant: a review that waits does not stop the body.
AuthorizeRegardless ==
  LET m == batch.body.instance IN
  /\ batch # None /\ batch.step = "found"
  /\ \/ /\ InScope(turn.agent, m)
        /\ Continue([batch EXCEPT !.step = IF Covered THEN "granted" ELSE "denied"])
        /\ UNCHANGED failures
     \/ ~InScope(turn.agent, m) /\ Interrupt /\ UNCHANGED failures
  /\ UNCHANGED <<ledger, evidence, bodies, marks>>

\* waiting_review, then authorize_delivery and its line.
Authorize ==
  LET p == turn.agent
      m == batch.body.instance
      waiting == Waiting(Scope(p, m), Head(batch.route), FALSE)
  IN
  /\ batch # None /\ batch.step = "found"
  /\ \/ ~InScope(p, m) /\ Interrupt /\ UNCHANGED failures
     \/ InScope(p, m) /\ waiting # {} /\ Continue(NextSpool) /\ UNCHANGED failures
     \/ /\ InScope(p, m) /\ waiting = {}
        /\ Continue([batch EXCEPT !.step = IF Covered THEN "granted" ELSE "denied"])
        /\ UNCHANGED failures
     \/ InScope(p, m) /\ waiting = {} /\ AppendFails /\ Interrupt
  /\ UNCHANGED <<ledger, evidence, bodies, marks>>

\* check_delivery_current.
Granted ==
  /\ Registered = batch.registration
  /\ LiveRef(batch.instance)
  /\ Mounted(batch.body.instance)

Noted(what) == [batch EXCEPT !.noted = @ \cup {<<batch.body.instance, what>>}]
NextNoted(what) == [NextSpool EXCEPT !.noted = Noted(what).noted]

\* request_review about the body, under the lock.  Nobody else asks for one:
\* whoever does holds the turn.
AskAboutBody(cause) ==
  \/ /\ Granted
     /\ \E id \in ReviewId, ok \in BOOLEAN :
          /\ RetainReview(turn.agent, batch.body.instance, Head(batch.route), cause, None, id, ok)
          /\ IF ok THEN Continue(NextNoted("review")) ELSE Interrupt
  \/ ~Granted /\ Interrupt /\ UNCHANGED <<ledger, evidence, failures>>

Denied ==
  /\ batch # None /\ batch.step = "denied"
  /\ AskAboutBody("permission_denied")
  /\ UNCHANGED <<bodies, marks>>

EnterBody ==
  /\ batch # None /\ batch.step = "granted"
  /\ \/ Granted /\ Continue([batch EXCEPT !.step = "running", !.ran = @ \cup {batch.body.instance}])
     \/ ~Granted /\ Interrupt
  /\ UNCHANGED <<ledger, evidence, failures, bodies, marks>>

----------------------------------------------------------------------------
(* What a body answers *)

\* Mutant: the answer is published under the grant the body was entered with.
PublishUnchecked ==
  /\ batch # None /\ batch.step = "running"
  /\ \/ Continue([Noted("reply") EXCEPT !.step = "published"]) /\ UNCHANGED failures
     \/ AppendFails /\ Interrupt
  /\ UNCHANGED <<ledger, evidence, bodies, marks>>

\* A reply still has to pass the after chain, the halt of an agent body not.
\* The note, or a denied intent after it, may fail.
Publish ==
  /\ batch # None /\ batch.step = "running"
  /\ Granted
  /\ \/ Continue([Noted("reply") EXCEPT !.step = "published"]) /\ UNCHANGED failures
     \/ Continue(NextNoted("reply")) /\ UNCHANGED failures
     \/ AppendFails /\ Interrupt
  /\ UNCHANGED <<ledger, evidence, bodies, marks>>

\* The grant is stale, or a model call failed.
Abandon ==
  /\ batch # None /\ batch.step = "running"
  /\ Interrupt
  /\ UNCHANGED <<ledger, evidence, failures, bodies, marks>>

\* An agent body asks for a review and stops.
BodyAsks ==
  /\ batch # None /\ batch.step = "running"
  /\ AskAboutBody("high_risk")
  /\ UNCHANGED <<bodies, marks>>

\* Mutant: whatever is mounted under the name is dropped.
WithoutName(m) == [bodies EXCEPT ![Head(batch.route)] = None]

Without(m) ==
  [n \in Name |-> IF bodies[n] # None /\ bodies[n].instance = m THEN None ELSE bodies[n]]

\* drop_body and the note: the body that failed is unmounted, nothing else.
BodyFails ==
  LET m == batch.body.instance
      closures == OnSeatedTapes(PartyLines(OnMount(m)))
  IN
  /\ batch # None /\ batch.step = "running"
  /\ bodies' = Without(m)
  /\ \/ RecordClosures(closures, TRUE) /\ Continue(NextNoted("error"))
     \/ RecordClosures(closures, FALSE) /\ Interrupt
     \/ AppendFails /\ evidence' = evidence \cup closures /\ Interrupt
  /\ Unmount(m)
  /\ UNCHANGED marks

\* The after chain.  A denied reply is skipped by dispatch and ends an offer,
\* withheld; a reply that went stale is withheld too.
AfterHooks ==
  /\ batch # None /\ batch.step = "published"
  /\ \/ /\ Granted
        /\ Continue([NextSpool EXCEPT !.ready = @ \cup {batch.body.instance}])
        /\ UNCHANGED failures
     \/ ~batch.selected /\ Continue(NextSpool) /\ UNCHANGED failures
     \/ (batch.selected \/ ~Granted) /\ Interrupt /\ UNCHANGED failures
     \/ AppendFails /\ Interrupt
  /\ UNCHANGED <<ledger, evidence, bodies, marks>>

\* The sync of the settled line may fail with the line on the tape.
Settle ==
  LET settled == Marked(batch.event, "settled", batch.instance) IN
  /\ batch # None /\ batch.step = "next" /\ batch.route = <<>>
  /\ \/ /\ marks' = settled
        /\ Leave
        /\ UNCHANGED <<fence, uncertain, failures>>
     \/ /\ AppendFails
        /\ marks' \in {marks, settled}
        /\ Interrupt
  /\ UNCHANGED <<ledger, evidence, bodies>>

Deliver ==
  /\ \/ RefuseDelivery
     \/ \E e \in Event, name \in Name \cup {None} : StartBatch(e, name)
     \/ LookUp \/ Authorize \/ Denied \/ EnterBody
     \/ Publish \/ Abandon \/ BodyAsks \/ BodyFails
     \/ AfterHooks \/ Settle
  /\ UNCHANGED <<runs, sessions, engaged, workspace, issued>>

----------------------------------------------------------------------------

DeliveryInit ==
  /\ Init
  /\ bodies = [n \in Name |-> None]
  /\ issued = {}
  /\ marks = [s \in Session |-> [e \in Event |-> None]]
  /\ fence = [p \in Principal |-> {}]
  /\ batch = None
  /\ uncertain = {}

\* The rest of the control plane, whose threads never touch a batch.  The fence
\* is part of the run state of an agent.
Elsewhere ==
  /\ Operation
  /\ fence' = [p \in Principal |-> IF Seated(p) /\ Seated(p)' THEN fence[p] ELSE {}]
  /\ UNCHANGED <<bodies, issued, marks, batch, uncertain>>

\* Of the deliveries the tapes remain.
HostCrash ==
  /\ Crash
  /\ bodies' = [n \in Name |-> None]
  /\ fence' = [p \in Principal |-> {}]
  /\ batch' = None
  /\ uncertain' = Uncertain
  /\ UNCHANGED <<workspace, issued, marks>>

DeliveryNext ==
  \/ \E n \in Name : UnmountSpool(n) \/ \E m \in MountId : MountSpool(n, m)
  \/ Deliver
  \/ Elsewhere
  \/ HostCrash

DeliverySpec == DeliveryInit /\ [][DeliveryNext]_everything

\* The thread of the beat runs on.  That tools, bodies, hooks and models answer
\* is an assumption about the host.
Beat ==
  \/ Deliver
  \/ (Advance \/ CancelReceiver \/ EndRun) /\ UNCHANGED <<workspace, deliveries>>
  \/ ReviewTool /\ UNCHANGED deliveries

FairDelivery == DeliverySpec /\ WF_everything(Beat)

----------------------------------------------------------------------------
(* Properties *)

\* No body is run for an event of a session again after a batch of that event
\* ran a body and did not settle: not by a retry, nor after a settled line whose
\* sync failed, a restart or a resumption.
UncertainStaysFenced ==
  batch # None /\ batch.ran # {} => <<Tape, batch.event>> \notin uncertain

\* The table of bodies and the ledger agree on what is mounted: what a failed
\* body, an unmount or a remount leaves is authority for nothing else.
BodiesAreMounts == mounts = {bodies[n].instance : n \in {x \in Name : bodies[x] # None}}

\* Whenever a batch goes on, and so when it settles, every body it ran has a
\* line on the tape that says what became of it.
EverythingNoted ==
  batch # None /\ batch.step # "running" =>
    \A m \in batch.ran : \E what \in {"reply", "error", "review"} : <<m, what>> \in batch.noted

\* What a batch leaves behind when it is cut: the fence, the mounts and the notes.
DeliverySafe == UncertainStaysFenced /\ BodiesAreMounts /\ EverythingNoted

\* What a body says is put on the tape, and handed to the host, only while the
\* registration, the mount and the engagement it was asked under are current.
RepliesAreCurrent ==
  [][\A m \in MountId :
       batch # None /\ batch' # None /\
       (\/ <<m, "reply">> \in batch'.noted \ batch.noted
        \/ m \in batch'.ready \ batch.ready) =>
         /\ generation[RegisterKind] = batch.registration
         /\ LiveRef(batch.instance) /\ batch.instance.principal = turn.agent
         /\ m \in mounts]_everything

\* A failing body unmounts itself and not what was mounted under its name in
\* the meantime.
FailureDropsOnlyItself ==
  [][batch # None /\ batch' # batch /\ runs'[turn.agent] # None =>
       \A n \in Name : bodies'[n] # bodies[n] => bodies[n].instance = batch.body.instance]_everything

\* A body that was stopped by a review is not entered for that agent while the
\* review waits, whoever asked for it and whatever is registered since.
StoppedBodiesRest ==
  [][batch # None /\ batch' # None /\ batch'.ran # batch.ran =>
       Waiting(Scope(turn.agent, batch.body.instance), Head(batch.route), FALSE) = {}]_everything

\* The only slot is always given back, so that no beat keeps every other agent
\* from working: whatever is mounted, registered, revoked or failing meanwhile,
\* a delivery comes to its end, and so does a run, whatever review_tool finds.
\* (A bounded instance may have no review id left for it; uuids do not run out.)
SlotIsFreed ==
  turn # None ~> turn = None \/ ((\A id \in ReviewId : ~FreshId(id)) /\ ~ENABLED Beat)
=============================================================================

------------------------------ MODULE EventsProofs ------------------------------
(***************************************************************************)
(* Proofs about the event workspace of native spools: first its log and    *)
(* deliveries, for any number of facts, subscriptions, successors, pauses  *)
(* and failures; then its dispatches and cohorts, for any number of them,  *)
(* of entries, controls, killed processes and failing writes.              *)
(***************************************************************************)
EXTENDS NativeEvents, Dispatch, SequenceTheorems, FiniteSetTheorems, TLAPS

(* --------------------------- the log, deliveries -------------------------- *)

\* What the receiver may be in.
CustodyTyped ==
  /\ round \in {"open", "closed", "unloaded"}
  /\ custody \in [Delivery -> {"free", "held", "void", "failed", "succeeded", "accepted"}]

\* Only a run that ended is accepted or reclaimed, and its output goes when it was accepted.
JobFits(d) ==
  /\ job[d].accept # "no" => custody[d] \in {"succeeded", "accepted"}
  /\ job[d].scratch # "kept" => custody[d] \in {"failed", "succeeded", "accepted"}
  /\ job[d].output # "kept" => Accepted(d)
JobsFit == \A d \in Delivery : JobFits(d)

ControlsBounded == \A n \in Name : Control(n) <= MaxControl

\* A registered name has a route, and where it replaces one its cutover is in the log.
RoutesTyped ==
  \A n \in Name : Registered(n) =>
    /\ routes[n] \in Route
    /\ routes[n].replaces # None => routes[n].cutover + 1 \in DOMAIN log

\* Only controls repeat.
RecordsOnce ==
  \A i, j \in DOMAIN log : log[i] = log[j] => i = j \/ \E n \in Name : log[i] = <<"control", n>>

\* The result of a delivery is logged behind the fact that caused it.
ResultsCaused ==
  \A f \in Fact, n \in Name, j \in DOMAIN log : log[j] = <<"event", <<f, n>>>> =>
    \E i \in DOMAIN log : i < j /\ log[i] = <<"event", f>>

\* What was admitted is routed for good, and an attempt that was never admitted is free.
AdmittedRouted == \A f \in Fact, n \in Name : Admitted(f, n) => Routed(f, n)
UnadmittedFree == \A d \in Delivery : deliveries[d].intent = "none" => custody[d] = "free"

\* Whoever is replaced admitted only what was logged before the cutover.
AdmittedBefore ==
  \A f \in Fact, m, n \in Name :
    Admitted(f, m) /\ Registered(n) /\ routes[n].replaces = m =>
      \E i \in 1..routes[n].cutover : log[i] = <<"event", f>>

\* The strengthening that every step preserves: the cutovers of a lineage cut the log
\* into windows, and each name admits only from its own.
EventsInv ==
  /\ EventsSafe /\ CustodyTyped /\ JobsFit /\ ControlsBounded
  /\ RoutesTyped /\ RecordsOnce /\ ResultsCaused
  /\ AdmittedRouted /\ UnadmittedFree /\ AdmittedBefore

----------------------------------------------------------------------------
(* Lemmas about the operators *)

\* The log grows by one record and keeps the others in their places.
LEMMA AppendRecord ==
  ASSUME TypeOK, NEW r \in Record, log' = Append(log, r)
  PROVE  /\ log' \in Seq(Record) /\ Len(log) \in Nat /\ Len(log') = Len(log) + 1
         /\ DOMAIN log = 1..Len(log) /\ DOMAIN log' = DOMAIN log \cup {Len(log) + 1}
         /\ Len(log) + 1 \notin DOMAIN log /\ log'[Len(log) + 1] = r
         /\ \A i \in DOMAIN log : log'[i] = log[i]
<1>1. log \in Seq(Record) /\ Len(log) \in Nat /\ DOMAIN log = 1..Len(log)
  BY LenProperties DEF TypeOK
<1>2. /\ log' \in Seq(Record) /\ Len(log') = Len(log) + 1
      /\ \A i \in 1..Len(log) : log'[i] = log[i]
      /\ log'[Len(log) + 1] = r
  BY <1>1, AppendProperties
<1>3. DOMAIN log' = 1..(Len(log) + 1)
  BY <1>1, <1>2, LenProperties
<1> QED
  BY <1>1, <1>2, <1>3

\* The controls of a name are a finite set of positions.
LEMMA ControlType ==
  ASSUME log \in Seq(Record), NEW n \in Name
  PROVE  /\ IsFiniteSet({i \in DOMAIN log : log[i] = <<"control", n>>})
         /\ Control(n) \in Nat
<1>1. Len(log) \in Nat /\ DOMAIN log = 1..Len(log)
  BY LenProperties
<1>2. IsFiniteSet(DOMAIN log)
  BY <1>1, FS_Interval
<1>3. IsFiniteSet({i \in DOMAIN log : log[i] = <<"control", n>>})
  BY <1>2, FS_Subset
<1> QED
  BY <1>3, FS_CardinalityType DEF Control

\* A control counts for its own name, any other record for none.
LEMMA ControlCounts ==
  ASSUME TypeOK, NEW r \in Record, log' = Append(log, r), NEW n \in Name
  PROVE  Control(n)' = IF r = <<"control", n>> THEN Control(n) + 1 ELSE Control(n)
<1> DEFINE at == {i \in DOMAIN log : log[i] = <<"control", n>>}
<1>1. IsFiniteSet(at) /\ Control(n) = Cardinality(at)
  BY ControlType DEF TypeOK, Control
<1>2. Len(log) + 1 \notin at
  BY AppendRecord
<1>3. Control(n)' = Cardinality({i \in DOMAIN log' : log'[i] = <<"control", n>>})
  BY DEF Control
<1>4. CASE r = <<"control", n>>
  <2>1. {i \in DOMAIN log' : log'[i] = <<"control", n>>} = at \cup {Len(log) + 1}
    BY <1>4, AppendRecord
  <2>2. Control(n)' = Cardinality(at \cup {Len(log) + 1})
    BY <1>3, <2>1
  <2> HIDE DEF at
  <2>3. Cardinality(at \cup {Len(log) + 1}) = Cardinality(at) + 1
    BY <1>1, <1>2, FS_AddElement
  <2> QED
    BY <1>1, <1>4, <2>2, <2>3
<1>5. CASE r # <<"control", n>>
  <2>1. {i \in DOMAIN log' : log'[i] = <<"control", n>>} = at
    BY <1>5, AppendRecord
  <2> QED
    BY <1>1, <1>3, <1>5, <2>1
<1> QED
  BY <1>4, <1>5

\* What is logged stays logged, and a name is registered by its own record only.
LEMMA LoggedGrows ==
  ASSUME TypeOK, NEW r \in Record, log' = Append(log, r), NEW record
  PROVE  Logged(record)' <=> Logged(record) \/ record = r
BY AppendRecord DEF Logged

\* The first record of an event is the only one.
LEMMA EventOnce ==
  ASSUME TypeOK, RecordsOnce, NEW e, NEW i \in DOMAIN log, NEW j \in DOMAIN log,
         log[i] = <<"event", e>>, log[j] = <<"event", e>>
  PROVE  i = j
BY DEF RecordsOnce

LEMMA RouteOnce ==
  ASSUME TypeOK, RecordsOnce, NEW n, NEW i \in DOMAIN log, NEW j \in DOMAIN log,
         log[i] = <<"route", n>>, log[j] = <<"route", n>>
  PROVE  i = j
BY DEF RecordsOnce

----------------------------------------------------------------------------
(* What a longer log keeps *)

\* A record that may be appended: a control, or one that is not logged and, if it is
\* a result, comes behind its cause.
Fits(r) ==
  /\ (\E n \in Name : r = <<"control", n>>) \/ ~Logged(r)
  /\ \A f \in Fact, n \in Name : r = <<"event", <<f, n>>>> => Logged(<<"event", f>>)

LogGrows == log' = log \/ \E r \in Record : Fits(r) /\ log' = Append(log, r)

\* No name is registered.
LogStays ==
  log' = log \/ \E r \in Record : /\ Fits(r) /\ log' = Append(log, r)
                                 /\ \A n \in Name : r # <<"route", n>>

\* The names that are registered, their routes and their successors stay.
LEMMA NamesStay ==
  ASSUME TypeOK, LogStays, routes' = routes
  PROVE  /\ log' \in Seq(Record)
         /\ \A i \in DOMAIN log : i \in DOMAIN log' /\ log'[i] = log[i]
         /\ \A record : Logged(record) => Logged(record)'
         /\ \A n \in Name : Registered(n)' <=> Registered(n)
         /\ \A n \in Name : RetiredBy(n)' = RetiredBy(n)
<1>1. CASE log' = log
  BY <1>1 DEF Logged, Registered, RetiredBy, TypeOK
<1>2. ASSUME NEW r \in Record, \A n \in Name : r # <<"route", n>>, log' = Append(log, r)
      PROVE  /\ log' \in Seq(Record)
             /\ \A i \in DOMAIN log : i \in DOMAIN log' /\ log'[i] = log[i]
             /\ \A record : Logged(record) => Logged(record)'
             /\ \A n \in Name : Registered(n)' <=> Registered(n)
  BY <1>2, AppendRecord, LoggedGrows DEF Registered
<1>3. (\A n \in Name : Registered(n)' <=> Registered(n)) => \A n \in Name : RetiredBy(n)' = RetiredBy(n)
  BY DEF RetiredBy
<1> QED
  BY <1>1, <1>2, <1>3 DEF LogStays

\* Routes and cutovers stay, and what is routed stays routed.
LEMMA RoutesKeep ==
  ASSUME EventsInv, LogStays, routes' = routes
  PROVE  /\ RoutesTyped' /\ RoutesStayValid'
         /\ \A f \in Fact, n \in Name : Routed(f, n) => Routed(f, n)'
<1>1. TypeOK /\ RoutesTyped /\ RoutesStayValid
  BY DEF EventsInv, EventsSafe
<1>2. log \in Seq(Record) /\ DOMAIN log = 1..Len(log) /\ Len(log) \in Nat
  BY <1>1, LenProperties DEF TypeOK
<1>3. RoutesTyped'
  BY <1>1, NamesStay DEF RoutesTyped
<1>4. ASSUME NEW n \in Name, Registered(n), routes[n].replaces # None
      PROVE  /\ routes[n].cutover \in Nat /\ routes[n].replaces \in Name
             /\ routes[n].cutover + 1 \in DOMAIN log
             /\ \A i \in 1..routes[n].cutover : i \in DOMAIN log
  BY <1>1, <1>2, <1>4 DEF RoutesTyped, Route
<1>5. RoutesStayValid'
  <2> SUFFICES ASSUME NEW n \in Name, Registered(n), routes[n].replaces # None
               PROVE  /\ log'[routes[n].cutover + 1] = <<"route", n>>
                      /\ \E i \in 1..routes[n].cutover : log'[i] = <<"route", routes[n].replaces>>
                      /\ RetiredBy(routes[n].replaces)' = {n}
    BY <1>1, NamesStay DEF RoutesStayValid
  <2> QED
    BY <1>1, <1>4, NamesStay DEF RoutesStayValid
<1>6. ASSUME NEW f \in Fact, NEW n \in Name, Routed(f, n)
      PROVE  Routed(f, n)'
  <2>1. Registered(n) /\ Registered(n)' /\ Logged(<<"event", f>>)'
    BY <1>1, <1>6, NamesStay DEF Routed
  <2>2. CASE routes[n].replaces = None
    BY <2>1, <2>2 DEF Routed, Eligible
  <2>3. CASE routes[n].replaces # None
    BY <1>1, <1>4, <1>6, <2>1, <2>3, NamesStay DEF Routed, Eligible
  <2> QED
    BY <2>2, <2>3
<1> QED
  BY <1>3, <1>5, <1>6

\* Only controls repeat, and results stay behind their causes.
LEMMA RecordsKeep ==
  ASSUME EventsInv, LogGrows
  PROVE  RecordsOnce' /\ ResultsCaused'
<1>1. TypeOK /\ RecordsOnce /\ ResultsCaused
  BY DEF EventsInv, EventsSafe
<1>2. CASE log' = log
  BY <1>1, <1>2 DEF RecordsOnce, ResultsCaused
<1>3. ASSUME NEW r \in Record, Fits(r), log' = Append(log, r)
      PROVE  RecordsOnce' /\ ResultsCaused'
  <2>1. /\ Len(log) \in Nat /\ DOMAIN log = 1..Len(log) /\ DOMAIN log' = DOMAIN log \cup {Len(log) + 1}
        /\ log'[Len(log) + 1] = r
        /\ \A i \in DOMAIN log : log'[i] = log[i]
    BY <1>1, <1>3, AppendRecord
  <2>2. RecordsOnce'
    <3> SUFFICES ASSUME NEW i \in DOMAIN log', NEW j \in DOMAIN log', log'[i] = log'[j]
                 PROVE  i = j \/ \E n \in Name : log'[i] = <<"control", n>>
      BY DEF RecordsOnce
    <3>1. CASE i \in DOMAIN log /\ j \in DOMAIN log
      BY <1>1, <2>1, <3>1 DEF RecordsOnce
    <3>2. CASE i = Len(log) + 1 /\ j = Len(log) + 1
      BY <3>2
    <3>3. CASE (i = Len(log) + 1 /\ j \in DOMAIN log) \/ (j = Len(log) + 1 /\ i \in DOMAIN log)
      <4>1. Logged(r) /\ log'[i] = r
        BY <2>1, <3>3 DEF Logged
      <4> QED
        BY <1>3, <4>1 DEF Fits
    <3> QED
      BY <2>1, <3>1, <3>2, <3>3
  <2>3. ResultsCaused'
    <3> SUFFICES ASSUME NEW f \in Fact, NEW n \in Name, NEW j \in DOMAIN log',
                        log'[j] = <<"event", <<f, n>>>>
                 PROVE  \E i \in DOMAIN log' : i < j /\ log'[i] = <<"event", f>>
      BY DEF ResultsCaused
    <3>1. CASE j \in DOMAIN log
      BY <1>1, <2>1, <3>1 DEF ResultsCaused
    <3>2. CASE j = Len(log) + 1
      <4>1. PICK i \in DOMAIN log : log[i] = <<"event", f>>
        BY <1>3, <2>1, <3>2 DEF Fits, Logged
      <4> QED
        BY <2>1, <3>2, <4>1
    <3> QED
      BY <2>1, <3>1, <3>2
  <2> QED
    BY <2>2, <2>3
<1> QED
  BY <1>2, <1>3 DEF LogGrows

\* Admission of the past stays before the cutovers, while no more is admitted.
LEMMA WindowsKeep ==
  ASSUME EventsInv, LogStays, routes' = routes,
         \A d \in Delivery : deliveries'[d].intent = deliveries[d].intent
  PROVE  AdmittedRouted' /\ AdmittedBefore'
<1>1. TypeOK /\ RoutesTyped /\ AdmittedRouted /\ AdmittedBefore
  BY DEF EventsInv, EventsSafe
<1>2. \A f \in Fact, n \in Name : Admitted(f, n)' <=> Admitted(f, n)
  BY DEF Admitted, Delivery
<1>3. AdmittedRouted'
  BY <1>1, <1>2, RoutesKeep DEF AdmittedRouted
<1>4. ASSUME NEW f \in Fact, NEW m \in Name, NEW n \in Name,
             Admitted(f, m), Registered(n), routes[n].replaces = m
      PROVE  \E i \in 1..routes[n].cutover : log'[i] = <<"event", f>>
  <2>1. PICK i \in 1..routes[n].cutover : log[i] = <<"event", f>>
    BY <1>1, <1>4 DEF AdmittedBefore
  <2>2. i \in DOMAIN log
    <3>1. routes[n].cutover + 1 \in DOMAIN log /\ routes[n].cutover \in Nat
      BY <1>1, <1>4, NoneAssumption DEF RoutesTyped, Route
    <3> QED
      BY <1>1, <3>1, LenProperties DEF TypeOK
  <2> QED
    BY <1>1, <2>1, <2>2, NamesStay
<1>5. AdmittedBefore'
  BY <1>1, <1>2, <1>4, NamesStay DEF AdmittedBefore
<1> QED
  BY <1>3, <1>5

----------------------------------------------------------------------------
(* Steps that only write records *)

LEMMA FailureType ==
  ASSUME TypeOK, MayFail \/ Fails
  PROVE  failures' \in 0..MaxFailures
BY BoundsAssumption DEF MayFail, Fails, TypeOK

\* No name passes its last control.
LEMMA ControlsKeep ==
  ASSUME EventsInv, LogGrows,
         \A n \in Name : log' = Append(log, <<"control", n>>) => Control(n) < MaxControl
  PROVE  ControlsBounded'
<1> SUFFICES ASSUME NEW n \in Name PROVE Control(n)' <= MaxControl
  BY DEF ControlsBounded
<1>1. TypeOK /\ Control(n) <= MaxControl /\ Control(n) \in Nat
  BY ControlType DEF EventsInv, EventsSafe, TypeOK, ControlsBounded
<1>2. CASE log' = log
  BY <1>1, <1>2 DEF Control
<1>3. ASSUME NEW r \in Record, log' = Append(log, r)
      PROVE  Control(n)' <= MaxControl
  BY <1>1, <1>3, ControlCounts, BoundsAssumption
<1> QED
  BY <1>2, <1>3 DEF LogGrows

\* What was consumed keeps its cause while log and custody only grow.
LEMMA ConsumedKeeps ==
  ASSUME EventsInv, LogGrows, UNCHANGED deliveries,
         \A d \in Delivery : custody[d] = "accepted" => custody'[d] = "accepted"
  PROVE  ConsumedIsCaused'
<1>1. TypeOK /\ ConsumedIsCaused
  BY DEF EventsInv, EventsSafe
<1>2. \A i \in DOMAIN log : i \in DOMAIN log' /\ log'[i] = log[i]
  <2>1. CASE log' = log
    BY <2>1
  <2>2. CASE log' # log
    BY <1>1, <2>2, AppendRecord DEF LogGrows
  <2> QED
    BY <2>1, <2>2
<1> SUFFICES ASSUME NEW f \in Fact, NEW n \in Name, deliveries[<<f, n>>].ack # "none"
             PROVE  /\ custody'[<<f, n>>] = "accepted" /\ deliveries[<<f, n>>].intent = "done"
                    /\ \E i, j \in DOMAIN log' : i < j /\ log'[i] = <<"event", f>> /\ log'[j] = <<"event", <<f, n>>>>
  BY DEF ConsumedIsCaused
<1>3. custody[<<f, n>>] = "accepted" /\ deliveries[<<f, n>>].intent = "done"
  BY <1>1 DEF ConsumedIsCaused
<1>4. PICK i \in DOMAIN log, j \in DOMAIN log :
        i < j /\ log[i] = <<"event", f>> /\ log[j] = <<"event", <<f, n>>>>
  BY <1>1 DEF ConsumedIsCaused
<1> QED
  BY <1>2, <1>3, <1>4 DEF Delivery

\* A receiver that rests keeps its types, and its jobs fit.
LEMMA ReceiverRests ==
  ASSUME CustodyTyped, JobsFit, UNCHANGED receiver
  PROVE  CustodyTyped' /\ JobsFit' /\ custody' = custody /\ job' = job /\ generation' = generation
BY DEF receiver, CustodyTyped, JobsFit, JobFits, Accepted

\* A step that writes at most a record, and neither admits nor settles.
LEMMA RecordKeeps ==
  ASSUME EventsInv, LogStays,
         \A n \in Name : log' = Append(log, <<"control", n>>) => Control(n) < MaxControl,
         UNCHANGED <<routes, deliveries, receiver>>,
         revoked' \subseteq Name, offer' \in Offer \cup {None},
         approved' \in [Delivery -> 0..MaxControl \cup {None}], failures' \in 0..MaxFailures
  PROVE  EventsInv'
<1>1. TypeOK
  BY DEF EventsInv, EventsSafe
<1>2. TypeOK'
  BY <1>1, NamesStay DEF TypeOK, receiver
<1>3. RoutesTyped' /\ RoutesStayValid' /\ RecordsOnce' /\ ResultsCaused' /\ AdmittedRouted' /\ AdmittedBefore'
  BY RoutesKeep, RecordsKeep, WindowsKeep DEF LogStays, LogGrows
<1>4. ControlsBounded' /\ ConsumedIsCaused'
  BY ControlsKeep, ConsumedKeeps DEF receiver, LogStays, LogGrows
<1>5. CustodyTyped' /\ UnadmittedFree' /\ JobsFit'
  BY ReceiverRests DEF EventsInv, UnadmittedFree
<1> QED
  BY <1>2, <1>3, <1>4, <1>5 DEF EventsInv, EventsSafe

\* An event is published once, and a result by a delivery that was routed.
LEMMA PublishKeeps ==
  ASSUME EventsInv, NEW e \in Event, Publish(e)
  PROVE  EventsInv'
<1> DEFINE r == <<"event", e>>
<1>1. TypeOK /\ ~Logged(r)
  BY DEF EventsInv, EventsSafe, Publish
<1>2. log' = log \/ log' = Append(log, r)
  BY DEF Publish, Appends, With
<1>3. ASSUME NEW f \in Fact, NEW n \in Name, r = <<"event", <<f, n>>>>
      PROVE  Logged(<<"event", f>>)
  <2>1. e = <<f, n>> /\ e \in Delivery
    BY <1>3 DEF Delivery
  <2>2. Admitted(f, n)
    BY <2>1 DEF Publish, Admitted
  <2> QED
    BY <2>2 DEF EventsInv, AdmittedRouted, Routed
<1>4. Fits(r)
  BY <1>1, <1>3 DEF Fits, Record
<1>5. LogStays
  BY <1>2, <1>4 DEF LogStays, Record
<1>6. \A n \in Name : log' # Append(log, <<"control", n>>)
  <2> SUFFICES ASSUME NEW n \in Name, log' = Append(log, <<"control", n>>) PROVE FALSE
    OBVIOUS
  <2>1. /\ Len(log') = Len(log) + 1 /\ log'[Len(log) + 1] = <<"control", n>> /\ Len(log) \in Nat
    BY <1>1, AppendRecord DEF Record
  <2>2. log' = Append(log, r)
    BY <1>2, <2>1
  <2>3. log'[Len(log) + 1] = r
    BY <1>1, <2>2, AppendRecord DEF Record
  <2> QED
    BY <2>1, <2>3
<1>7. failures' \in 0..MaxFailures
  BY <1>1, FailureType DEF Publish, Appends
<1> QED
  BY <1>1, <1>5, <1>6, <1>7, RecordKeeps DEF Publish, TypeOK

\* A pause or a resume is counted below the last.
LEMMA ControlKeeps ==
  ASSUME EventsInv, NEW n \in Name, SubscriptionControl(n)
  PROVE  EventsInv'
<1> DEFINE r == <<"control", n>>
<1>1. TypeOK /\ Control(n) < MaxControl
  BY DEF EventsInv, EventsSafe, SubscriptionControl
<1>2. Fits(r)
  BY DEF Fits, Record
<1>3. log' = log \/ log' = Append(log, r)
  BY DEF SubscriptionControl
<1>4. LogStays
  BY <1>2, <1>3 DEF LogStays, Record
<1>5. ASSUME NEW m \in Name, log' = Append(log, <<"control", m>>)
      PROVE  Control(m) < MaxControl
  <2>1. Len(log') = Len(log) + 1 /\ log'[Len(log) + 1] = <<"control", m>> /\ Len(log) \in Nat
    BY <1>1, <1>5, AppendRecord DEF Record
  <2>2. log' = Append(log, r)
    BY <1>3, <2>1
  <2>3. log'[Len(log) + 1] = r
    BY <1>1, <2>2, AppendRecord DEF Record
  <2> QED
    BY <1>1, <2>1, <2>3
<1>6. failures' \in 0..MaxFailures
  BY <1>1, FailureType DEF SubscriptionControl
<1> QED
  BY <1>1, <1>4, <1>5, <1>6, RecordKeeps DEF SubscriptionControl, TypeOK

\* A revocation and the two previews leave the log and the deliveries alone.
LEMMA AsideKeeps ==
  ASSUME EventsInv,
         \/ \E n \in Name : Revoke(n)
         \/ \E previous, next \in Name, slot \in Slot : PreviewReplace(previous, next, slot)
         \/ \E f \in Fact, n \in Name : PreviewDelivery(f, n)
  PROVE  EventsInv'
<1>1. TypeOK
  BY DEF EventsInv, EventsSafe
<1>2. log' = log /\ LogStays /\ UNCHANGED <<routes, deliveries, receiver>>
  BY DEF Revoke, PreviewReplace, PreviewDelivery, facts, LogStays
<1>3. \A n \in Name : log' # Append(log, <<"control", n>>)
  <2> SUFFICES ASSUME NEW n \in Name, log = Append(log, <<"control", n>>) PROVE FALSE
    BY <1>2
  <2>1. Len(log) \in Nat /\ Len(log) = Len(log) + 1
    BY <1>1, LenProperties, AppendProperties DEF TypeOK, Record
  <2> QED
    BY <2>1
<1>4. failures' \in 0..MaxFailures /\ revoked' \subseteq Name
  BY <1>1, FailureType DEF Revoke, PreviewReplace, PreviewDelivery, facts, TypeOK
<1>5. offer' \in Offer \cup {None}
  <2>1. ASSUME NEW previous \in Name, NEW next \in Name, NEW slot \in Slot,
               PreviewReplace(previous, next, slot)
        PROVE  offer' \in Offer
    <3>1. Control(previous) \in Nat /\ Len(log) \in Nat /\ generation \in 0..MaxGeneration
      BY <1>1, ControlType, LenProperties DEF TypeOK
    <3>2. [slot |-> slot, generation |-> generation, replaces |-> previous, cutover |-> Len(log)] \in Route
      BY <3>1 DEF Route
    <3> QED
      BY <2>1, <3>1, <3>2 DEF PreviewReplace, Successor, Offer
  <2>2. CASE (\E n \in Name : Revoke(n)) \/ \E f \in Fact, n \in Name : PreviewDelivery(f, n)
    BY <1>1, <2>2 DEF Revoke, PreviewDelivery, TypeOK
  <2> QED
    BY <2>1, <2>2
<1>6. approved' \in [Delivery -> 0..MaxControl \cup {None}]
  <2>1. ASSUME NEW f \in Fact, NEW n \in Name, PreviewDelivery(f, n)
        PROVE  approved' \in [Delivery -> 0..MaxControl \cup {None}]
    <3>1. Control(n) \in 0..MaxControl
      <4>1. Control(n) \in Nat
        BY <1>1, ControlType DEF TypeOK
      <4>2. Control(n) <= MaxControl
        BY DEF EventsInv, ControlsBounded
      <4> QED
        BY <4>1, <4>2, BoundsAssumption
    <3> QED
      BY <1>1, <2>1, <3>1 DEF PreviewDelivery, TypeOK
  <2>2. CASE \/ \E n \in Name : Revoke(n)
             \/ \E previous, next \in Name, slot \in Slot : PreviewReplace(previous, next, slot)
    BY <1>1, <2>2 DEF Revoke, PreviewReplace, TypeOK
  <2> QED
    BY <2>1, <2>2
<1> QED
  BY <1>2, <1>3, <1>4, <1>5, <1>6, RecordKeeps

----------------------------------------------------------------------------
(* The receiver, admissions and acknowledgements *)

\* The receiver's own operations.
OfReceiver ==
  \/ \E d \in Delivery :
       Settle(d) \/ Accept(d) \/ ReconcileAccept(d) \/ ReclaimBegins(d) \/ ReclaimEnds(d) \/ OutputGoes(d)
  \/ Transition \/ Unload

\* How the attempt and the job of one delivery move: the attempt ends, is accepted behind
\* readable evidence, or is collected part by part.
JobMoves(d) ==
  \/ custody'[d] = custody[d] /\ job'[d] = job[d]
  \/ custody[d] = "held" /\ custody'[d] \in {"void", "failed", "succeeded"} /\ job'[d] = job[d]
  \/ /\ custody[d] = "succeeded" /\ custody'[d] = "accepted"
     /\ Readable(d) /\ job[d].output # "going" /\ job'[d] = [job[d] EXCEPT !.accept = "job"]
  \/ /\ custody'[d] = custody[d]
     /\ \/ /\ custody[d] = "succeeded" /\ Readable(d) /\ job[d].accept = "no"
           /\ \E left \in {"intent", "torn", "job"} : job'[d] = [job[d] EXCEPT !.accept = left]
        \/ /\ custody[d] \in {"failed", "succeeded", "accepted"}
           /\ \E state \in {"going", "gone"} : job'[d] = [job[d] EXCEPT !.scratch = state]
        \/ /\ Accepted(d)
           /\ \E state \in {"closed", "going", "gone"} : job'[d] = [job[d] EXCEPT !.output = state]

\* A turn of one part of one job.
LEMMA TurnOne ==
  ASSUME NEW d \in Delivery, job \in [Delivery -> Job], NEW state
  PROVE  /\ \A part \in {"accept", "scratch", "output"} : Turns(d, part, state) =>
              job' = [x \in Delivery |-> job'[x]] /\ \A x \in Delivery \ {d} : job'[x] = job[x]
         /\ Turns(d, "accept", state) => job'[d] = [job[d] EXCEPT !.accept = state]
         /\ Turns(d, "scratch", state) => job'[d] = [job[d] EXCEPT !.scratch = state]
         /\ Turns(d, "output", state) => job'[d] = [job[d] EXCEPT !.output = state]
BY DEF Turns, Job

\* What is accepted or collected of one run leaves the others alone.
LEMMA JobSteps ==
  ASSUME EventsInv, NEW d \in Delivery,
         Accept(d) \/ ReconcileAccept(d) \/ ReclaimBegins(d) \/ ReclaimEnds(d) \/ OutputGoes(d)
  PROVE  /\ CustodyTyped' /\ UNCHANGED <<facts, offer, approved, deliveries, generation>>
         /\ failures' \in 0..MaxFailures
         /\ job' = [x \in Delivery |-> job'[x]] /\ JobMoves(d)
         /\ \A x \in Delivery \ {d} : custody'[x] = custody[x] /\ job'[x] = job[x]
<1> DEFINE Goal == /\ CustodyTyped' /\ failures' \in 0..MaxFailures /\ job' = [x \in Delivery |-> job'[x]] /\ JobMoves(d)
                   /\ \A x \in Delivery \ {d} : custody'[x] = custody[x] /\ job'[x] = job[x]
<1>1. /\ TypeOK /\ CustodyTyped /\ JobFits(d) /\ job \in [Delivery -> Job] /\ job[d] \in Job
      /\ failures \in 0..MaxFailures
  BY DEF EventsInv, EventsSafe, JobsFit, TypeOK
<1>2. ASSUME Receiver!Accept(d)
      PROVE  /\ CustodyTyped' /\ custody[d] = "succeeded" /\ custody'[d] = "accepted"
             /\ \A x \in Delivery \ {d} : custody'[x] = custody[x]
  BY <1>1, <1>2 DEF Receiver!Accept, Receiver!Become, CustodyTyped
<1>3. ASSUME UNCHANGED <<round, custody>>
      PROVE  CustodyTyped' /\ custody' = custody
  BY <1>1, <1>3 DEF CustodyTyped
<1>4. CASE Accept(d)
  <2>1. Readable(d) /\ job[d].accept = "no" /\ job[d].output # "going"
    BY <1>1, <1>4 DEF Accept, JobFits, Accepted
  <2>2. CASE Receiver!Accept(d) /\ Turns(d, "accept", "job") /\ UNCHANGED failures
    <3>1. /\ job'[d] = [job[d] EXCEPT !.accept = "job"] /\ job' = [x \in Delivery |-> job'[x]]
          /\ \A x \in Delivery \ {d} : job'[x] = job[x]
      BY <1>1, <2>2, TurnOne
    <3>2. failures' \in 0..MaxFailures
      BY <1>1, <2>2
    <3> QED
      BY <1>2, <1>4, <2>1, <2>2, <3>1, <3>2 DEF JobMoves, Accept
  <2>3. ASSUME NEW left \in {"intent", "torn", "job"}, custody[d] = "succeeded", Fails,
               UNCHANGED <<round, custody>>, Turns(d, "accept", left)
        PROVE  Goal
    <3>1. /\ job'[d] = [job[d] EXCEPT !.accept = left] /\ job' = [x \in Delivery |-> job'[x]]
          /\ \A x \in Delivery \ {d} : job'[x] = job[x]
      BY <1>1, <2>3, TurnOne
    <3>2. failures' \in 0..MaxFailures
      BY <1>1, <2>3, FailureType
    <3> QED
      BY <1>3, <2>1, <2>3, <3>1, <3>2 DEF JobMoves
  <2> QED
    BY <1>4, <2>2, <2>3 DEF Accept
<1>5. CASE ReconcileAccept(d)
  <2>1. job'[d] = [job[d] EXCEPT !.accept = "job"] /\ job' = job /\ job' = [x \in Delivery |-> job'[x]]
    BY <1>1, <1>5 DEF ReconcileAccept, Job
  <2> QED
    BY <1>1, <1>2, <1>5, <2>1 DEF ReconcileAccept, JobMoves
<1>6. CASE ReclaimBegins(d) \/ ReclaimEnds(d)
  <2>1. PICK state \in {"going", "gone"} : Turns(d, "scratch", state)
    BY <1>6 DEF ReclaimBegins, ReclaimEnds
  <2>2. custody[d] \in {"failed", "succeeded", "accepted"} /\ failures' = failures /\ UNCHANGED <<round, custody>>
    BY <1>1, <1>6 DEF ReclaimBegins, ReclaimEnds, JobFits
  <2>3. /\ job'[d] = [job[d] EXCEPT !.scratch = state] /\ job' = [x \in Delivery |-> job'[x]]
        /\ \A x \in Delivery \ {d} : job'[x] = job[x]
    BY <1>1, <2>1, TurnOne
  <2> QED
    BY <1>1, <1>3, <1>6, <2>2, <2>3 DEF JobMoves, ReclaimBegins, ReclaimEnds
<1>7. CASE OutputGoes(d)
  <2>1. PICK state \in {"closed", "going", "gone"} : Turns(d, "output", state)
    BY <1>7 DEF OutputGoes
  <2>2. Accepted(d) /\ failures' = failures /\ UNCHANGED <<round, custody>>
    BY <1>7 DEF OutputGoes
  <2>3. /\ job'[d] = [job[d] EXCEPT !.output = state] /\ job' = [x \in Delivery |-> job'[x]]
        /\ \A x \in Delivery \ {d} : job'[x] = job[x]
    BY <1>1, <2>1, TurnOne
  <2> QED
    BY <1>1, <1>3, <1>7, <2>2, <2>3 DEF JobMoves, OutputGoes
<1>8. UNCHANGED <<facts, offer, approved, deliveries, generation>>
  BY DEF Accept, ReconcileAccept, ReclaimBegins, ReclaimEnds, OutputGoes
<1> QED
  BY <1>4, <1>5, <1>6, <1>7, <1>8

\* A job that fits still fits when it moves.
LEMMA JobMovesFit ==
  ASSUME NEW d \in Delivery, JobFits(d), job[d] \in Job, JobMoves(d)
  PROVE  JobFits(d)' /\ job'[d] \in Job
<1>1. CASE custody'[d] = custody[d] /\ job'[d] = job[d]
  BY <1>1 DEF JobFits, Accepted
<1>2. CASE custody[d] = "held" /\ custody'[d] \in {"void", "failed", "succeeded"} /\ job'[d] = job[d]
  BY <1>2 DEF JobFits, Accepted
<1>3. ASSUME custody'[d] = "accepted", job'[d] = [job[d] EXCEPT !.accept = "job"]
      PROVE  JobFits(d)' /\ job'[d] \in Job
  BY <1>3 DEF JobFits, Accepted, Job
<1>4. ASSUME custody'[d] = custody[d], custody[d] = "succeeded", job[d].accept = "no",
             NEW left \in {"intent", "torn", "job"}, job'[d] = [job[d] EXCEPT !.accept = left]
      PROVE  JobFits(d)' /\ job'[d] \in Job
  BY <1>4 DEF JobFits, Accepted, Job
<1>5. ASSUME custody'[d] = custody[d], custody[d] \in {"failed", "succeeded", "accepted"},
             NEW state \in {"going", "gone"}, job'[d] = [job[d] EXCEPT !.scratch = state]
      PROVE  JobFits(d)' /\ job'[d] \in Job
  BY <1>5 DEF JobFits, Accepted, Job
<1>6. ASSUME custody'[d] = custody[d], Accepted(d),
             NEW state \in {"closed", "going", "gone"}, job'[d] = [job[d] EXCEPT !.output = state]
      PROVE  JobFits(d)' /\ job'[d] \in Job
  BY <1>6 DEF JobFits, Accepted, Job
<1> QED
  BY <1>1, <1>2, <1>3, <1>4, <1>5, <1>6 DEF JobMoves

\* None that was not admitted moves, and what was accepted stays.
LEMMA ReceiverSteps ==
  ASSUME EventsInv, OfReceiver
  PROVE  /\ CustodyTyped' /\ generation' \in 0..MaxGeneration /\ failures' \in 0..MaxFailures
         /\ UNCHANGED <<facts, offer, approved, deliveries>>
         /\ job' = [x \in Delivery |-> job'[x]] /\ \A d \in Delivery : JobMoves(d)
<1>1. /\ CustodyTyped /\ TypeOK /\ generation \in 0..MaxGeneration /\ failures \in 0..MaxFailures
      /\ job \in [Delivery -> Job]
  BY DEF EventsInv, EventsSafe, TypeOK
<1>2. ASSUME NEW d \in Delivery, Settle(d)
      PROVE  /\ CustodyTyped' /\ UNCHANGED <<facts, offer, approved, deliveries, generation, job, failures>>
             /\ \A x \in Delivery : JobMoves(x)
  BY <1>1, <1>2 DEF Settle, Receiver!Settle, Receiver!Become, CustodyTyped, JobMoves
<1>3. ASSUME NEW d \in Delivery,
             Accept(d) \/ ReconcileAccept(d) \/ ReclaimBegins(d) \/ ReclaimEnds(d) \/ OutputGoes(d)
      PROVE  /\ CustodyTyped' /\ UNCHANGED <<facts, offer, approved, deliveries, generation>>
             /\ failures' \in 0..MaxFailures /\ job' = [x \in Delivery |-> job'[x]] /\ \A x \in Delivery : JobMoves(x)
  <2>1. \A x \in Delivery \ {d} : JobMoves(x)
    BY <1>3, JobSteps DEF JobMoves
  <2> QED
    BY <1>3, <2>1, JobSteps
<1>4. CASE Transition
  <2>1. generation' \in 0..MaxGeneration
    BY <1>1, <1>4, BoundsAssumption DEF Transition
  <2>2. /\ UNCHANGED <<facts, offer, approved, deliveries, job, failures, custody>>
        /\ round' \in {"open", "closed"}
    BY <1>4 DEF Transition, Receiver!Close, Receiver!Reopen
  <2> QED
    BY <1>1, <2>1, <2>2 DEF CustodyTyped, JobMoves
<1>5. CASE Unload
  <2>1. /\ UNCHANGED <<facts, offer, approved, deliveries, generation, job, failures, custody>>
        /\ round' = "unloaded"
    BY <1>5 DEF Unload, Receiver!Unload
  <2> QED
    BY <1>1, <2>1 DEF CustodyTyped, JobMoves
<1> QED
  BY <1>1, <1>2, <1>3, <1>4, <1>5 DEF OfReceiver

LEMMA ReceiverKeeps ==
  ASSUME EventsInv, OfReceiver
  PROVE  EventsInv'
<1>1. TypeOK /\ UNCHANGED <<facts, offer, approved, deliveries>>
  BY ReceiverSteps DEF EventsInv, EventsSafe
<1>2. LogStays /\ LogGrows /\ log' = log /\ routes' = routes
  BY <1>1 DEF facts, LogStays, LogGrows
<1>3. JobsFit' /\ job' \in [Delivery -> Job]
  <2>1. \A d \in Delivery : JobFits(d) /\ job[d] \in Job /\ JobMoves(d)
    BY <1>1, ReceiverSteps DEF EventsInv, JobsFit, TypeOK
  <2>2. \A d \in Delivery : JobFits(d)' /\ job'[d] \in Job
    BY <2>1, JobMovesFit
  <2>3. job' = [x \in Delivery |-> job'[x]]
    BY ReceiverSteps
  <2> QED
    BY <2>2, <2>3 DEF JobsFit
<1>4. TypeOK'
  BY <1>1, <1>3, ReceiverSteps DEF facts, TypeOK
<1>5. RoutesTyped' /\ RoutesStayValid' /\ RecordsOnce' /\ ResultsCaused' /\ AdmittedRouted' /\ AdmittedBefore'
  BY <1>1, <1>2, RoutesKeep, RecordsKeep, WindowsKeep
<1>6. ControlsBounded'
  BY <1>2 DEF EventsInv, ControlsBounded, Control
<1>7. \A d \in Delivery : custody[d] \in {"free", "accepted"} => custody'[d] = custody[d]
  BY ReceiverSteps DEF JobMoves
<1>8. ConsumedIsCaused'
  BY <1>1, <1>2, <1>7, ConsumedKeeps
<1>9. UnadmittedFree'
  BY <1>1, <1>7 DEF EventsInv, UnadmittedFree
<1> QED
  BY <1>3, <1>4, <1>5, <1>6, <1>8, <1>9, ReceiverSteps DEF EventsInv, EventsSafe

\* Admission creates the one attempt of its delivery, of whoever may still admit.
LEMMA AdmitSteps ==
  ASSUME EventsInv, NEW f \in Fact, NEW n \in Name, Admit(f, n)
  PROVE  /\ CheckActive(n) /\ Routed(f, n) /\ deliveries[<<f, n>>].intent = "none"
         /\ approved[<<f, n>>] = Control(n)
         /\ deliveries' \in [Delivery -> [intent : Written, ack : Written]]
         /\ deliveries'[<<f, n>>].intent # "none"
         /\ \A d \in Delivery : deliveries'[d].ack = deliveries[d].ack
         /\ \A d \in Delivery \ {<<f, n>>} : deliveries'[d] = deliveries[d] /\ custody'[d] = custody[d]
         /\ custody'[<<f, n>>] \in {"free", "held"}
         /\ CustodyTyped' /\ failures' \in 0..MaxFailures
         /\ approved' = [approved EXCEPT ![<<f, n>>] = None]
         /\ UNCHANGED <<facts, offer, generation, job>>
<1> DEFINE d == <<f, n>>
<1>1. d \in Delivery /\ TypeOK /\ CustodyTyped
  BY DEF Delivery, EventsInv, EventsSafe
<1>2. /\ CheckActive(n) /\ Routed(f, n) /\ deliveries[d].intent = "none" /\ approved[d] = Control(n)
      /\ approved' = [approved EXCEPT ![d] = None]
      /\ UNCHANGED <<facts, offer, generation, job>>
      /\ \/ Intent(d, "done") /\ Receiver!Hold(d) /\ UNCHANGED failures
         \/ (Intent(d, "torn") \/ Intent(d, "done")) /\ Fails /\ UNCHANGED <<round, custody>>
  BY DEF Admit
<1>3. custody[d] = "free"
  BY <1>1, <1>2 DEF EventsInv, UnadmittedFree
<1> HIDE DEF d
<1>4. PICK written \in {"torn", "done"} : deliveries' = [deliveries EXCEPT ![d].intent = written]
  BY <1>2 DEF Intent
<1>5. deliveries \in [Delivery -> [intent : Written, ack : Written]] /\ written \in Written
  BY <1>1 DEF TypeOK, Written
<1>6. /\ deliveries' \in [Delivery -> [intent : Written, ack : Written]]
      /\ deliveries'[d].intent # "none" /\ deliveries'[d].ack = deliveries[d].ack
      /\ \A x \in Delivery \ {d} : deliveries'[x] = deliveries[x]
  BY <1>1, <1>4, <1>5
<1>7. /\ CustodyTyped' /\ custody'[d] \in {"free", "held"}
      /\ \A x \in Delivery \ {d} : custody'[x] = custody[x]
  BY <1>1, <1>2, <1>3 DEF Receiver!Hold, Receiver!Become, CustodyTyped
<1>8. failures' \in 0..MaxFailures
  BY <1>1, <1>2, FailureType DEF TypeOK
<1> QED
  BY <1>2, <1>6, <1>7, <1>8 DEF d

LEMMA AdmitKeeps ==
  ASSUME EventsInv, NEW f \in Fact, NEW n \in Name, Admit(f, n)
  PROVE  EventsInv'
<1>1. TypeOK /\ UNCHANGED <<facts, offer, generation, job>>
  BY AdmitSteps DEF EventsInv, EventsSafe
<1>2. log' = log /\ routes' = routes /\ revoked' = revoked /\ LogStays /\ LogGrows
  BY <1>1 DEF facts, LogStays, LogGrows
<1>3. approved' \in [Delivery -> 0..MaxControl \cup {None}]
  BY <1>1, AdmitSteps DEF TypeOK
<1>4. TypeOK'
  BY <1>1, <1>2, <1>3, AdmitSteps DEF TypeOK
<1>5. RoutesTyped' /\ RoutesStayValid' /\ RecordsOnce' /\ ResultsCaused' /\ Routed(f, n)'
  BY <1>2, RoutesKeep, RecordsKeep, AdmitSteps
<1>6. ControlsBounded'
  BY <1>2 DEF EventsInv, ControlsBounded, Control
<1>7. ASSUME NEW g \in Fact, NEW m \in Name, Admitted(g, m)'
      PROVE  (g = f /\ m = n) \/ Admitted(g, m)
  <2>1. <<g, m>> \in Delivery
    BY DEF Delivery
  <2>2. CASE <<g, m>> = <<f, n>>
    BY <2>2
  <2>3. CASE <<g, m>> # <<f, n>>
    <3>1. deliveries'[<<g, m>>] = deliveries[<<g, m>>]
      BY <2>1, <2>3, AdmitSteps
    <3> QED
      BY <1>7, <3>1 DEF Admitted
  <2> QED
    BY <2>2, <2>3
<1>8. AdmittedRouted'
  BY <1>2, <1>5, <1>7, RoutesKeep DEF EventsInv, AdmittedRouted
<1>9. AdmittedBefore'
  <2> SUFFICES ASSUME NEW g \in Fact, NEW m \in Name, NEW s \in Name,
                      Admitted(g, m)', Registered(s), routes[s].replaces = m
               PROVE  \E i \in 1..routes[s].cutover : log[i] = <<"event", g>>
    BY <1>2 DEF AdmittedBefore, Registered, Logged
  <2>1. m # n
    <3>1. RetiredBy(n) = {}
      BY AdmitSteps DEF CheckActive
    <3> QED
      BY <3>1 DEF RetiredBy
  <2> QED
    BY <1>7, <2>1 DEF EventsInv, AdmittedBefore
<1>10. ConsumedIsCaused'
  <2> SUFFICES ASSUME NEW g \in Fact, NEW m \in Name, deliveries'[<<g, m>>].ack # "none"
               PROVE  /\ custody'[<<g, m>>] = "accepted" /\ deliveries'[<<g, m>>].intent = "done"
                      /\ \E i, j \in DOMAIN log : i < j /\ log[i] = <<"event", g>> /\ log[j] = <<"event", <<g, m>>>>
    BY <1>2 DEF ConsumedIsCaused
  <2>1. <<g, m>> \in Delivery
    BY DEF Delivery
  <2>2. deliveries[<<g, m>>].ack # "none"
    BY <2>1, AdmitSteps
  <2>3. /\ custody[<<g, m>>] = "accepted" /\ deliveries[<<g, m>>].intent = "done"
        /\ \E i, j \in DOMAIN log : i < j /\ log[i] = <<"event", g>> /\ log[j] = <<"event", <<g, m>>>>
    BY <2>2 DEF EventsInv, EventsSafe, ConsumedIsCaused
  <2>4. <<g, m>> # <<f, n>>
    BY <2>3, AdmitSteps
  <2> QED
    BY <2>1, <2>3, <2>4, AdmitSteps
<1>11. UnadmittedFree'
  BY AdmitSteps DEF EventsInv, UnadmittedFree
<1>12. JobsFit'
  <2> SUFFICES ASSUME NEW d \in Delivery PROVE JobFits(d)'
    BY DEF JobsFit
  <2>1. JobFits(d) /\ job' = job /\ (d = <<f, n>> => custody[d] = "free")
    BY <1>1, AdmitSteps DEF EventsInv, JobsFit, UnadmittedFree
  <2>2. custody'[d] = custody[d] \/ custody[d] = "free"
    BY <2>1, AdmitSteps
  <2> QED
    BY <2>1, <2>2 DEF JobFits, Accepted
<1> QED
  BY <1>4, <1>5, <1>6, <1>8, <1>9, <1>10, <1>11, <1>12, AdmitSteps DEF EventsInv, EventsSafe

\* The acknowledgement comes with or after the result, and changes nothing else.
LEMMA CompleteSteps ==
  ASSUME EventsInv, NEW f \in Fact, NEW n \in Name, Complete(f, n)
  PROVE  /\ LogStays /\ LogGrows /\ failures' \in 0..MaxFailures
         /\ \A m \in Name : log' # Append(log, <<"control", m>>)
         /\ deliveries[<<f, n>>].intent = "done" /\ Verified(<<f, n>>) /\ custody[<<f, n>>] = "accepted"
         /\ deliveries[<<f, n>>].ack = "none"
         /\ deliveries' \in [Delivery -> [intent : Written, ack : Written]]
         /\ \A d \in Delivery : deliveries'[d].intent = deliveries[d].intent
         /\ \A d \in Delivery \ {<<f, n>>} : deliveries'[d] = deliveries[d]
         /\ deliveries'[<<f, n>>].ack # "none" => Logged(<<"event", <<f, n>>>>)'
         /\ UNCHANGED <<routes, revoked, offer, approved, receiver>>
<1> DEFINE d == <<f, n>>
           r == <<"event", d>>
<1>1. d \in Delivery /\ r \in Record /\ TypeOK
  BY DEF Delivery, Event, Record, EventsInv, EventsSafe
<1>2. /\ Routed(f, n) /\ deliveries[d].intent = "done" /\ deliveries[d].ack = "none"
      /\ Verified(d) /\ custody[d] = "accepted"
      /\ \/ log' = With(r) /\ Ack(d, "done") /\ UNCHANGED failures
         \/ Fails /\ log' = With(r) /\ (Ack(d, "torn") \/ UNCHANGED deliveries)
         \/ Fails /\ UNCHANGED <<log, deliveries>>
      /\ UNCHANGED <<routes, revoked, offer, approved, receiver>>
  BY DEF Complete, Verified
<1>3. \A g \in Fact, m \in Name : r = <<"event", <<g, m>>>> => Logged(<<"event", g>>)
  BY <1>2 DEF Routed
<1>4. ~Logged(r) => Fits(r)
  BY <1>1, <1>3 DEF Fits, Event
<1> HIDE DEF d
<1>5. log' = log \/ (log' = Append(log, r) /\ ~Logged(r))
  BY <1>2 DEF With
<1>6. LogStays /\ LogGrows
  BY <1>1, <1>4, <1>5 DEF LogStays, LogGrows
<1>7. log' = With(r) => Logged(r)'
  <2>1. CASE Logged(r)
    BY <2>1 DEF With, Logged
  <2>2. CASE ~Logged(r)
    BY <1>1, <2>2, LoggedGrows DEF With
  <2> QED
    BY <2>1, <2>2
<1>8. \A m \in Name : log' # Append(log, <<"control", m>>)
  <2> SUFFICES ASSUME NEW m \in Name, log' = Append(log, <<"control", m>>) PROVE FALSE
    OBVIOUS
  <2>1. Len(log') = Len(log) + 1 /\ log'[Len(log) + 1] = <<"control", m>> /\ Len(log) \in Nat
    BY <1>1, AppendRecord DEF Record
  <2>2. log' = Append(log, r)
    BY <1>5, <2>1
  <2>3. log'[Len(log) + 1] = r
    BY <1>1, <2>2, AppendRecord
  <2> QED
    BY <2>1, <2>3
<1>9. failures' \in 0..MaxFailures
  BY <1>1, <1>2, FailureType DEF TypeOK
<1>10. deliveries \in [Delivery -> [intent : Written, ack : Written]]
  BY <1>1 DEF TypeOK
<1>11. /\ deliveries' \in [Delivery -> [intent : Written, ack : Written]]
       /\ \A x \in Delivery : deliveries'[x].intent = deliveries[x].intent
       /\ \A x \in Delivery \ {d} : deliveries'[x] = deliveries[x]
       /\ deliveries'[d].ack # "none" => log' = With(r)
  <2>1. CASE deliveries' = deliveries
    BY <1>2, <1>10, <2>1
  <2>2. CASE deliveries' # deliveries
    <3>1. PICK written \in {"torn", "done"} : deliveries' = [deliveries EXCEPT ![d].ack = written]
      BY <1>2, <2>2 DEF Ack
    <3>2. written \in Written /\ log' = With(r)
      BY <1>2, <2>2 DEF Written
    <3> QED
      BY <1>1, <1>10, <3>1, <3>2
  <2> QED
    BY <2>1, <2>2
<1> QED
  BY <1>2, <1>6, <1>7, <1>8, <1>9, <1>11 DEF d

LEMMA CompleteKeeps ==
  ASSUME EventsInv, NEW f \in Fact, NEW n \in Name, Complete(f, n)
  PROVE  EventsInv'
<1>1. TypeOK /\ LogStays /\ UNCHANGED <<routes, revoked, offer, approved, receiver>>
  BY CompleteSteps DEF EventsInv, EventsSafe
<1>2. /\ log' \in Seq(Record)
      /\ \A i \in DOMAIN log : i \in DOMAIN log' /\ log'[i] = log[i]
  BY <1>1, NamesStay
<1>3. TypeOK'
  BY <1>1, <1>2, CompleteSteps DEF receiver, TypeOK
<1>4. RoutesTyped' /\ RoutesStayValid' /\ RecordsOnce' /\ ResultsCaused' /\ AdmittedRouted' /\ AdmittedBefore'
  BY <1>1, CompleteSteps, RoutesKeep, RecordsKeep, WindowsKeep
<1>5. ControlsBounded'
  BY CompleteSteps, ControlsKeep
<1>6. ConsumedIsCaused'
  <2> SUFFICES ASSUME NEW g \in Fact, NEW m \in Name, deliveries'[<<g, m>>].ack # "none"
               PROVE  /\ custody[<<g, m>>] = "accepted" /\ deliveries'[<<g, m>>].intent = "done"
                      /\ \E i, j \in DOMAIN log' : i < j /\ log'[i] = <<"event", g>> /\ log'[j] = <<"event", <<g, m>>>>
    BY <1>1 DEF receiver, ConsumedIsCaused
  <2>1. <<g, m>> \in Delivery
    BY DEF Delivery
  <2>2. CASE deliveries[<<g, m>>].ack # "none"
    <3>1. /\ custody[<<g, m>>] = "accepted" /\ deliveries[<<g, m>>].intent = "done"
          /\ \E i, j \in DOMAIN log : i < j /\ log[i] = <<"event", g>> /\ log[j] = <<"event", <<g, m>>>>
      BY <2>2 DEF EventsInv, EventsSafe, ConsumedIsCaused
    <3>2. deliveries'[<<g, m>>].intent = "done"
      BY <2>1, <3>1, CompleteSteps
    <3> QED
      BY <1>2, <3>1, <3>2
  <2>3. CASE deliveries[<<g, m>>].ack = "none"
    <3>1. <<g, m>> = <<f, n>>
      BY <2>1, <2>3, CompleteSteps
    <3>2. Logged(<<"event", <<g, m>>>>)' /\ custody[<<g, m>>] = "accepted" /\ deliveries'[<<g, m>>].intent = "done"
      BY <2>1, <3>1, CompleteSteps
    <3>3. PICK j \in DOMAIN log' : log'[j] = <<"event", <<g, m>>>>
      BY <3>2 DEF Logged
    <3>4. PICK i \in DOMAIN log' : i < j /\ log'[i] = <<"event", g>>
      BY <1>4, <3>3 DEF ResultsCaused
    <3> QED
      BY <3>2, <3>3, <3>4
  <2> QED
    BY <2>2, <2>3
<1>7. CustodyTyped' /\ UnadmittedFree' /\ JobsFit'
  BY <1>1, CompleteSteps, ReceiverRests DEF EventsInv, UnadmittedFree
<1> QED
  BY <1>3, <1>4, <1>5, <1>6, <1>7 DEF EventsInv, EventsSafe

----------------------------------------------------------------------------
(* Registrations *)

\* A name is registered at the end of the log; if it replaces another, its cutover is
\* there, and it is the only one to replace that.
LEMMA RegisterKeeps ==
  ASSUME EventsInv, NEW n \in Name, ~Registered(n), NEW route \in Route, Register(n, route),
         \/ route.replaces = None
         \/ /\ route.replaces \in Name /\ route.cutover = Len(log)
            /\ Registered(route.replaces) /\ RetiredBy(route.replaces) = {},
         UNCHANGED <<revoked, approved, deliveries, receiver>>, offer' \in Offer \cup {None}
  PROVE  EventsInv'
<1> DEFINE r == <<"route", n>>
<1>1. TypeOK /\ r \in Record /\ ~Logged(r)
  BY DEF EventsInv, EventsSafe, Record, Registered
<1>2. failures' \in 0..MaxFailures
  BY <1>1, FailureType DEF Register
<1>3. CASE UNCHANGED <<log, routes>>
  <2>1. LogStays /\ \A m \in Name : log' # Append(log, <<"control", m>>)
    <3>1. ASSUME NEW m \in Name, log = Append(log, <<"control", m>>) PROVE FALSE
      <4>1. Len(log) \in Nat /\ Len(log) = Len(log) + 1
        BY <1>1, <3>1, LenProperties, AppendProperties DEF TypeOK, Record
      <4> QED
        BY <4>1
    <3> QED
      BY <1>3, <3>1 DEF LogStays
  <2> QED
    BY <1>1, <1>2, <1>3, <2>1, RecordKeeps DEF TypeOK
<1>4. CASE log' = Append(log, r) /\ routes' = [routes EXCEPT ![n] = route]
  <2>1. /\ log' \in Seq(Record) /\ Len(log) \in Nat
        /\ DOMAIN log = 1..Len(log) /\ DOMAIN log' = DOMAIN log \cup {Len(log) + 1}
        /\ log'[Len(log) + 1] = r
        /\ \A i \in DOMAIN log : log'[i] = log[i]
    BY <1>1, <1>4, AppendRecord
  <2>2. \A m \in Name : Registered(m)' <=> Registered(m) \/ m = n
    BY <1>1, <1>4, LoggedGrows DEF Registered
  <2>3. /\ routes' \in [Name -> Route \cup {None}] /\ routes'[n] = route
        /\ \A m \in Name \ {n} : routes'[m] = routes[m]
    BY <1>1, <1>4 DEF TypeOK
  <2>4. TypeOK'
    BY <1>1, <1>2, <2>1, <2>3 DEF TypeOK, receiver
  <2>5. LogGrows
    BY <1>1, <1>4 DEF LogGrows, Fits
  <2>6. RecordsOnce' /\ ResultsCaused' /\ ConsumedIsCaused'
    BY <2>5, RecordsKeep, ConsumedKeeps DEF receiver
  <2>7. ControlsBounded'
    <3>1. \A m \in Name : log' # Append(log, <<"control", m>>)
      <4> SUFFICES ASSUME NEW m \in Name, log' = Append(log, <<"control", m>>) PROVE FALSE
        OBVIOUS
      <4>1. log'[Len(log) + 1] = <<"control", m>>
        BY <1>1, AppendRecord DEF Record
      <4> QED
        BY <2>1, <4>1
    <3> QED
      BY <2>5, <3>1, ControlsKeep
  <2>8. RoutesTyped'
    BY <1>1, <2>1, <2>2, <2>3 DEF EventsInv, RoutesTyped
  <2>9. ASSUME NEW m \in Name, Registered(m), routes[m].replaces # None
        PROVE  /\ routes[m].cutover \in Nat /\ routes[m].replaces \in Name
               /\ routes[m].cutover + 1 \in DOMAIN log
               /\ \A i \in 1..routes[m].cutover : i \in DOMAIN log
    BY <2>1, <2>9 DEF EventsInv, RoutesTyped, Route
  <2> DEFINE After(x) == {s \in Name : Registered(s)' /\ routes'[s].replaces = x}
  <2>10. \A x \in Name : After(x) = IF route.replaces = x THEN RetiredBy(x) \cup {n} ELSE RetiredBy(x)
    <3> TAKE x \in Name
    <3>1. \A m \in Name : m \in After(x) <=> IF m = n THEN route.replaces = x ELSE m \in RetiredBy(x)
      BY <2>2, <2>3 DEF RetiredBy
    <3>2. n \notin RetiredBy(x) /\ RetiredBy(x) \subseteq Name /\ After(x) \subseteq Name
      BY DEF RetiredBy
    <3> QED
      BY <3>1, <3>2
  <2>11. RoutesStayValid'
    <3> SUFFICES ASSUME NEW m \in Name, Registered(m)', routes'[m].replaces # None
                 PROVE  /\ log'[routes'[m].cutover + 1] = <<"route", m>>
                        /\ \E i \in 1..routes'[m].cutover : log'[i] = <<"route", routes'[m].replaces>>
                        /\ After(routes'[m].replaces) = {m}
      BY DEF RoutesStayValid, RetiredBy
    <3> HIDE DEF After
    <3>1. CASE m = n
      <4>1. /\ route.replaces \in Name /\ route.cutover = Len(log)
            /\ Registered(route.replaces) /\ RetiredBy(route.replaces) = {}
        BY <2>3, <3>1
      <4>2. \E i \in 1..Len(log) : log'[i] = <<"route", route.replaces>>
        BY <2>1, <4>1 DEF Registered, Logged
      <4>3. After(route.replaces) = {n}
        BY <2>10, <4>1
      <4> QED
        BY <2>1, <2>3, <3>1, <4>1, <4>2, <4>3
    <3>2. CASE m # n
      <4>1. Registered(m) /\ routes'[m] = routes[m]
        BY <2>2, <2>3, <3>2
      <4>2. /\ log[routes[m].cutover + 1] = <<"route", m>>
            /\ \E i \in 1..routes[m].cutover : log[i] = <<"route", routes[m].replaces>>
            /\ RetiredBy(routes[m].replaces) = {m}
        BY <4>1 DEF EventsInv, EventsSafe, RoutesStayValid
      <4>3. /\ routes[m].replaces \in Name /\ routes[m].cutover + 1 \in DOMAIN log
            /\ \A i \in 1..routes[m].cutover : i \in DOMAIN log
        BY <2>9, <4>1
      <4>4. route.replaces # routes[m].replaces
        BY <4>2, <4>3, NoneAssumption
      <4>5. After(routes[m].replaces) = {m}
        BY <2>10, <4>2, <4>3, <4>4
      <4>6. log'[routes[m].cutover + 1] = <<"route", m>>
        BY <2>1, <4>2, <4>3
      <4>7. \E i \in 1..routes[m].cutover : log'[i] = <<"route", routes[m].replaces>>
        BY <2>1, <4>2, <4>3
      <4> QED
        BY <4>1, <4>5, <4>6, <4>7
    <3> QED
      BY <3>1, <3>2
  <2>12. ASSUME NEW f \in Fact, NEW m \in Name, Admitted(f, m)
         PROVE  /\ Registered(m) /\ m # n /\ Logged(<<"event", f>>)
                /\ Eligible(f, m) /\ Routed(f, m)'
    <3>1. Registered(m) /\ m # n /\ Logged(<<"event", f>>) /\ Eligible(f, m)
      BY <2>12 DEF EventsInv, AdmittedRouted, Routed
    <3>2. Registered(m)' /\ Logged(<<"event", f>>)' /\ routes'[m] = routes[m]
      BY <1>1, <1>4, <2>2, <2>3, <3>1, LoggedGrows
    <3>3. Eligible(f, m)'
      BY <2>1, <2>9, <3>1, <3>2 DEF Eligible
    <3> QED
      BY <3>1, <3>2, <3>3 DEF Routed
  <2>13. \A f \in Fact, m \in Name : Admitted(f, m)' <=> Admitted(f, m)
    BY DEF Admitted
  <2>14. AdmittedRouted'
    BY <2>12, <2>13 DEF AdmittedRouted
  <2>15. AdmittedBefore'
    <3> SUFFICES ASSUME NEW f \in Fact, NEW m \in Name, NEW s \in Name,
                        Admitted(f, m), Registered(s)', routes'[s].replaces = m
                 PROVE  \E i \in 1..routes'[s].cutover : log'[i] = <<"event", f>>
      BY <2>13 DEF AdmittedBefore
    <3>1. CASE s = n
      <4>1. route.cutover = Len(log) /\ routes'[s].cutover = Len(log)
        BY <2>3, <3>1, NoneAssumption
      <4>2. PICK i \in DOMAIN log : log[i] = <<"event", f>>
        BY <2>12 DEF Logged
      <4> QED
        BY <2>1, <4>1, <4>2
    <3>2. CASE s # n
      <4>1. Registered(s) /\ routes'[s] = routes[s] /\ routes[s].replaces # None
        BY <2>2, <2>3, <3>2, NoneAssumption
      <4>2. PICK i \in 1..routes[s].cutover : log[i] = <<"event", f>>
        BY <4>1 DEF EventsInv, AdmittedBefore
      <4> QED
        BY <2>1, <2>9, <4>1, <4>2
    <3> QED
      BY <3>1, <3>2
  <2>16. CustodyTyped' /\ UnadmittedFree' /\ JobsFit'
    BY ReceiverRests DEF EventsInv, UnadmittedFree
  <2> QED
    BY <2>4, <2>6, <2>7, <2>8, <2>11, <2>14, <2>15, <2>16 DEF EventsInv, EventsSafe
<1> QED
  BY <1>1, <1>3, <1>4 DEF Register, With

----------------------------------------------------------------------------
(* The invariant *)

LEMMA EventsInitInv == Init => EventsInv
<1> SUFFICES ASSUME Init PROVE EventsInv
  OBVIOUS
<1>1. log = <<>> /\ log \in Seq(Record) /\ DOMAIN log = {} /\ routes = [n \in Name |-> None] /\ revoked = {}
  BY EmptySeq DEF Init
<1>2. /\ deliveries = [d \in Delivery |-> [intent |-> "none", ack |-> "none"]]
      /\ round = "open" /\ custody = [d \in Delivery |-> "free"] /\ generation = 0 /\ failures = 0
      /\ approved = [d \in Delivery |-> None] /\ offer = None
      /\ job = [d \in Delivery |-> [accept |-> "no", scratch |-> "kept", output |-> "kept"]]
  BY DEF Init, Receiver!Init
<1>3. TypeOK
  <2>1. job \in [Delivery -> Job]
    BY <1>2 DEF Job
  <2> QED
    BY <1>1, <1>2, <2>1, BoundsAssumption DEF TypeOK, Written
<1>4. CustodyTyped /\ UnadmittedFree /\ JobsFit
  BY <1>2 DEF CustodyTyped, UnadmittedFree, JobsFit, JobFits
<1>5. \A record : ~Logged(record)
  BY <1>1 DEF Logged
<1>6. RoutesTyped /\ RoutesStayValid /\ RecordsOnce /\ ResultsCaused
  BY <1>1, <1>5 DEF Registered, RoutesTyped, RoutesStayValid, RecordsOnce, ResultsCaused
<1>7. \A f \in Fact, n \in Name : deliveries[<<f, n>>].intent = "none" /\ deliveries[<<f, n>>].ack = "none"
  BY <1>2 DEF Delivery
<1>8. ConsumedIsCaused /\ AdmittedRouted /\ AdmittedBefore
  BY <1>7 DEF ConsumedIsCaused, AdmittedRouted, AdmittedBefore, Admitted
<1>9. ControlsBounded
  <2> SUFFICES ASSUME NEW n \in Name PROVE Control(n) <= MaxControl
    BY DEF ControlsBounded
  <2>1. {i \in DOMAIN log : log[i] = <<"control", n>>} = {}
    BY <1>1
  <2> QED
    BY <2>1, FS_EmptySet, BoundsAssumption DEF Control
<1> QED
  BY <1>3, <1>4, <1>6, <1>8, <1>9 DEF EventsInv, EventsSafe

\* A subscription and a successor are registrations.
LEMMA SubscribeKeeps ==
  ASSUME EventsInv, NEW n \in Name, NEW slot \in Slot, Subscribe(n, slot)
  PROVE  EventsInv'
<1> DEFINE route == [slot |-> slot, generation |-> generation, replaces |-> None, cutover |-> 0]
<1>1. TypeOK
  BY DEF EventsInv, EventsSafe
<1>2. route \in Route /\ route.replaces = None
  BY <1>1 DEF Route, TypeOK
<1>3. /\ ~Registered(n) /\ Register(n, route)
      /\ UNCHANGED <<revoked, offer, approved, deliveries, receiver>>
  BY DEF Subscribe
<1> HIDE DEF route
<1> QED
  BY <1>1, <1>2, <1>3, RegisterKeeps DEF TypeOK

LEMMA ReplaceKeeps ==
  ASSUME EventsInv, Replace
  PROVE  EventsInv'
<1> DEFINE route == offer.route
<1>1. TypeOK /\ offer \in Offer
  BY DEF EventsInv, EventsSafe, TypeOK, Replace
<1>2. offer.next \in Name /\ offer.previous \in Name /\ route \in Route /\ offer' \in Offer \cup {None}
  BY <1>1 DEF Offer, Replace
<1>3. /\ ~Registered(offer.next) /\ Registered(offer.previous) /\ RetiredBy(offer.previous) = {}
      /\ Register(offer.next, route)
      /\ UNCHANGED <<revoked, approved, deliveries, receiver>>
  BY DEF Replace, Replaceable
<1>4. route.replaces = offer.previous /\ route.cutover = Len(log)
  BY DEF Replace, Successor
<1> HIDE DEF route
<1> QED
  BY <1>2, <1>3, <1>4, RegisterKeeps

\* Every step keeps the strengthening.
LEMMA EventsStep == EventsInv /\ [Next]_vars => EventsInv'
<1> SUFFICES ASSUME EventsInv, [Next]_vars PROVE EventsInv'
  OBVIOUS
<1>1. ASSUME NEW e \in Event, Publish(e) PROVE EventsInv'
  BY <1>1, PublishKeeps
<1>2. ASSUME NEW n \in Name, Revoke(n) PROVE EventsInv'
  BY <1>2, AsideKeeps
<1>3. ASSUME NEW n \in Name, SubscriptionControl(n) PROVE EventsInv'
  BY <1>3, ControlKeeps
<1>4. ASSUME NEW n \in Name, NEW slot \in Slot, Subscribe(n, slot) PROVE EventsInv'
  BY <1>4, SubscribeKeeps
<1>5. ASSUME NEW previous \in Name, NEW next \in Name, NEW slot \in Slot, PreviewReplace(previous, next, slot)
      PROVE  EventsInv'
  BY <1>5, AsideKeeps
<1>6. CASE Replace
  BY <1>6, ReplaceKeeps
<1>7. ASSUME NEW f \in Fact, NEW n \in Name, PreviewDelivery(f, n) PROVE EventsInv'
  BY <1>7, AsideKeeps
<1>8. ASSUME NEW f \in Fact, NEW n \in Name, Admit(f, n) PROVE EventsInv'
  BY <1>8, AdmitKeeps
<1>9. ASSUME NEW f \in Fact, NEW n \in Name, Complete(f, n) PROVE EventsInv'
  BY <1>9, CompleteKeeps
<1>10. CASE OfReceiver
  BY <1>10, ReceiverKeeps
<1>11. CASE UNCHANGED vars
  <2>1. LogStays /\ UNCHANGED <<routes, deliveries, receiver, log>>
    BY <1>11 DEF vars, facts, LogStays
  <2>2. TypeOK' /\ CustodyTyped' /\ UnadmittedFree' /\ ControlsBounded' /\ JobsFit'
    BY <1>11, ReceiverRests DEF vars, facts, receiver, EventsInv, EventsSafe, TypeOK, UnadmittedFree,
                 ControlsBounded, Control
  <2>3. RoutesTyped' /\ RoutesStayValid' /\ RecordsOnce' /\ ResultsCaused' /\ AdmittedRouted'
        /\ AdmittedBefore' /\ ConsumedIsCaused'
    BY <2>1, RoutesKeep, RecordsKeep, WindowsKeep, ConsumedKeeps DEF receiver, LogGrows
  <2> QED
    BY <2>2, <2>3 DEF EventsInv, EventsSafe
<1> QED
  BY <1>1, <1>2, <1>3, <1>4, <1>5, <1>6, <1>7, <1>8, <1>9, <1>10, <1>11 DEF Next, OfReceiver

\* The strengthening is an invariant.
LEMMA EventsInvariance == Spec => []EventsInv
BY EventsInitInv, EventsStep, PTL DEF Spec

\* For any number of facts, names, successors and failures: routes stay readable and
\* behind their predecessors, and what was consumed was caused, admitted and
\* accepted. (store.rs of native_spool/events)
THEOREM EventsAreSafe == Spec => []EventsSafe
BY EventsInvariance, PTL DEF EventsInv

----------------------------------------------------------------------------
(* Lineages *)

\* Cutovers grow along a lineage.
LEMMA CutoversGrow ==
  ASSUME EventsInv, NEW s \in Name, NEW t \in Name,
         Registered(s), routes[s].replaces = t, Registered(t), routes[t].replaces # None
  PROVE  /\ routes[s].cutover \in Nat /\ routes[t].cutover \in Nat
         /\ routes[t].cutover < routes[s].cutover
<1>1. log \in Seq(Record) /\ DOMAIN log = 1..Len(log) /\ Len(log) \in Nat
  BY LenProperties DEF EventsInv, EventsSafe, TypeOK
<1>2. routes[s] \in Route /\ routes[t] \in Route /\ t # None
  BY NoneAssumption DEF EventsInv, RoutesTyped
<1>3. routes[s].cutover \in Nat /\ routes[t].cutover \in Nat
  BY <1>2 DEF Route
<1>4. routes[s].cutover + 1 \in DOMAIN log /\ routes[t].cutover + 1 \in DOMAIN log
  BY <1>2 DEF EventsInv, RoutesTyped
<1>5. PICK i \in 1..routes[s].cutover : log[i] = <<"route", t>>
  BY <1>2 DEF EventsInv, EventsSafe, RoutesStayValid
<1>6. log[routes[t].cutover + 1] = <<"route", t>>
  BY DEF EventsInv, EventsSafe, RoutesStayValid
<1>7. i \in DOMAIN log
  BY <1>1, <1>3, <1>4, <1>5
<1>8. i = routes[t].cutover + 1
  BY <1>4, <1>5, <1>6, <1>7, RouteOnce DEF EventsInv, EventsSafe
<1> QED
  BY <1>3, <1>5, <1>8

\* The predecessor of a registered name is registered, and it has no other successor.
LEMMA OneSuccessor ==
  ASSUME EventsInv, NEW s \in Name, Registered(s), routes[s].replaces # None
  PROVE  /\ routes[s].replaces \in Name /\ Registered(routes[s].replaces)
         /\ \A u \in Name : Registered(u) /\ routes[u].replaces = routes[s].replaces => u = s
<1>1. routes[s] \in Route /\ routes[s].cutover + 1 \in DOMAIN log
  BY DEF EventsInv, RoutesTyped
<1>2. routes[s].replaces \in Name /\ routes[s].cutover \in Nat
  BY <1>1 DEF Route
<1>3. /\ \E i \in 1..routes[s].cutover : log[i] = <<"route", routes[s].replaces>>
      /\ RetiredBy(routes[s].replaces) = {s}
  BY DEF EventsInv, EventsSafe, RoutesStayValid
<1>4. \A i \in 1..routes[s].cutover : i \in DOMAIN log
  BY <1>1, <1>2, LenProperties DEF EventsInv, EventsSafe, TypeOK
<1>5. Registered(routes[s].replaces)
  BY <1>3, <1>4 DEF Registered, Logged
<1> QED
  BY <1>2, <1>3, <1>5 DEF RetiredBy

\* Admission of one event at two places of a lineage is impossible: whoever comes
\* before has a cutover before the event, whoever comes after has one behind it.
LEMMA LineageWindows ==
  ASSUME EventsInv, NEW n \in Name, Registered(n), NEW f \in Fact, Admitted(f, n),
         NEW m \in Lineage(n) \ {n}
  PROVE  ~Admitted(f, m)
<1>1. PICK p \in DOMAIN log : log[p] = <<"event", f>>
  BY DEF EventsInv, AdmittedRouted, Routed, Logged
<1>2. \A q \in DOMAIN log : log[q] = <<"event", f>> => q = p
  BY <1>1, EventOnce DEF EventsInv, EventsSafe
<1>3. log \in Seq(Record) /\ DOMAIN log = 1..Len(log) /\ Len(log) \in Nat /\ p \in Nat
  BY <1>1, LenProperties DEF EventsInv, EventsSafe, TypeOK
<1> DEFINE Rel(s, t) == Registered(s) /\ routes[s].replaces = t
           Old(t) == \E s \in Name : Rel(s, t) /\ routes[s].cutover < p
           New(s) == Registered(s) /\ routes[s].replaces # None /\ p <= routes[s].cutover
           DownClosed(X) == \A s, t \in Name : s \in X \cup {n} /\ Rel(s, t) => t \in X
           UpClosed(X) == \A s, t \in Name : t \in X \cup {n} /\ Rel(s, t) => s \in X
           Down == {t \in Name : \A X \in SUBSET Name : DownClosed(X) => t \in X}
           Up == {s \in Name : \A X \in SUBSET Name : UpClosed(X) => s \in X}
<1>4. ASSUME NEW s \in Name, NEW t \in Name, Rel(s, t)
      PROVE  /\ Registered(s) /\ Registered(t) /\ t # None /\ routes[s].cutover \in Nat
             /\ \A u \in Name : Rel(u, t) => u = s
             /\ \A i \in 1..routes[s].cutover : i \in DOMAIN log
             /\ routes[t].replaces # None => routes[t].cutover \in Nat /\ routes[t].cutover < routes[s].cutover
  <2>1. t # None /\ routes[s].replaces = t /\ Registered(s)
    BY <1>4, NoneAssumption
  <2>2. routes[s] \in Route /\ routes[s].cutover + 1 \in DOMAIN log
    BY <2>1 DEF EventsInv, RoutesTyped
  <2>3. Registered(t) /\ \A u \in Name : Rel(u, t) => u = s
    BY <2>1, OneSuccessor
  <2>4. routes[t].replaces # None => routes[t].cutover \in Nat /\ routes[t].cutover < routes[s].cutover
    BY <2>1, <2>3, CutoversGrow
  <2>5. routes[s].cutover \in Nat
    BY <2>2 DEF Route
  <2> QED
    BY <1>3, <2>1, <2>2, <2>3, <2>4, <2>5
\* Nobody before or after its window admits the event.
<1>5. ASSUME NEW t \in Name, Old(t) PROVE ~Admitted(f, t)
  <2>1. PICK s \in Name : Rel(s, t) /\ routes[s].cutover < p
    BY <1>5
  <2>2. SUFFICES ASSUME Admitted(f, t) PROVE FALSE
    OBVIOUS
  <2>3. PICK i \in 1..routes[s].cutover : log[i] = <<"event", f>>
    BY <2>1, <2>2 DEF EventsInv, AdmittedBefore
  <2>4. i = p
    BY <1>2, <1>4, <2>1, <2>3
  <2> QED
    BY <1>3, <1>4, <2>1, <2>3, <2>4
<1>6. ASSUME NEW s \in Name, New(s) PROVE ~Admitted(f, s)
  <2>1. SUFFICES ASSUME Admitted(f, s) PROVE FALSE
    OBVIOUS
  <2>2. Eligible(f, s)
    BY <2>1 DEF EventsInv, AdmittedRouted, Routed
  <2>3. routes[s].cutover \in Nat
    BY <1>6 DEF EventsInv, RoutesTyped, Route
  <2>4. p \in 1..routes[s].cutover
    BY <1>3, <1>6, <2>3
  <2> QED
    BY <1>1, <1>6, <2>2, <2>4 DEF Eligible
\* Its neighbours are outside the window.
<1>7. ASSUME NEW t \in Name, Rel(n, t) PROVE Old(t)
  <2>1. Eligible(f, n) /\ routes[n].replaces # None /\ routes[n].cutover \in Nat
    BY <1>4, <1>7 DEF EventsInv, AdmittedRouted, Routed
  <2>2. p \notin 1..routes[n].cutover
    BY <1>1, <2>1 DEF Eligible
  <2>3. routes[n].cutover < p
    BY <1>3, <2>1, <2>2
  <2> QED
    BY <1>7, <2>3
<1>8. ASSUME NEW s \in Name, Rel(s, n) PROVE New(s)
  <2>1. PICK i \in 1..routes[s].cutover : log[i] = <<"event", f>>
    BY <1>8 DEF EventsInv, AdmittedBefore
  <2>2. i = p
    BY <1>2, <1>4, <1>8, <2>1
  <2> QED
    BY <1>3, <1>4, <1>8, <2>1, <2>2
<1>9. Down \subseteq {t \in Name : Old(t)}
  <2> DEFINE X == {t \in Name : Old(t)}
  <2>1. ASSUME NEW s \in Name, NEW t \in Name, s \in X, Rel(s, t) PROVE t \in X
    <3>1. PICK u \in Name : Rel(u, s) /\ routes[u].cutover < p
      BY <2>1
    <3>2. routes[s].replaces # None
      BY <1>4, <2>1
    <3>3. routes[s].cutover < p
      BY <1>3, <1>4, <3>1, <3>2
    <3> QED
      BY <2>1, <3>3
  <2>2. DownClosed(X)
    BY <1>7, <2>1
  <2> HIDE DEF Old, DownClosed
  <2>3. X \in SUBSET Name
    OBVIOUS
  <2> HIDE DEF X
  <2>4. Down \subseteq X
    BY <2>2, <2>3
  <2> QED
    BY <2>4 DEF X
<1>10. Up \subseteq {s \in Name : New(s)}
  <2> DEFINE X == {s \in Name : New(s)}
  <2>1. ASSUME NEW s \in Name, NEW t \in Name, t \in X, Rel(s, t) PROVE s \in X
    <3>1. routes[t].replaces # None /\ p <= routes[t].cutover /\ routes[s].replaces # None
      BY <1>4, <2>1
    <3>2. p <= routes[s].cutover /\ Registered(s)
      BY <1>3, <1>4, <2>1, <3>1
    <3> QED
      BY <3>1, <3>2
  <2>2. UpClosed(X)
    BY <1>8, <2>1
  <2> HIDE DEF New, UpClosed
  <2>3. X \in SUBSET Name
    OBVIOUS
  <2> HIDE DEF X
  <2>4. Up \subseteq X
    BY <2>2, <2>3
  <2> QED
    BY <2>4 DEF X
\* The window and what lies before and after it is the whole lineage.
<1>11. DownClosed(Down) /\ UpClosed(Up)
  OBVIOUS
<1>12. ASSUME NEW s \in Name, NEW t \in Name, t \in Down, Rel(s, t) PROVE s \in Down \cup {n}
  <2> DEFINE X == {x \in Down : \E u \in Down \cup {n} : u \in Name /\ Rel(u, x)}
  <2>1. DownClosed(X)
    BY <1>11
  <2>2. X \in SUBSET Name
    OBVIOUS
  <2>3. t \in X
    BY <1>12, <2>1, <2>2
  <2>4. PICK u \in Name : u \in Down \cup {n} /\ Rel(u, t)
    BY <2>3
  <2> QED
    BY <1>4, <1>12, <2>4
<1>13. ASSUME NEW s \in Name, NEW t \in Name, s \in Up, Rel(s, t) PROVE t \in Up \cup {n}
  <2> DEFINE X == {x \in Up : \E u \in Up \cup {n} : u \in Name /\ Rel(x, u)}
  <2>1. UpClosed(X)
    BY <1>11
  <2>2. X \in SUBSET Name
    OBVIOUS
  <2>3. s \in X
    BY <1>13, <2>1, <2>2
  <2>4. PICK u \in Name : u \in Up \cup {n} /\ Rel(s, u)
    BY <2>3
  <2> QED
    BY <1>13, <2>4
<1> DEFINE All == {n} \cup Down \cup Up
<1>14. ASSUME NEW s \in Name, Registered(s), routes[s].replaces # None
       PROVE  s \in All <=> routes[s].replaces \in All
  <2>1. routes[s].replaces \in Name
    BY <1>14, OneSuccessor
  <2>2. Rel(s, routes[s].replaces)
    BY <1>14
  <2> HIDE DEF Rel, Down, Up
  <2>3. s \in {n} \cup Down => routes[s].replaces \in Down
    BY <1>11, <2>1, <2>2
  <2>4. s \in Up => routes[s].replaces \in Up \cup {n}
    BY <1>13, <2>1, <2>2
  <2>5. routes[s].replaces \in {n} \cup Up => s \in Up
    BY <1>11, <2>1, <2>2
  <2>6. routes[s].replaces \in Down => s \in Down \cup {n}
    BY <1>12, <2>1, <2>2
  <2> QED
    BY <2>3, <2>4, <2>5, <2>6
<1>15. All \in SUBSET Name /\ n \in All
  OBVIOUS
<1> HIDE DEF All
<1>16. m \in All
  BY <1>14, <1>15 DEF Lineage
<1>17. m \in Name /\ (Old(m) \/ New(m))
  BY <1>9, <1>10, <1>16 DEF All
<1> QED
  BY <1>5, <1>6, <1>17

\* For lineages of any length: no event is admitted by two names of a lineage, nor by
\* a successor whose cutover it precedes. (Eligible in native_spool/events)
THEOREM NoReplay == Spec => []SuccessionNeverReplays
<1>1. EventsInv => SuccessionNeverReplays
  <2> SUFFICES ASSUME EventsInv, NEW n \in Name, Registered(n)
               PROVE  /\ \A f \in Fact, m \in Lineage(n) \ {n} : ~(Admitted(f, n) /\ Admitted(f, m))
                      /\ routes[n].replaces # None => \A f \in Fact : Admitted(f, n) =>
                           \A i \in 1..routes[n].cutover : log[i] # <<"event", f>>
    BY DEF SuccessionNeverReplays
  <2>1. \A f \in Fact, m \in Lineage(n) \ {n} : ~(Admitted(f, n) /\ Admitted(f, m))
    BY LineageWindows
  <2>2. \A f \in Fact : Admitted(f, n) => Eligible(f, n)
    BY DEF EventsInv, AdmittedRouted, Routed
  <2> QED
    BY <2>1, <2>2 DEF Eligible
<1> QED
  BY <1>1, EventsInvariance, PTL

----------------------------------------------------------------------------
(* Admissions and phases *)

LEMMA AdmitOne ==
  ASSUME EventsInv, NEW f \in Fact, NEW n \in Name, Admit(f, n)
  PROVE  \A d \in Delivery : deliveries'[d] # deliveries[d] => d = <<f, n>>
BY AdmitSteps

\* Only an admission admits.
LEMMA OnlyAdmit ==
  ASSUME EventsInv, Next, NEW f \in Fact, NEW n \in Name, ~Admitted(f, n), Admitted(f, n)'
  PROVE  Admit(f, n)
<1>1. <<f, n>> \in Delivery
  BY DEF Delivery
<1>2. deliveries'[<<f, n>>] # deliveries[<<f, n>>]
  BY DEF Admitted
<1>3. ASSUME NEW g \in Fact, NEW m \in Name, Admit(g, m)
      PROVE  Admit(f, n)
  <2>1. <<g, m>> = <<f, n>>
    BY <1>1, <1>2, <1>3, AdmitOne
  <2> QED
    BY <1>3, <2>1
<1>4. ASSUME NEW g \in Fact, NEW m \in Name, Complete(g, m)
      PROVE  FALSE
  <2>1. deliveries'[<<f, n>>].intent = deliveries[<<f, n>>].intent
    BY <1>1, <1>4, CompleteSteps
  <2> QED
    BY <2>1 DEF Admitted
<1>5. ASSUME UNCHANGED deliveries PROVE FALSE
  BY <1>2, <1>5
<1>6. ASSUME NEW g \in Fact, NEW m \in Name, PreviewDelivery(g, m) PROVE FALSE
  BY <1>5, <1>6 DEF PreviewDelivery
<1>7. OfReceiver => FALSE
  BY <1>5, ReceiverSteps
<1>8. (\E e \in Event : Publish(e)) => FALSE
  BY <1>5 DEF Publish
<1>9. (\E m \in Name : Revoke(m) \/ SubscriptionControl(m) \/ \E slot \in Slot : Subscribe(m, slot)) => FALSE
  BY <1>5 DEF Revoke, SubscriptionControl, Subscribe
<1>10. Replace \/ (\E previous, next \in Name, slot \in Slot : PreviewReplace(previous, next, slot)) => FALSE
  BY <1>5 DEF Replace, PreviewReplace
<1> QED
  BY <1>3, <1>4, <1>6, <1>7, <1>8, <1>9, <1>10 DEF Next, OfReceiver

\* Whatever was paused, revoked or replaced after its approval is not admitted on it.
\* (admit in native_spool/events)
THEOREM FreshApprovals == Spec => ApprovalsAreFresh
<1> DEFINE Fresh(f, n) == /\ approved[<<f, n>>] = Control(n) /\ ~Paused(n)
                          /\ n \notin revoked /\ RetiredBy(n) = {} /\ round = "open"
<1>1. ASSUME EventsInv, Next, NEW f \in Fact, NEW n \in Name, ~Admitted(f, n), Admitted(f, n)'
      PROVE  Fresh(f, n)
  <2>1. CheckActive(n) /\ approved[<<f, n>>] = Control(n)
    BY <1>1, OnlyAdmit, AdmitSteps
  <2> QED
    BY <2>1 DEF CheckActive, CheckTarget
<1>2. EventsInv /\ [Next]_vars =>
        [\A f \in Fact, n \in Name : ~Admitted(f, n) /\ Admitted(f, n)' => Fresh(f, n)]_vars
  BY <1>1
<1> QED
  BY <1>2, EventsInvariance, PTL DEF Spec, ApprovalsAreFresh

\* What becomes of the record, the attempt and the job of a delivery in one step.
Goes(d) ==
  \/ deliveries'[d] = deliveries[d] /\ JobMoves(d)
  \/ /\ deliveries[d].intent = "none" /\ deliveries'[d].intent # "none"
     /\ deliveries'[d].ack = deliveries[d].ack /\ custody'[d] \in {"free", "held"}
     /\ job'[d] = job[d]
  \/ /\ deliveries'[d].intent = deliveries[d].intent /\ deliveries[d].ack = "none"
     /\ Verified(d) /\ custody'[d] = custody[d] /\ job'[d] = job[d]

LEMMA DeliverySteps ==
  ASSUME EventsInv, Next, NEW d \in Delivery
  PROVE  Goes(d)
<1>1. ASSUME NEW f \in Fact, NEW n \in Name, Admit(f, n) PROVE Goes(d)
  BY <1>1, AdmitSteps DEF Goes, JobMoves
<1>2. ASSUME NEW f \in Fact, NEW n \in Name, Complete(f, n) PROVE Goes(d)
  <2>1. custody' = custody /\ job' = job
    BY <1>2 DEF Complete, receiver
  <2> QED
    BY <1>2, <2>1, CompleteSteps DEF Goes, JobMoves
<1>3. CASE OfReceiver
  BY <1>3, ReceiverSteps DEF Goes
<1>4. ASSUME UNCHANGED <<deliveries, custody, job>> PROVE Goes(d)
  BY <1>4 DEF Goes, JobMoves
<1>5. CASE \E e \in Event : Publish(e)
  BY <1>4, <1>5 DEF Publish, receiver
<1>6. CASE \E m \in Name : Revoke(m) \/ SubscriptionControl(m) \/ \E slot \in Slot : Subscribe(m, slot)
  BY <1>4, <1>6 DEF Revoke, SubscriptionControl, Subscribe, receiver
<1>7. CASE Replace \/ \E previous, next \in Name, slot \in Slot : PreviewReplace(previous, next, slot)
  BY <1>4, <1>7 DEF Replace, PreviewReplace, receiver
<1>8. ASSUME NEW f \in Fact, NEW n \in Name, PreviewDelivery(f, n) PROVE Goes(d)
  BY <1>4, <1>8 DEF PreviewDelivery, receiver
<1> QED
  BY <1>1, <1>2, <1>3, <1>5, <1>6, <1>7, <1>8 DEF Next, OfReceiver

\* What is routed stays routed, whoever registers.
LEMMA RoutedStays ==
  ASSUME EventsInv, Next, NEW f \in Fact, NEW n \in Name, Routed(f, n)
  PROVE  Routed(f, n)'
<1>1. TypeOK
  BY DEF EventsInv, EventsSafe
<1>2. ASSUME NEW m \in Name, NEW route \in Route, ~Registered(m), Register(m, route)
      PROVE  Routed(f, n)'
  <2>1. CASE UNCHANGED <<log, routes>>
    BY <2>1 DEF Routed, Registered, Logged, Eligible
  <2>2. CASE log' = Append(log, <<"route", m>>) /\ routes' = [routes EXCEPT ![m] = route]
    <3>1. /\ Registered(n) /\ m # n /\ routes'[n] = routes[n]
          /\ Logged(<<"event", f>>)' /\ Registered(n)'
      BY <1>1, <1>2, <2>2, LoggedGrows DEF Routed, Registered, Record, TypeOK
    <3>2. routes[n].replaces # None => \A i \in 1..routes[n].cutover : log'[i] = log[i]
      <4> SUFFICES ASSUME routes[n].replaces # None, NEW i \in 1..routes[n].cutover
                   PROVE  log'[i] = log[i]
        OBVIOUS
      <4>1. routes[n].cutover + 1 \in DOMAIN log /\ routes[n].cutover \in Nat
        BY <3>1 DEF EventsInv, RoutesTyped, Route
      <4>2. i \in DOMAIN log
        BY <1>1, <4>1, LenProperties DEF TypeOK
      <4> QED
        BY <1>1, <2>2, <4>2, AppendRecord DEF Record
    <3> QED
      BY <3>1, <3>2 DEF Routed, Eligible
  <2> QED
    BY <1>2, <2>1, <2>2 DEF Register, With, Registered
<1>3. ASSUME NEW m \in Name, NEW slot \in Slot, Subscribe(m, slot) PROVE Routed(f, n)'
  <2>1. [slot |-> slot, generation |-> generation, replaces |-> None, cutover |-> 0] \in Route
    BY <1>1 DEF Route, TypeOK
  <2> QED
    BY <1>2, <1>3, <2>1 DEF Subscribe
<1>4. CASE Replace
  <2>1. offer.next \in Name /\ offer.route \in Route
    BY <1>1, <1>4 DEF TypeOK, Replace, Offer
  <2> QED
    BY <1>2, <1>4, <2>1 DEF Replace, Replaceable
<1>5. ASSUME LogStays, routes' = routes PROVE Routed(f, n)'
  BY <1>5, RoutesKeep
<1>6. ASSUME NEW e \in Event, Publish(e) PROVE Routed(f, n)'
  <2> DEFINE r == <<"event", e>>
  <2>1. r \in Record /\ \A m \in Name : r # <<"route", m>>
    BY DEF Record
  <2>2. /\ routes' = routes
        /\ log' = log \/ log' = Append(log, r)
    BY <1>6 DEF Publish, Appends, With
  <2> HIDE DEF r
  <2>3. ASSUME log' = Append(log, r) PROVE Routed(f, n)'
    <3>1. Logged(<<"event", f>>)' /\ Registered(n)' /\ Registered(n)
      BY <1>1, <2>1, <2>3, LoggedGrows DEF Routed, Registered
    <3>2. routes[n].replaces # None => \A i \in 1..routes[n].cutover : log'[i] = log[i]
      <4> SUFFICES ASSUME routes[n].replaces # None, NEW i \in 1..routes[n].cutover
                   PROVE  log'[i] = log[i]
        OBVIOUS
      <4>1. routes[n].cutover + 1 \in DOMAIN log /\ routes[n].cutover \in Nat
        BY <3>1 DEF EventsInv, RoutesTyped, Route
      <4>2. i \in DOMAIN log
        BY <1>1, <4>1, LenProperties DEF TypeOK
      <4> QED
        BY <1>1, <2>1, <2>3, <4>2, AppendRecord
    <3> QED
      BY <2>2, <3>1, <3>2 DEF Routed, Eligible
  <2>4. ASSUME log' = log PROVE Routed(f, n)'
    BY <1>5, <2>2, <2>4 DEF LogStays
  <2> QED
    BY <2>2, <2>3, <2>4
<1>7. ASSUME NEW m \in Name, SubscriptionControl(m) PROVE Routed(f, n)'
  <2>1. Fits(<<"control", m>>) /\ <<"control", m>> \in Record
    BY DEF Fits, Record
  <2>2. LogStays /\ routes' = routes
    BY <1>7, <2>1 DEF SubscriptionControl, LogStays
  <2> QED
    BY <1>5, <2>2
<1>8. ASSUME NEW g \in Fact, NEW m \in Name, Complete(g, m) PROVE Routed(f, n)'
  BY <1>5, <1>8, CompleteSteps
<1>9. ASSUME UNCHANGED <<log, routes>> PROVE Routed(f, n)'
  BY <1>5, <1>9 DEF LogStays
<1>10. ASSUME NEW m \in Name, Revoke(m) PROVE Routed(f, n)'
  BY <1>9, <1>10 DEF Revoke
<1>11. ASSUME NEW g \in Fact, NEW m \in Name, PreviewDelivery(g, m) \/ Admit(g, m) PROVE Routed(f, n)'
  BY <1>9, <1>11 DEF PreviewDelivery, Admit, facts
<1>12. ASSUME NEW previous \in Name, NEW next \in Name, NEW slot \in Slot, PreviewReplace(previous, next, slot)
       PROVE  Routed(f, n)'
  BY <1>9, <1>12 DEF PreviewReplace, facts
<1>13. CASE OfReceiver
  BY <1>9, <1>13, ReceiverSteps DEF facts
<1> QED
  BY <1>3, <1>4, <1>6, <1>7, <1>8, <1>10, <1>11, <1>12, <1>13 DEF Next, OfReceiver

\* How far a delivery has come and what is shown of it, by what is on file.
ProvenOf(active, delivery, attempt, accept) ==
  IF delivery.intent = "none" THEN IF active THEN "awaiting-authorization" ELSE "blocked"
  ELSE IF delivery.ack = "done" THEN "consumed"
  ELSE IF attempt \in {"free", "held"} THEN "running-or-unconfirmed"
  ELSE IF attempt \in {"void", "failed"} THEN "settled-unsuccessful"
  ELSE IF attempt = "accepted" THEN "awaiting-confirmation"
  ELSE IF accept \in {"torn", "job"} THEN "needs-reconciliation" ELSE "awaiting-acceptance"

PhaseOf(proven, delivery, attempt, scratch, output) ==
  IF delivery.intent = "none" THEN proven
  ELSE IF scratch = "going" THEN "running-or-unconfirmed"
  ELSE IF attempt = "accepted" /\ output = "going" THEN "needs-reconciliation" ELSE proven

LEMMA ProvenIs ==
  ASSUME CustodyTyped, CustodyTyped', NEW f \in Fact, NEW n \in Name, NEW d, d = <<f, n>>
  PROVE  /\ Proven(f, n) = ProvenOf(CheckActive(n), deliveries[d], custody[d], job[d].accept)
         /\ Phase(f, n) = PhaseOf(Proven(f, n), deliveries[d], custody[d], job[d].scratch, job[d].output)
         /\ Proven(f, n)' = ProvenOf(CheckActive(n)', deliveries'[d], custody'[d], job'[d].accept)
         /\ Phase(f, n)' = PhaseOf(Proven(f, n)', deliveries'[d], custody'[d], job'[d].scratch, job'[d].output)
<1>1. Proven(f, n) = ProvenOf(CheckActive(n), deliveries[d], custody[d], job[d].accept)
  <2>1. custody[d] \in {"free", "held", "void", "failed", "succeeded", "accepted"}
    BY DEF CustodyTyped, Delivery
  <2>2. CASE ~Admitted(f, n)
    BY <2>2 DEF Proven, ProvenOf, Admitted
  <2>3. CASE Admitted(f, n) /\ deliveries[d].ack = "done"
    BY <2>3 DEF Proven, ProvenOf, Admitted
  <2>4. CASE Admitted(f, n) /\ deliveries[d].ack # "done"
    BY <2>1, <2>4 DEF Proven, ProvenOf, Admitted, Accepted
  <2> QED
    BY <2>2, <2>3, <2>4
<1>2. Phase(f, n) = PhaseOf(Proven(f, n), deliveries[d], custody[d], job[d].scratch, job[d].output)
  BY DEF Phase, PhaseOf, Admitted, Readable, Verified
<1>3. Proven(f, n)' = ProvenOf(CheckActive(n)', deliveries'[d], custody'[d], job'[d].accept)
  <2>1. custody'[d] \in {"free", "held", "void", "failed", "succeeded", "accepted"}
    BY DEF CustodyTyped, Delivery
  <2>2. CASE ~Admitted(f, n)'
    BY <2>2 DEF Proven, ProvenOf, Admitted
  <2>3. CASE Admitted(f, n)' /\ deliveries'[d].ack = "done"
    BY <2>3 DEF Proven, ProvenOf, Admitted
  <2>4. CASE Admitted(f, n)' /\ deliveries'[d].ack # "done"
    BY <2>1, <2>4 DEF Proven, ProvenOf, Admitted, Accepted
  <2> QED
    BY <2>2, <2>3, <2>4
<1>4. Phase(f, n)' = PhaseOf(Proven(f, n)', deliveries'[d], custody'[d], job'[d].scratch, job'[d].output)
  BY DEF Phase, PhaseOf, Admitted, Readable, Verified
<1> QED
  BY <1>1, <1>2, <1>3, <1>4

\* What is proven advances with the records, the attempt and the acceptance alone, and
\* only behind evidence that can be read; what is shown goes back with the job alone.
LEMMA PhaseSteps ==
  ASSUME EventsInv, EventsInv', NEW f \in Fact, NEW n \in Name, Goes(<<f, n>>)
  PROVE  /\ Proven(f, n)' \in Later(Proven(f, n))
         /\ Phase(f, n)' \notin Later(Phase(f, n)) => job'[<<f, n>>] # job[<<f, n>>]
         /\ Phase(f, n) # Proven(f, n) => Proven(f, n)' = Proven(f, n)
<1> DEFINE d == <<f, n>>
<1>1. d \in Delivery
  BY DEF Delivery
<1>2. /\ deliveries[d].ack \in Written /\ deliveries[d].intent \in Written
      /\ deliveries'[d].ack \in Written /\ deliveries'[d].intent \in Written
      /\ job[d] \in Job
  BY <1>1 DEF EventsInv, EventsSafe, TypeOK
<1>3. /\ custody[d] \in {"free", "held", "void", "failed", "succeeded", "accepted"}
      /\ custody'[d] \in {"free", "held", "void", "failed", "succeeded", "accepted"}
      /\ JobFits(d)
  BY <1>1 DEF EventsInv, CustodyTyped, JobsFit
<1>4. deliveries[d].intent = "none" => deliveries[d].ack = "none" /\ custody[d] = "free"
  BY <1>1 DEF EventsInv, EventsSafe, ConsumedIsCaused, UnadmittedFree
<1>5. deliveries[d].ack # "none" => custody[d] = "accepted"
  BY DEF EventsInv, EventsSafe, ConsumedIsCaused
<1>6. /\ Proven(f, n) = ProvenOf(CheckActive(n), deliveries[d], custody[d], job[d].accept)
      /\ Phase(f, n) = PhaseOf(Proven(f, n), deliveries[d], custody[d], job[d].scratch, job[d].output)
      /\ Proven(f, n)' = ProvenOf(CheckActive(n)', deliveries'[d], custody'[d], job'[d].accept)
      /\ Phase(f, n)' = PhaseOf(Proven(f, n)', deliveries'[d], custody'[d], job'[d].scratch, job'[d].output)
  BY ProvenIs DEF EventsInv
<1>7. Goes(d)
  OBVIOUS
<1> HIDE DEF d
<1> DEFINE Goal == /\ Proven(f, n)' \in Later(Proven(f, n))
                   /\ Phase(f, n)' \notin Later(Phase(f, n)) => job'[d] # job[d]
                   /\ Phase(f, n) # Proven(f, n) => Proven(f, n)' = Proven(f, n)
<1>8. ASSUME deliveries'[d] = deliveries[d], custody'[d] = custody[d], job'[d] = job[d]
      PROVE  Goal
  <2>1. Proven(f, n)' \in Later(Proven(f, n))
    BY <1>2, <1>3, <1>4, <1>5, <1>6, <1>8 DEF ProvenOf, Later, Written
  <2>2. deliveries[d].intent # "none" => Proven(f, n)' = Proven(f, n) /\ Phase(f, n)' = Phase(f, n)
    BY <1>6, <1>8 DEF ProvenOf, PhaseOf
  <2>3. deliveries[d].intent = "none" =>
          Phase(f, n) = Proven(f, n) /\ Phase(f, n)' = Proven(f, n)'
    BY <1>6, <1>8 DEF PhaseOf
  <2>4. Phase(f, n) \in Later(Phase(f, n))
    BY <1>6 DEF ProvenOf, PhaseOf, Later
  <2> QED
    BY <2>1, <2>2, <2>3, <2>4
<1>9. ASSUME deliveries'[d] = deliveries[d], job'[d] = job[d],
             custody[d] = "held", custody'[d] \in {"void", "failed", "succeeded"}
      PROVE  Goal
  <2>1. job[d].accept = "no" /\ job[d].scratch = "kept" /\ job[d].output = "kept"
    BY <1>2, <1>3, <1>9 DEF JobFits, Accepted, Job
  <2>2. deliveries[d].intent # "none" /\ deliveries[d].ack = "none"
    BY <1>4, <1>5, <1>9
  <2>3. Proven(f, n) = "running-or-unconfirmed" /\ Proven(f, n)' \in {"settled-unsuccessful", "awaiting-acceptance"}
    BY <1>6, <1>9, <2>1, <2>2 DEF ProvenOf
  <2>4. Phase(f, n) = Proven(f, n) /\ Phase(f, n)' = Proven(f, n)'
    BY <1>6, <1>9, <2>1 DEF PhaseOf
  <2> QED
    BY <2>3, <2>4 DEF Later
<1>10. ASSUME deliveries'[d] = deliveries[d], custody[d] = "succeeded", custody'[d] = "accepted",
              Readable(d), job[d].output # "going", job'[d] = [job[d] EXCEPT !.accept = "job"]
       PROVE  Goal
  <2>1. deliveries[d].intent # "none" /\ deliveries[d].ack = "none"
    BY <1>4, <1>5, <1>10
  <2>2. job'[d].scratch = job[d].scratch /\ job'[d].output = job[d].output /\ job[d].scratch # "going"
    BY <1>2, <1>10 DEF Job, Readable
  <2>3. /\ Proven(f, n) \in {"needs-reconciliation", "awaiting-acceptance"}
        /\ Proven(f, n)' = "awaiting-confirmation"
    BY <1>6, <1>10, <2>1 DEF ProvenOf
  <2>4. Phase(f, n) = Proven(f, n) /\ Phase(f, n)' = Proven(f, n)'
    BY <1>6, <1>10, <2>2 DEF PhaseOf
  <2> QED
    BY <2>3, <2>4 DEF Later
<1>11. ASSUME deliveries'[d] = deliveries[d], custody'[d] = custody[d], custody[d] = "succeeded",
              Readable(d), job[d].accept = "no",
              NEW left \in {"intent", "torn", "job"}, job'[d] = [job[d] EXCEPT !.accept = left]
       PROVE  Goal
  <2>1. deliveries[d].intent # "none" /\ deliveries[d].ack = "none"
    BY <1>4, <1>5, <1>11
  <2>2. job'[d] # job[d] /\ job[d].scratch # "going"
    BY <1>2, <1>11 DEF Job, Readable
  <2>3. Proven(f, n) = "awaiting-acceptance" /\ Proven(f, n)' \in {"needs-reconciliation", "awaiting-acceptance"}
    BY <1>6, <1>11, <2>1 DEF ProvenOf
  <2>4. Phase(f, n) = Proven(f, n)
    BY <1>6, <1>11, <2>2 DEF PhaseOf
  <2> QED
    BY <2>2, <2>3, <2>4 DEF Later
<1>12. ASSUME deliveries'[d] = deliveries[d], custody'[d] = custody[d], job'[d].accept = job[d].accept,
              job'[d] # job[d], custody[d] \in {"failed", "succeeded", "accepted"}
       PROVE  Goal
  <2>1. deliveries[d].intent # "none"
    BY <1>4, <1>12
  <2>2. Proven(f, n)' = Proven(f, n) /\ Proven(f, n) \in Later(Proven(f, n))
    BY <1>6, <1>12, <2>1 DEF ProvenOf, Later
  <2> QED
    BY <1>12, <2>2
<1>13. ASSUME deliveries[d].intent = "none", deliveries'[d].intent # "none",
              deliveries'[d].ack = deliveries[d].ack, custody'[d] \in {"free", "held"}, job'[d] = job[d]
       PROVE  Goal
  <2>1. deliveries'[d].ack = "none" /\ job[d].scratch = "kept"
    BY <1>2, <1>3, <1>4, <1>13 DEF JobFits, Job
  <2>2. /\ Proven(f, n) \in {"awaiting-authorization", "blocked"} /\ Phase(f, n) = Proven(f, n)
        /\ Proven(f, n)' = "running-or-unconfirmed" /\ Phase(f, n)' = Proven(f, n)'
    BY <1>6, <1>13, <2>1 DEF ProvenOf, PhaseOf
  <2> QED
    BY <2>2 DEF Later
<1>14. ASSUME deliveries'[d].intent = deliveries[d].intent, deliveries[d].ack = "none", Verified(d),
              custody'[d] = custody[d], job'[d] = job[d]
       PROVE  Goal
  <2>1. custody[d] = "accepted" /\ job[d].scratch # "going" /\ job[d].output # "going"
    BY <1>14 DEF Verified, Readable
  <2>2. deliveries[d].intent # "none"
    BY <1>4, <2>1
  <2>3. /\ Proven(f, n) = "awaiting-confirmation" /\ Phase(f, n) = Proven(f, n)
        /\ Proven(f, n)' \in {"awaiting-confirmation", "consumed"} /\ Phase(f, n)' = Proven(f, n)'
    BY <1>2, <1>6, <1>14, <2>1, <2>2 DEF ProvenOf, PhaseOf, Written
  <2> QED
    BY <2>3 DEF Later
<1> HIDE DEF Goal
<1>15. ASSUME deliveries'[d] = deliveries[d], custody'[d] = custody[d], custody[d] \in {"failed", "succeeded", "accepted"},
              NEW state \in {"going", "gone"}, job'[d] = [job[d] EXCEPT !.scratch = state]
       PROVE  Goal
  <2>1. job'[d].accept = job[d].accept
    BY <1>2, <1>15 DEF Job
  <2>2. CASE job'[d] = job[d]
    BY <1>8, <1>15, <2>2
  <2>3. CASE job'[d] # job[d]
    BY <1>12, <1>15, <2>1, <2>3
  <2> QED
    BY <2>2, <2>3
<1>16. ASSUME deliveries'[d] = deliveries[d], custody'[d] = custody[d], Accepted(d),
              NEW state \in {"closed", "going", "gone"}, job'[d] = [job[d] EXCEPT !.output = state]
       PROVE  Goal
  <2>1. job'[d].accept = job[d].accept /\ custody[d] \in {"succeeded", "accepted"}
    BY <1>2, <1>3, <1>16 DEF Job, JobFits, Accepted
  <2>2. CASE job'[d] = job[d]
    BY <1>8, <1>16, <2>2
  <2>3. CASE job'[d] # job[d]
    BY <1>12, <1>16, <2>1, <2>3
  <2> QED
    BY <2>2, <2>3
<1>17. ASSUME deliveries'[d] = deliveries[d], JobMoves(d) PROVE Goal
  <2>1. CASE custody'[d] # custody[d]
    BY <1>9, <1>10, <1>17, <2>1 DEF JobMoves
  <2>2. CASE custody'[d] = custody[d]
    <3>1. \/ job'[d] = job[d]
          \/ /\ custody[d] = "succeeded" /\ Readable(d) /\ job[d].accept = "no"
             /\ \E left \in {"intent", "torn", "job"} : job'[d] = [job[d] EXCEPT !.accept = left]
          \/ /\ custody[d] \in {"failed", "succeeded", "accepted"}
             /\ \E state \in {"going", "gone"} : job'[d] = [job[d] EXCEPT !.scratch = state]
          \/ /\ Accepted(d)
             /\ \E state \in {"closed", "going", "gone"} : job'[d] = [job[d] EXCEPT !.output = state]
      BY <1>17, <2>2 DEF JobMoves
    <3> QED
      BY <1>8, <1>11, <1>15, <1>16, <1>17, <2>2, <3>1
  <2> QED
    BY <2>1, <2>2
<1>18. Goal
  BY <1>7, <1>13, <1>14, <1>17 DEF Goes
<1> QED
  BY <1>18 DEF Goal, d

\* What is proven of a delivery never goes back, whatever was paused, revoked, unloaded,
\* collected or killed between, and what is shown of it only with what is done to its own
\* job. (pending in native_spool/events, monitor.rs)
THEOREM PhasesAdvance == Spec => PhasesOnlyAdvance
<1> DEFINE Advances(f, n) ==
      /\ Routed(f, n)' /\ Proven(f, n)' \in Later(Proven(f, n))
      /\ Phase(f, n)' \notin Later(Phase(f, n)) => job'[<<f, n>>] # job[<<f, n>>]
      /\ Phase(f, n) # Proven(f, n) => Proven(f, n)' = Proven(f, n)
<1>1. ASSUME EventsInv, EventsInv', [Next]_vars, NEW f \in Fact, NEW n \in Name, Routed(f, n)
      PROVE  Advances(f, n)
  <2>1. <<f, n>> \in Delivery
    BY DEF Delivery
  <2>2. CASE UNCHANGED vars
    <3>1. Routed(f, n)'
      BY <1>1, <2>2, RoutesKeep DEF vars, facts, LogStays
    <3>2. Goes(<<f, n>>)
      BY <2>2 DEF vars, receiver, Goes, JobMoves
    <3> QED
      BY <1>1, <3>1, <3>2, PhaseSteps
  <2>3. CASE Next
    BY <1>1, <2>1, <2>3, RoutedStays, DeliverySteps, PhaseSteps
  <2> QED
    BY <1>1, <2>2, <2>3
<1>2. EventsInv /\ EventsInv' /\ [Next]_vars =>
        [\A f \in Fact, n \in Name : Routed(f, n) => Advances(f, n)]_vars
  BY <1>1
<1> QED
  BY <1>2, EventsInvariance, PTL DEF Spec, PhasesOnlyAdvance

(* -------------------------- dispatches and cohorts ------------------------- *)

Before == {"none", "ticket", "admit"}
Running == {"entry", "deliver", "wait", "record"}

\* What began was previewed, and what a dispatch ran is of its selection.
PlanKept(d) ==
  /\ Begun(d) => plan[d] # Unset
  /\ thread[d].intent # Unset => InCohort(d)
  /\ plan[d] # Unset => plan[d].control <= Len(controls)
  /\ \A e \in Entry : run[e].by = d =>
       batch[d].intent = "written" /\ \E i \in DOMAIN plan[d].entries : plan[d].entries[i] = e

\* A worker has the records of what it has been through, and none of what is to come.
WorkerFits(d) ==
  LET at == worker[d].at IN
  /\ at # "none" => Begun(d) /\ (IF InCohort(d) THEN thread[d].intent ELSE batch[d].intent) = "written"
  /\ at \in Before => batch[d].entries = <<>> /\ batch[d].result = Unset
  /\ at \in Before /\ plan[d] # Unset /\ InCohort(d) => batch[d].intent = Unset
  /\ at \in Running \cup {"summary"} => batch[d].intent = "written"
  /\ at \in {"admit", "thread"} => InCohort(d)
  /\ at \in {"ticket", "complete"} => Detached(d)
  /\ at \in {"summary", "thread", "complete"} => worker[d].result # Unset
  /\ thread[d].result # Unset => at \in {"complete", "done", "dead"}
  /\ owner[d].completion # Unset => at = "done"

Started(d, i) == i \in DOMAIN plan[d].entries /\ run[plan[d].entries[i]].by = d

\* The entries that were recorded: what they say is how their runs ended, and all but
\* the last succeeded.
RecordsTrue(d) ==
  \A i \in DOMAIN batch[d].entries :
    /\ batch[d].entries[i] \in Ended =>
         Started(d, i) /\ run[plan[d].entries[i]].state = batch[d].entries[i]
    /\ batch[d].entries[i] # "succeeded" =>
         i = Len(batch[d].entries) /\ worker[d].at \notin Running /\ ~Started(d, i + 1)

\* The entry in hand is the next one; where its record is lost, nothing is ever
\* recorded or summarised again.
NextFits(d) ==
  LET at == worker[d].at IN
  /\ Len(batch[d].entries) <= Len(plan[d].entries)
  /\ at \in {"deliver", "wait", "record"} => Len(batch[d].entries) < Len(plan[d].entries)
  /\ batch[d].result # Unset /\ at \in Running => Len(batch[d].entries) = Len(plan[d].entries)
  /\ at = "wait" => Started(d, Next1(d))
  /\ at = "record" =>
       /\ worker[d].outcome # Unset
       /\ worker[d].outcome \in Ended =>
            Started(d, Next1(d)) /\ run[plan[d].entries[Next1(d)]].state = worker[d].outcome
  /\ \A i \in DOMAIN plan[d].entries : Started(d, i) => i <= Next1(d)
  /\ Started(d, Next1(d)) => batch[d].result = Unset /\ at \notin Before \cup {"entry", "deliver", "summary"}

\* Of a thread at most one entry was started after the cohort changed, and no more
\* can cross.
Late(d) == {e \in Entry : run[e].by = d /\ run[e].control > plan[d].control}

Drains(d) ==
  plan[d] # Unset /\ InCohort(d) =>
    /\ \A e, f \in Late(d) : e = f
    /\ worker[d].at = "deliver" => Late(d) = {}

Quiet(d) ==
  CurrentMode = "closed" /\ plan[d] # Unset /\ InCohort(d) =>
    ~Alive(d) /\ \A e \in Entry : run[e].by = d => run[e].state \in Ended

\* What holds of one dispatch.
BatchInv(d) ==
  /\ PlanKept(d) /\ WorkerFits(d) /\ Drains(d) /\ Quiet(d)
  /\ Begun(d) => RecordsTrue(d) /\ NextFits(d)

RunsKept ==
  \A e \in Entry : (run[e].by # Unset => run[e].state # "free") /\ run[e].control <= Len(controls)

\* The strengthening that every step preserves.
DispatchInv ==
  DispatchTypeOK /\ controls # <<>> /\ RunsKept /\ \A d \in Batch : BatchInv(d)

----------------------------------------------------------------------------
(* Lemmas about the operators *)

\* A selection is a sequence of entries, each of them once.
LEMMA SelectionIs ==
  ASSUME NEW s \in Selection
  PROVE  /\ s \in Seq(Entry) /\ Len(s) \in Nat \ {0} /\ DOMAIN s = 1..Len(s)
         /\ \A i \in DOMAIN s : s[i] \in Entry
         /\ \A i, j \in DOMAIN s : s[i] = s[j] => i = j
<1>1. PICK k \in 1..MaxEntries : s \in [1..k -> Entry]
  BY DEF Selection
<1>2. s \in Seq(Entry) /\ DOMAIN s = 1..k
  BY <1>1, WorkersAssumption, IsASeq
<1>3. Len(s) = k /\ k \in Nat \ {0}
  BY <1>2, WorkersAssumption, LenProperties
<1> QED
  BY <1>1, <1>2, <1>3 DEF Selection

\* The parts of the files and of the memory, one dispatch at a time.
LEMMA Parts ==
  ASSUME DispatchTypeOK, NEW d \in Batch
  PROVE  /\ plan[d] \in Plan \cup {Unset}
         /\ thread[d] \in ThreadFiles /\ batch[d] \in BatchFiles
         /\ owner[d] \in OwnerFiles /\ worker[d] \in Worker
         /\ batch[d].entries \in Seq(Outcome) /\ Len(batch[d].entries) \in Nat
         /\ DOMAIN batch[d].entries = 1..Len(batch[d].entries)
         /\ \A i \in DOMAIN batch[d].entries : batch[d].entries[i] \in Outcome
<1>1. batch[d].entries \in Seq(Outcome)
  BY DEF DispatchTypeOK, BatchFiles
<1>2. /\ Len(batch[d].entries) \in Nat /\ DOMAIN batch[d].entries = 1..Len(batch[d].entries)
      /\ \A i \in DOMAIN batch[d].entries : batch[d].entries[i] \in Outcome
  BY <1>1, LenProperties, ElementOfSeq
<1> QED
  BY <1>1, <1>2 DEF DispatchTypeOK

LEMMA PlanParts ==
  ASSUME NEW p \in Plan
  PROVE  /\ p # Unset /\ p.cohort \in BOOLEAN /\ p.detached \in BOOLEAN /\ p.control \in Nat
         /\ p.entries \in Selection
         /\ p.entries \in Seq(Entry) /\ Len(p.entries) \in Nat \ {0} /\ DOMAIN p.entries = 1..Len(p.entries)
         /\ \A i \in DOMAIN p.entries : p.entries[i] \in Entry
         /\ \A i, j \in DOMAIN p.entries : p.entries[i] = p.entries[j] => i = j
<1>1. p.entries \in Selection /\ p # Unset
  BY MarkAssumption DEF Plan
<1> QED
  BY <1>1, SelectionIs DEF Plan

\* The marks are no contents.
LEMMA MarksAreOwn ==
  /\ Unset # Torn /\ Unset \notin Plan /\ Unset # "written" /\ Torn # "written"
  /\ Unset # "launch" /\ Unset # "claimed"
  /\ Unset \notin Result /\ Torn \notin Result /\ Unset \notin Outcome /\ Torn \notin Outcome
BY MarkAssumption

----------------------------------------------------------------------------
(* What a step leaves alone *)

\* Another dispatch: its worker may have looked at the controls.
Same(d) ==
  /\ plan'[d] = plan[d] /\ thread'[d] = thread[d] /\ batch'[d] = batch[d]
  /\ owner'[d].completion = owner[d].completion
  /\ worker'[d].at = worker[d].at /\ worker'[d].outcome = worker[d].outcome /\ worker'[d].result = worker[d].result

\* The runs of a dispatch go on to their ends.
RunsStay(d) ==
  \A e \in Entry :
    /\ run'[e].by = d <=> run[e].by = d
    /\ run[e].by = d => run'[e].control = run[e].control
    /\ run[e].by = d /\ run[e].state \in Ended => run'[e].state = run[e].state

LEMMA SameKeeps ==
  ASSUME DispatchTypeOK, NEW d \in Batch, BatchInv(d), Same(d), RunsStay(d),
         Len(controls) \in Nat, Len(controls') \in Nat, Len(controls') >= Len(controls),
         CurrentMode' = "closed" /\ CurrentMode # "closed" => Quiet(d)'
  PROVE  BatchInv(d)'
<1>1. /\ plan[d] \in Plan \cup {Unset}
      /\ Begun(d)' <=> Begun(d)
      /\ DOMAIN batch[d].entries = 1..Len(batch[d].entries) /\ Len(batch[d].entries) \in Nat
  BY Parts DEF Same, Begun
<1>2. ASSUME plan[d] # Unset PROVE plan[d] \in Plan /\ \A i \in DOMAIN plan[d].entries : plan[d].entries[i] \in Entry
  BY <1>1, <1>2, PlanParts
<1>3. PlanKept(d)'
  BY <1>1, <1>2, PlanParts DEF PlanKept, BatchInv, Same, RunsStay, InCohort
<1>4. WorkerFits(d)'
  BY <1>1 DEF WorkerFits, BatchInv, Same, InCohort, Detached
<1>5. ASSUME plan[d] # Unset, NEW i PROVE Started(d, i)' <=> Started(d, i)
  BY <1>2, <1>5 DEF Started, Same, RunsStay
<1>6. ASSUME Begun(d) PROVE RecordsTrue(d)'
  <2>1. plan[d] # Unset /\ RecordsTrue(d)
    BY <1>6 DEF BatchInv, PlanKept
  <2> QED
    BY <1>2, <1>5, <2>1 DEF RecordsTrue, Same, RunsStay, Started
<1>7. ASSUME Begun(d) PROVE NextFits(d)'
  <2>1. plan[d] # Unset /\ NextFits(d)
    BY <1>7 DEF BatchInv, PlanKept
  <2>2. Next1(d)' = Next1(d) /\ Next1(d) = Len(batch[d].entries) + 1
    BY DEF Next1, Same
  <2> QED
    BY <1>2, <1>5, <2>1, <2>2 DEF NextFits, Same, RunsStay, Started
<1>8. Drains(d)'
  BY DEF Drains, BatchInv, Late, Same, RunsStay, InCohort
<1>9. Quiet(d)'
  BY DEF Quiet, BatchInv, Alive, Same, RunsStay, InCohort
<1> QED
  BY <1>1, <1>3, <1>4, <1>6, <1>7, <1>8, <1>9 DEF BatchInv

----------------------------------------------------------------------------
(* Updates *)

Where == {"none", "ticket", "admit", "entry", "deliver", "wait", "record",
          "summary", "thread", "complete", "done", "dead"}

\* The worker of one dispatch moves; the others stay where they are.
Moves(d, at, outcome, result) ==
  /\ worker' \in [Batch -> Worker]
  /\ worker'[d].at = at /\ worker'[d].outcome = outcome /\ worker'[d].result = result
  /\ \A b \in Batch \ {d} : worker'[b] = worker[b]

LEMMA GoesOnIs ==
  ASSUME DispatchTypeOK, NEW d \in Batch, NEW at \in Where, GoesOn(d, at)
  PROVE  Moves(d, at, worker[d].outcome, worker[d].result)
BY DEF GoesOn, DispatchTypeOK, Worker, Where, Moves

LEMMA DecidesIs ==
  ASSUME DispatchTypeOK, NEW d \in Batch, NEW at \in Where, NEW result \in Result, Decides(d, at, result)
  PROVE  Moves(d, at, worker[d].outcome, result)
<1> DEFINE w == [worker[d] EXCEPT !.at = at, !.result = result]
<1>1. w \in Worker /\ w.at = at /\ w.outcome = worker[d].outcome /\ w.result = result
  <2> HIDE DEF Result, Outcome
  <2> QED
    BY DEF DispatchTypeOK, Worker, Where
<1>2. worker' = [worker EXCEPT ![d] = w]
  BY DEF Decides
<1> HIDE DEF w, Worker
<1> QED
  BY <1>1, <1>2 DEF DispatchTypeOK, Moves

LEMMA ReturnsIs ==
  ASSUME DispatchTypeOK, NEW d \in Batch, NEW outcome \in Outcome, Returns(d, outcome)
  PROVE  Moves(d, "record", outcome, worker[d].result)
<1> DEFINE w == [worker[d] EXCEPT !.at = "record", !.outcome = outcome]
<1>1. w \in Worker /\ w.at = "record" /\ w.outcome = outcome /\ w.result = worker[d].result
  BY DEF DispatchTypeOK, Worker
<1>2. worker' = [worker EXCEPT ![d] = w]
  BY DEF Returns
<1> HIDE DEF w
<1> QED
  BY <1>1, <1>2 DEF DispatchTypeOK, Moves

\* One dispatch moves and the others keep what they have.
LEMMA OneStep ==
  ASSUME DispatchInv, NEW d \in Batch, DispatchTypeOK', UNCHANGED controls, RunsKept', BatchInv(d)',
         \A b \in Batch \ {d} : Same(b) /\ RunsStay(b)
  PROVE  DispatchInv'
<1>1. Len(controls) \in Nat /\ CurrentMode' = CurrentMode /\ controls' # <<>>
  BY LenProperties DEF DispatchInv, DispatchTypeOK, CurrentMode
<1>2. ASSUME NEW b \in Batch \ {d} PROVE BatchInv(b)'
  BY <1>1, <1>2, SameKeeps DEF DispatchInv
<1> QED
  BY <1>1, <1>2 DEF DispatchInv

\* A worker that goes on under what was approved: its cohort is not closed.
LEMMA WorkKeeps ==
  ASSUME DispatchInv, NEW d \in Batch, Alive(d), UNCHANGED <<controls, plan, run>>,
         thread'[d].intent = thread[d].intent,
         batch[d].intent = "written" => batch'[d].intent = batch[d].intent,
         WorkerFits(d)', RecordsTrue(d)', NextFits(d)',
         worker'[d].at = "deliver" => Late(d) = {} \/ ~InCohort(d)
  PROVE  BatchInv(d)'
<1>1. Begun(d) /\ PlanKept(d) /\ Drains(d) /\ Quiet(d) /\ WorkerFits(d)
  BY DEF DispatchInv, BatchInv, Alive, WorkerFits
<1>2. PlanKept(d)'
  BY <1>1, MarksAreOwn DEF PlanKept, Begun, InCohort
<1>3. Drains(d)'
  BY <1>1 DEF Drains, Late, InCohort
<1>4. Quiet(d)'
  BY <1>1 DEF Quiet, CurrentMode, PlanKept, InCohort
<1> QED
  BY <1>2, <1>3, <1>4 DEF BatchInv

----------------------------------------------------------------------------
(* The worker *)

LEMMA AtWork ==
  ASSUME DispatchInv, NEW d \in Batch, Begun(d)
  PROVE  /\ plan[d] \in Plan /\ DispatchTypeOK /\ RunsKept
         /\ PlanKept(d) /\ WorkerFits(d) /\ RecordsTrue(d) /\ NextFits(d) /\ Drains(d) /\ Quiet(d)
         /\ worker[d] \in Worker /\ Next1(d) = Len(batch[d].entries) + 1
<1>1. DispatchTypeOK /\ BatchInv(d)
  BY DEF DispatchInv
<1>2. plan[d] \in Plan
  BY <1>1, Parts DEF BatchInv, PlanKept
<1> QED
  BY <1>1, <1>2, Parts DEF BatchInv, DispatchInv, Next1

LEMMA AliveBegun ==
  ASSUME DispatchInv, NEW d \in Batch, Alive(d)
  PROVE  Begun(d)
BY DEF DispatchInv, BatchInv, WorkerFits, Alive

\* A worker takes its ticket, or dies with it.
LEMMA ClaimKeeps ==
  ASSUME DispatchInv, NEW d \in Batch, Claim(d)
  PROVE  DispatchInv'
<1>1. Alive(d) /\ worker[d].at = "ticket"
  BY DEF Claim, Alive
<1>2. Begun(d)
  BY <1>1, AliveBegun
<1>3. /\ plan[d] \in Plan /\ DispatchTypeOK /\ RunsKept /\ PlanKept(d)
      /\ WorkerFits(d) /\ RecordsTrue(d) /\ NextFits(d) /\ Drains(d) /\ Next1(d) = Len(batch[d].entries) + 1
  BY <1>2, AtWork
<1>4. /\ UNCHANGED <<controls, pending, plan, thread, batch, run>>
      /\ faults' \in 0..MaxFaults
  BY <1>3, WorkersAssumption DEF Claim, cohort, WriteFails, DispatchTypeOK
<1> DEFINE at == worker'[d].at
<1>5. /\ Moves(d, at, worker[d].outcome, worker[d].result)
      /\ at \in {"admit", "entry", "dead"}
      /\ at = "admit" => InCohort(d)
      /\ at = "entry" => ~InCohort(d)
  <2>1. CASE /\ owner' = [owner EXCEPT ![d].ticket = "claimed", ![d].owner = TRUE]
             /\ worker' = [worker EXCEPT ![d].at = IF InCohort(d) THEN "admit" ELSE "entry",
                                         ![d].stop = StopRequested(d), ![d].cancel = CancelRequested(d)]
    <3> DEFINE to == IF InCohort(d) THEN "admit" ELSE "entry"
               stop == StopRequested(d)
               cancel == CancelRequested(d)
    <3>1. stop \in BOOLEAN /\ cancel \in BOOLEAN
      <4>1. /\ worker[d].stop \in BOOLEAN /\ worker[d].cancel \in BOOLEAN
            /\ owner[d].stop \in BOOLEAN /\ owner[d].cancel \in BOOLEAN
        BY <1>3 DEF DispatchTypeOK, Worker, OwnerFiles
      <4> QED
        BY <4>1 DEF StopRequested, CancelRequested
    <3> HIDE DEF stop, cancel
    <3>2. Moves(d, to, worker[d].outcome, worker[d].result)
      <4> DEFINE w == [worker[d] EXCEPT !.at = to, !.stop = stop, !.cancel = cancel]
      <4>1. w \in Worker /\ w.at = to /\ w.outcome = worker[d].outcome /\ w.result = worker[d].result
        BY <1>3, <3>1 DEF DispatchTypeOK, Worker
      <4>2. worker' = [worker EXCEPT ![d] = w]
        BY <2>1 DEF stop, cancel
      <4> HIDE DEF w, to
      <4> QED
        BY <1>3, <4>1, <4>2 DEF DispatchTypeOK, Moves
    <3> QED
      BY <3>2 DEF Moves
  <2>2. CASE GoesOn(d, "dead")
    BY <1>3, <2>2, GoesOnIs DEF Where, Moves
  <2> QED
    BY <2>1, <2>2 DEF Claim
<1>6. /\ owner' \in [Batch -> OwnerFiles] /\ \A b \in Batch : owner'[b].completion = owner[b].completion
  <2>1. CASE owner' = [owner EXCEPT ![d].ticket = "claimed", ![d].owner = TRUE]
    BY <1>3, <2>1 DEF DispatchTypeOK, OwnerFiles
  <2>2. CASE owner' = [owner EXCEPT ![d].ticket = "claimed"]
    BY <1>3, <2>2 DEF DispatchTypeOK, OwnerFiles
  <2> QED
    BY <2>1, <2>2 DEF Claim
<1>7. DispatchTypeOK' /\ RunsKept'
  BY <1>3, <1>4, <1>5, <1>6 DEF DispatchTypeOK, RunsKept, Moves
<1>8. WorkerFits(d)'
  BY <1>1, <1>3, <1>4, <1>5, <1>6 DEF WorkerFits, Moves, Before, Running, Begun, InCohort, Detached
<1>9. RecordsTrue(d)' /\ NextFits(d)'
  <2>1. batch[d].entries = <<>> /\ batch[d].result = Unset /\ ~Started(d, Next1(d))
    BY <1>1, <1>3 DEF WorkerFits, NextFits, Before
  <2>2. Next1(d)' = Next1(d) /\ (\A i : Started(d, i)' <=> Started(d, i))
    BY <1>4 DEF Next1, Started
  <2> QED
    BY <1>3, <1>4, <1>5, <2>1, <2>2 DEF RecordsTrue, NextFits, Moves, Before, Running
<1>10. BatchInv(d)'
  <2>1. /\ UNCHANGED <<controls, plan, run>> /\ thread'[d].intent = thread[d].intent
        /\ batch'[d].intent = batch[d].intent /\ worker'[d].at # "deliver"
    BY <1>4, <1>5
  <2> QED
    BY <1>1, <1>8, <1>9, <2>1, WorkKeeps
<1>11. \A b \in Batch \ {d} : Same(b) /\ RunsStay(b)
  BY <1>4, <1>5, <1>6 DEF Same, RunsStay, Moves
<1> QED
  BY <1>4, <1>7, <1>10, <1>11, OneStep

\* What a worker does to anything but its own is nothing.
OwnOnly(d) ==
  /\ UNCHANGED <<controls, pending, plan, run>> /\ faults' \in 0..MaxFaults
  /\ worker' \in [Batch -> Worker] /\ batch' \in [Batch -> BatchFiles]
  /\ thread' \in [Batch -> ThreadFiles] /\ owner' \in [Batch -> OwnerFiles]
  /\ \A b \in Batch \ {d} :
       /\ worker'[b] = worker[b] /\ batch'[b] = batch[b] /\ thread'[b] = thread[b]
       /\ owner'[b].completion = owner[b].completion

LEMMA WorkStep ==
  ASSUME DispatchInv, NEW d \in Batch, Alive(d), OwnOnly(d),
         thread'[d].intent = thread[d].intent,
         batch[d].intent = "written" => batch'[d].intent = batch[d].intent,
         WorkerFits(d)', RecordsTrue(d)', NextFits(d)',
         worker'[d].at = "deliver" => Late(d) = {} \/ ~InCohort(d)
  PROVE  DispatchInv'
<1>1. DispatchTypeOK' /\ RunsKept' /\ UNCHANGED <<controls, plan, run>>
  BY DEF OwnOnly, DispatchInv, DispatchTypeOK, RunsKept
<1>2. BatchInv(d)'
  BY <1>1, WorkKeeps
<1>3. \A b \in Batch \ {d} : Same(b) /\ RunsStay(b)
  BY DEF OwnOnly, Same, RunsStay
<1> QED
  BY <1>1, <1>2, <1>3, OneStep

LEMMA FaultsFit ==
  ASSUME DispatchTypeOK, UNCHANGED faults \/ WriteFails
  PROVE  faults' \in 0..MaxFaults
BY WorkersAssumption DEF DispatchTypeOK, WriteFails

\* The records of one dispatch are written.
Writes(d, intent, entries, result) ==
  /\ batch' \in [Batch -> BatchFiles]
  /\ batch'[d].intent = intent /\ batch'[d].entries = entries /\ batch'[d].result = result
  /\ \A b \in Batch \ {d} : batch'[b] = batch[b]

LEMMA WritesIs ==
  ASSUME DispatchTypeOK, NEW d \in Batch, NEW files_ \in BatchFiles, batch' = [batch EXCEPT ![d] = files_]
  PROVE  Writes(d, files_.intent, files_.entries, files_.result)
BY DEF DispatchTypeOK, Writes

LEMMA IntentIs ==
  ASSUME DispatchTypeOK, NEW d \in Batch, NEW intent \in {"written", Torn},
         batch' = [batch EXCEPT ![d].intent = intent]
  PROVE  Writes(d, intent, batch[d].entries, batch[d].result)
<1> DEFINE f == [batch[d] EXCEPT !.intent = intent]
<1>1. f \in BatchFiles /\ f.intent = intent /\ f.entries = batch[d].entries /\ f.result = batch[d].result
  BY DEF DispatchTypeOK, BatchFiles, File
<1>2. batch' = [batch EXCEPT ![d] = f]
  OBVIOUS
<1> HIDE DEF f
<1> QED
  BY <1>1, <1>2, WritesIs

LEMMA ResultIs ==
  ASSUME DispatchTypeOK, NEW d \in Batch, NEW result \in Result \cup {Torn},
         batch' = [batch EXCEPT ![d].result = result]
  PROVE  Writes(d, batch[d].intent, batch[d].entries, result)
<1> DEFINE f == [batch[d] EXCEPT !.result = result]
<1>1. f \in BatchFiles /\ f.intent = batch[d].intent /\ f.entries = batch[d].entries /\ f.result = result
  <2> HIDE DEF Result
  <2> QED
    BY DEF DispatchTypeOK, BatchFiles, File
<1>2. batch' = [batch EXCEPT ![d] = f]
  OBVIOUS
<1> HIDE DEF f
<1> QED
  BY <1>1, <1>2, WritesIs

LEMMA EntryIs ==
  ASSUME DispatchTypeOK, NEW d \in Batch, NEW outcome \in Outcome,
         batch' = [batch EXCEPT ![d].entries = Append(@, outcome)]
  PROVE  /\ Writes(d, batch[d].intent, Append(batch[d].entries, outcome), batch[d].result)
         /\ Len(batch'[d].entries) = Len(batch[d].entries) + 1
         /\ DOMAIN batch'[d].entries = 1..(Len(batch[d].entries) + 1)
         /\ batch'[d].entries[Len(batch[d].entries) + 1] = outcome
         /\ \A i \in 1..Len(batch[d].entries) : batch'[d].entries[i] = batch[d].entries[i]
<1> DEFINE s == Append(batch[d].entries, outcome)
           f == [batch[d] EXCEPT !.entries = s]
<1>1. /\ s \in Seq(Outcome) /\ Len(s) = Len(batch[d].entries) + 1
      /\ DOMAIN s = 1..(Len(batch[d].entries) + 1) /\ s[Len(batch[d].entries) + 1] = outcome
      /\ \A i \in 1..Len(batch[d].entries) : s[i] = batch[d].entries[i]
  BY Parts, AppendProperties, LenProperties
<1> HIDE DEF s
<1>2. f \in BatchFiles /\ f.intent = batch[d].intent /\ f.entries = s /\ f.result = batch[d].result
  BY <1>1 DEF DispatchTypeOK, BatchFiles
<1>3. batch' = [batch EXCEPT ![d] = f]
  BY DEF s
<1> HIDE DEF f
<1>4. Writes(d, batch[d].intent, s, batch[d].result)
  BY <1>2, <1>3, WritesIs
<1> QED
  BY <1>1, <1>4 DEF Writes, s

LEMMA EntriesStay ==
  ASSUME NEW d \in Batch, UNCHANGED <<plan, run>>, batch'[d].entries = batch[d].entries
  PROVE  Next1(d)' = Next1(d) /\ \A i : Started(d, i)' <=> Started(d, i)
BY DEF Next1, Started

LEMMA ErrorIs == Error \in Result /\ Error # Unset
<1>1. Error \in Result
  BY DEF Error, Result, Status
<1> QED
  BY <1>1, MarksAreOwn

\* A thread that begins finds none of its entries started.
LEMMA DispatchAdmitKeeps ==
  ASSUME DispatchInv, NEW d \in Batch, AdmitDispatch(d)
  PROVE  DispatchInv'
<1>1. Alive(d) /\ worker[d].at = "admit"
  BY DEF AdmitDispatch, Alive
<1>2. Begun(d)
  BY <1>1, AliveBegun
<1>3. /\ plan[d] \in Plan /\ DispatchTypeOK /\ PlanKept(d)
      /\ WorkerFits(d) /\ RecordsTrue(d) /\ NextFits(d) /\ Next1(d) = Len(batch[d].entries) + 1
  BY <1>2, AtWork
<1>4. /\ InCohort(d) /\ batch[d].intent = Unset /\ batch[d].entries = <<>> /\ batch[d].result = Unset
      /\ thread[d].intent = "written" /\ thread[d].result = Unset /\ owner[d].completion = Unset
  BY <1>1, <1>3, PlanParts DEF WorkerFits, Before
<1>5. \A e \in Entry : run[e].by # d
  BY <1>3, <1>4, MarksAreOwn DEF PlanKept
<1>6. \A i : ~Started(d, i)
  BY <1>3, <1>5, PlanParts DEF Started
<1>7. UNCHANGED <<controls, pending, plan, thread, owner, run>> /\ faults' \in 0..MaxFaults
  BY <1>3, FaultsFit DEF AdmitDispatch, cohort
<1> DEFINE at == worker'[d].at
<1>8. ASSUME NEW result \in Result, Decides(d, "thread", result)
      PROVE  /\ worker' \in [Batch -> Worker] /\ \A b \in Batch \ {d} : worker'[b] = worker[b]
             /\ at = "thread" /\ worker'[d].result # Unset
  <2>1. Moves(d, "thread", worker[d].outcome, result)
    BY <1>3, <1>8, DecidesIs DEF Where
  <2> QED
    BY <2>1, MarksAreOwn DEF Moves
<1>9. ASSUME UNCHANGED batch PROVE /\ batch' \in [Batch -> BatchFiles] /\ \A b \in Batch \ {d} : batch'[b] = batch[b]
             /\ batch'[d].entries = <<>> /\ batch'[d].result = Unset
             /\ batch'[d].intent = Unset
  BY <1>3, <1>4, <1>9 DEF DispatchTypeOK
<1>10. ASSUME NEW intent \in {"written", Torn}, batch' = [batch EXCEPT ![d].intent = intent]
       PROVE /\ batch' \in [Batch -> BatchFiles] /\ \A b \in Batch \ {d} : batch'[b] = batch[b]
             /\ batch'[d].entries = <<>> /\ batch'[d].result = Unset /\ batch'[d].intent = intent
  BY <1>3, <1>4, <1>10, IntentIs DEF Writes
<1>11. /\ worker' \in [Batch -> Worker] /\ \A b \in Batch \ {d} : worker'[b] = worker[b]
       /\ batch' \in [Batch -> BatchFiles] /\ \A b \in Batch \ {d} : batch'[b] = batch[b]
       /\ batch'[d].entries = <<>> /\ batch'[d].result = Unset
       /\ at \in {"thread", "entry"}
       /\ at = "thread" => worker'[d].result # Unset
       /\ at = "entry" => batch'[d].intent = "written"
  <2>1. CASE Decides(d, "thread", Error) /\ UNCHANGED batch
    BY <1>8, <1>9, <2>1, ErrorIs
  <2>2. CASE /\ UNCHANGED batch
             /\ Decides(d, "thread", [status |-> IF worker[d].cancel THEN "cancelled" ELSE "succeeded",
                                      reason |-> "before-admission"])
    <3>1. [status |-> IF worker[d].cancel THEN "cancelled" ELSE "succeeded", reason |-> "before-admission"] \in Result
      BY DEF Result, Status
    <3> QED
      BY <1>8, <1>9, <2>2, <3>1
  <2>3. CASE batch' = [batch EXCEPT ![d].intent = "written"] /\ GoesOn(d, "entry")
    <3>1. Moves(d, "entry", worker[d].outcome, worker[d].result)
      BY <1>3, <2>3, GoesOnIs DEF Where
    <3> QED
      BY <1>10, <2>3, <3>1 DEF Moves
  <2>4. CASE batch' = [batch EXCEPT ![d].intent = Torn] /\ Decides(d, "thread", Error)
    BY <1>8, <1>10, <2>4, ErrorIs
  <2> QED
    BY <2>1, <2>2, <2>3, <2>4 DEF AdmitDispatch
<1>12. OwnOnly(d)
  BY <1>3, <1>7, <1>11 DEF OwnOnly, DispatchTypeOK
<1>13. WorkerFits(d)'
  BY <1>4, <1>7, <1>11, MarksAreOwn DEF WorkerFits, Before, Running, Begun, InCohort, Detached
<1>14. RecordsTrue(d)' /\ NextFits(d)'
  <2>1. Next1(d)' = Next1(d) /\ (\A i : ~Started(d, i)')
    BY <1>4, <1>6, <1>7, <1>11, EntriesStay
  <2>2. DOMAIN <<>> = 1..0 /\ Len(batch'[d].entries) = 0 /\ Len(plan[d].entries) \in Nat \ {0} /\ Next1(d) = 1
    BY <1>3, <1>4, <1>11, PlanParts DEF Next1
  <2> QED
    BY <1>3, <1>7, <1>11, <2>1, <2>2 DEF RecordsTrue, NextFits, Before, Running
<1>15. thread'[d].intent = thread[d].intent /\ batch[d].intent # "written" /\ worker'[d].at # "deliver"
  BY <1>4, <1>7, <1>11, MarksAreOwn
<1> QED
  BY <1>1, <1>12, <1>13, <1>14, <1>15, WorkStep

\* A worker that moves and writes nothing down.
LEMMA MoveStep ==
  ASSUME DispatchInv, NEW d \in Batch, Alive(d), worker' \in [Batch -> Worker],
         \A b \in Batch \ {d} : worker'[b] = worker[b],
         UNCHANGED <<controls, pending, plan, thread, batch, owner, run>>, faults' \in 0..MaxFaults,
         WorkerFits(d)', RecordsTrue(d)', NextFits(d)',
         worker'[d].at = "deliver" => Late(d) = {} \/ ~InCohort(d)
  PROVE  DispatchInv'
<1>1. OwnOnly(d)
  BY DEF OwnOnly, DispatchInv, DispatchTypeOK
<1> QED
  BY <1>1, WorkStep

\* An entry is selected under the controls that were approved.
LEMMA SelectKeeps ==
  ASSUME DispatchInv, NEW d \in Batch, Select(d)
  PROVE  DispatchInv'
<1>1. Alive(d) /\ worker[d].at = "entry"
  BY DEF Select, Alive
<1>2. Begun(d)
  BY <1>1, AliveBegun
<1>3. /\ plan[d] \in Plan /\ DispatchTypeOK /\ PlanKept(d) /\ RunsKept
      /\ WorkerFits(d) /\ RecordsTrue(d) /\ NextFits(d) /\ Next1(d) = Len(batch[d].entries) + 1
  BY <1>2, AtWork
<1>4. UNCHANGED <<controls, pending, plan, thread, batch, owner, run>> /\ faults' \in 0..MaxFaults
  BY <1>3, FaultsFit DEF Select, cohort, files
<1> DEFINE at == worker'[d].at
<1>5. ASSUME NEW result \in Result, Decides(d, "summary", result)
      PROVE  /\ worker' \in [Batch -> Worker] /\ \A b \in Batch \ {d} : worker'[b] = worker[b]
             /\ at = "summary" /\ worker'[d].result # Unset
  <2>1. Moves(d, "summary", worker[d].outcome, result)
    BY <1>3, <1>5, DecidesIs DEF Where
  <2> QED
    BY <2>1, MarksAreOwn DEF Moves
<1>6. /\ [status |-> "succeeded", reason |-> "completed"] \in Result
      /\ [status |-> "cancelled", reason |-> "cancelled"] \in Result
      /\ [status |-> "succeeded", reason |-> "stopped"] \in Result
  BY DEF Result, Status
<1>7. /\ worker' \in [Batch -> Worker] /\ \A b \in Batch \ {d} : worker'[b] = worker[b]
      /\ at \in {"summary", "deliver"}
      /\ at = "summary" => worker'[d].result # Unset
      /\ at = "deliver" => Next1(d) <= Len(plan[d].entries) /\ ~StopRequested(d)
  <2>1. CASE GoesOn(d, "deliver") /\ Next1(d) <= Len(plan[d].entries) /\ ~StopRequested(d)
    <3>1. Moves(d, "deliver", worker[d].outcome, worker[d].result)
      BY <1>3, <2>1, GoesOnIs DEF Where
    <3> QED
      BY <2>1, <3>1 DEF Moves
  <2>2. CASE Decides(d, "summary", [status |-> "succeeded", reason |-> "completed"])
    BY <1>5, <1>6, <2>2
  <2>3. CASE Decides(d, "summary", [status |-> "cancelled", reason |-> "cancelled"])
    BY <1>5, <1>6, <2>3
  <2>4. CASE Decides(d, "summary", [status |-> "succeeded", reason |-> "stopped"])
    BY <1>5, <1>6, <2>4
  <2> QED
    BY <2>1, <2>2, <2>3, <2>4 DEF Select
<1>8. at = "deliver" => Late(d) = {} \/ ~InCohort(d)
  <2>1. SUFFICES ASSUME ~StopRequested(d), InCohort(d), NEW e \in Entry, run[e].control > plan[d].control
                 PROVE  FALSE
    BY <1>7 DEF Late
  <2>2. Len(controls) = plan[d].control /\ run[e].control <= Len(controls) /\ run[e].control \in Nat /\ plan[d].control \in Nat
    BY <1>3, <2>1, PlanParts DEF StopRequested, RunsKept, DispatchTypeOK, RunRecord
  <2> QED
    BY <2>1, <2>2
<1>9. WorkerFits(d)'
  BY <1>1, <1>3, <1>4, <1>7 DEF WorkerFits, Before, Running, Begun, InCohort, Detached
<1>10. RecordsTrue(d)' /\ NextFits(d)'
  <2>1. Next1(d)' = Next1(d) /\ (\A i : Started(d, i)' <=> Started(d, i))
    BY <1>4, EntriesStay
  <2>2. Len(plan[d].entries) \in Nat /\ Len(batch[d].entries) \in Nat
    BY <1>3, PlanParts, Parts
  <2> QED
    BY <1>1, <1>3, <1>4, <1>7, <2>1, <2>2 DEF RecordsTrue, NextFits, Before, Running
<1> QED
  BY <1>1, <1>4, <1>7, <1>8, <1>9, <1>10, MoveStep

\* The end of the entry in hand is known, or was not confirmed.
LEMMA ReturnKeeps ==
  ASSUME DispatchInv, NEW d \in Batch, Return(d)
  PROVE  DispatchInv'
<1>1. Alive(d) /\ worker[d].at = "wait"
  BY DEF Return, Alive
<1>2. Begun(d)
  BY <1>1, AliveBegun
<1>3. /\ plan[d] \in Plan /\ DispatchTypeOK /\ PlanKept(d) /\ RunsKept
      /\ WorkerFits(d) /\ RecordsTrue(d) /\ NextFits(d) /\ Next1(d) = Len(batch[d].entries) + 1
  BY <1>2, AtWork
<1>4. UNCHANGED <<controls, pending, plan, thread, batch, owner, run>> /\ faults' \in 0..MaxFaults
  BY <1>3, FaultsFit DEF Return, cohort, files
<1> DEFINE state == run[plan[d].entries[Next1(d)]].state
           outcome == worker'[d].outcome
<1>5. Started(d, Next1(d)) /\ state \in {"held"} \cup Ended
  <2>1. Started(d, Next1(d))
    BY <1>1, <1>3 DEF NextFits
  <2>2. plan[d].entries[Next1(d)] \in Entry /\ d # Unset
    BY <1>3, <2>1, PlanParts, OperatorAssumption DEF Started
  <2> QED
    BY <1>3, <2>1, <2>2 DEF Started, RunsKept, DispatchTypeOK, RunRecord
<1>6. /\ worker' \in [Batch -> Worker] /\ \A b \in Batch \ {d} : worker'[b] = worker[b]
      /\ worker'[d].at = "record" /\ outcome # Unset /\ (outcome \in Ended => state = outcome)
  <2>1. "uncertain" \in Outcome /\ "uncertain" \notin Ended /\ (state # "held" => state \in Outcome)
    BY <1>5 DEF Outcome, Ended
  <2>2. CASE state = "held" /\ Returns(d, "uncertain")
    <3>1. Moves(d, "record", "uncertain", worker[d].result)
      BY <1>3, <2>1, <2>2, ReturnsIs
    <3> QED
      BY <2>1, <3>1, MarksAreOwn DEF Moves
  <2>3. CASE state # "held" /\ Returns(d, state)
    <3>1. Moves(d, "record", state, worker[d].result)
      BY <1>3, <2>1, <2>3, ReturnsIs
    <3> QED
      BY <2>1, <2>3, <3>1, MarksAreOwn DEF Moves
  <2> QED
    BY <2>2, <2>3 DEF Return
<1>7. WorkerFits(d)'
  BY <1>1, <1>3, <1>4, <1>6 DEF WorkerFits, Before, Running, Begun, InCohort, Detached
<1>8. RecordsTrue(d)' /\ NextFits(d)'
  <2>1. Next1(d)' = Next1(d) /\ (\A i : Started(d, i)' <=> Started(d, i))
    BY <1>4, EntriesStay
  <2> QED
    BY <1>1, <1>3, <1>4, <1>5, <1>6, <2>1 DEF RecordsTrue, NextFits, Before, Running
<1> QED
  BY <1>1, <1>4, <1>6, <1>7, <1>8, MoveStep

\* A killed worker leaves its files as they are.
LEMMA DiesKeeps ==
  ASSUME DispatchInv, NEW d \in Batch, WorkerDies(d)
  PROVE  DispatchInv'
<1>1. Alive(d)
  BY DEF WorkerDies
<1>2. Begun(d)
  BY <1>1, AliveBegun
<1>3. /\ plan[d] \in Plan /\ DispatchTypeOK /\ PlanKept(d) /\ RunsKept
      /\ WorkerFits(d) /\ RecordsTrue(d) /\ NextFits(d) /\ Next1(d) = Len(batch[d].entries) + 1
  BY <1>2, AtWork
<1>4. UNCHANGED <<controls, pending, plan, thread, batch, owner, run>> /\ faults' \in 0..MaxFaults
  BY <1>3, FaultsFit DEF WorkerDies, cohort, files
<1>5. /\ worker' \in [Batch -> Worker] /\ \A b \in Batch \ {d} : worker'[b] = worker[b]
      /\ worker'[d].at = "dead"
  <2>1. Moves(d, "dead", worker[d].outcome, worker[d].result)
    BY <1>3, GoesOnIs DEF Where, WorkerDies
  <2> QED
    BY <2>1 DEF Moves
<1>6. WorkerFits(d)'
  BY <1>1, <1>3, <1>4, <1>5 DEF WorkerFits, Before, Running, Begun, InCohort, Detached, Alive
<1>7. RecordsTrue(d)' /\ NextFits(d)'
  <2>1. Next1(d)' = Next1(d) /\ (\A i : Started(d, i)' <=> Started(d, i))
    BY <1>4, EntriesStay
  <2> QED
    BY <1>1, <1>3, <1>4, <1>5, <2>1 DEF RecordsTrue, NextFits, Before, Running
<1> QED
  BY <1>1, <1>4, <1>5, <1>6, <1>7, MoveStep

\* Where a result is reported, its reader is there.
LEMMA AboveIs ==
  ASSUME NEW d \in Batch
  PROVE  /\ Above(d) \in {"thread", "complete", "done"} /\ Above(d) \in Where
         /\ Above(d) = "thread" => InCohort(d)
         /\ Above(d) = "complete" => Detached(d)
BY DEF Above, Where

\* The files of one dispatch, when its worker writes a result there.
LEMMA ThreadKeeps ==
  ASSUME DispatchInv, NEW d \in Batch, ThreadResult(d)
  PROVE  DispatchInv'
<1>1. Alive(d) /\ worker[d].at = "thread"
  BY DEF ThreadResult, Alive
<1>2. Begun(d)
  BY <1>1, AliveBegun
<1>3. /\ plan[d] \in Plan /\ DispatchTypeOK /\ worker[d] \in Worker
      /\ WorkerFits(d) /\ RecordsTrue(d) /\ NextFits(d) /\ Next1(d) = Len(batch[d].entries) + 1
  BY <1>2, AtWork
<1>4. UNCHANGED <<controls, pending, plan, batch, owner, run>> /\ faults' \in 0..MaxFaults
  BY <1>3, FaultsFit DEF ThreadResult, cohort
<1>5. worker[d].result \in Result /\ worker[d].result # Unset
  BY <1>1, <1>3 DEF WorkerFits, Worker
<1> DEFINE to == IF Detached(d) THEN "complete" ELSE "done"
           at == worker'[d].at
<1>6. /\ worker' \in [Batch -> Worker] /\ \A b \in Batch \ {d} : worker'[b] = worker[b]
      /\ at = to /\ worker'[d].result # Unset
  <2>1. to \in Where
    BY DEF Where
  <2>2. CASE GoesOn(d, to)
    <3>1. Moves(d, to, worker[d].outcome, worker[d].result)
      BY <1>3, <2>1, <2>2, GoesOnIs
    <3> QED
      BY <1>5, <3>1 DEF Moves
  <2>3. CASE Decides(d, to, Error)
    <3>1. Moves(d, to, worker[d].outcome, Error)
      BY <1>3, <2>1, <2>3, DecidesIs, ErrorIs
    <3> QED
      BY <3>1, ErrorIs DEF Moves
  <2> QED
    BY <2>2, <2>3 DEF ThreadResult
<1>7. /\ thread' \in [Batch -> ThreadFiles] /\ thread'[d].intent = thread[d].intent
      /\ \A b \in Batch \ {d} : thread'[b] = thread[b]
  <2>1. ASSUME NEW result \in Result \cup {Torn}, thread' = [thread EXCEPT ![d].result = result]
        PROVE  /\ thread' \in [Batch -> ThreadFiles] /\ thread'[d].intent = thread[d].intent
               /\ \A b \in Batch \ {d} : thread'[b] = thread[b]
    <3> DEFINE f == [thread[d] EXCEPT !.result = result]
    <3>1. f \in ThreadFiles /\ f.intent = thread[d].intent
      <4> HIDE DEF Result
      <4> QED
        BY <1>3 DEF DispatchTypeOK, ThreadFiles, File
    <3>2. thread' = [thread EXCEPT ![d] = f]
      BY <2>1
    <3> HIDE DEF f
    <3> QED
      BY <1>3, <3>1, <3>2 DEF DispatchTypeOK
  <2> QED
    BY <1>5, <2>1 DEF ThreadResult
<1>8. OwnOnly(d)
  BY <1>3, <1>4, <1>6, <1>7 DEF OwnOnly, DispatchTypeOK
<1>9. WorkerFits(d)'
  BY <1>1, <1>3, <1>4, <1>6, <1>7 DEF WorkerFits, Before, Running, Begun, InCohort, Detached
<1>10. RecordsTrue(d)' /\ NextFits(d)'
  <2>1. Next1(d)' = Next1(d) /\ (\A i : Started(d, i)' <=> Started(d, i))
    BY <1>4, EntriesStay
  <2> QED
    BY <1>1, <1>3, <1>4, <1>6, <2>1 DEF RecordsTrue, NextFits, Before, Running
<1>11. worker'[d].at # "deliver" /\ UNCHANGED batch
  BY <1>4, <1>6
<1> QED
  BY <1>1, <1>7, <1>8, <1>9, <1>10, <1>11, WorkStep

LEMMA CompletionKeeps ==
  ASSUME DispatchInv, NEW d \in Batch, ReportCompletion(d)
  PROVE  DispatchInv'
<1>1. Alive(d) /\ worker[d].at = "complete"
  BY DEF ReportCompletion, Alive
<1>2. Begun(d)
  BY <1>1, AliveBegun
<1>3. /\ plan[d] \in Plan /\ DispatchTypeOK /\ worker[d] \in Worker
      /\ WorkerFits(d) /\ RecordsTrue(d) /\ NextFits(d) /\ Next1(d) = Len(batch[d].entries) + 1
  BY <1>2, AtWork
<1>4. UNCHANGED <<controls, pending, plan, batch, thread, run>> /\ faults' \in 0..MaxFaults
  BY <1>3, FaultsFit DEF ReportCompletion, cohort
<1>5. worker[d].result \in Result
  BY <1>1, <1>3 DEF WorkerFits, Worker
<1>6. /\ worker' \in [Batch -> Worker] /\ \A b \in Batch \ {d} : worker'[b] = worker[b]
      /\ worker'[d].at = "done"
  <2>1. Moves(d, "done", worker[d].outcome, worker[d].result)
    BY <1>3, GoesOnIs DEF Where, ReportCompletion
  <2> QED
    BY <2>1 DEF Moves
<1>7. owner' \in [Batch -> OwnerFiles] /\ \A b \in Batch \ {d} : owner'[b] = owner[b]
  <2>1. ASSUME NEW result \in Result \cup {Torn}, owner' = [owner EXCEPT ![d].completion = result]
        PROVE  owner' \in [Batch -> OwnerFiles] /\ \A b \in Batch \ {d} : owner'[b] = owner[b]
    <3> DEFINE f == [owner[d] EXCEPT !.completion = result]
    <3>1. f \in OwnerFiles
      <4> HIDE DEF Result
      <4> QED
        BY <1>3 DEF DispatchTypeOK, OwnerFiles, File
    <3>2. owner' = [owner EXCEPT ![d] = f]
      BY <2>1
    <3> HIDE DEF f
    <3> QED
      BY <1>3, <3>1, <3>2 DEF DispatchTypeOK
  <2> QED
    BY <1>5, <2>1 DEF ReportCompletion
<1>8. OwnOnly(d)
  BY <1>3, <1>4, <1>6, <1>7 DEF OwnOnly, DispatchTypeOK
<1>9. WorkerFits(d)'
  BY <1>1, <1>3, <1>4, <1>6, <1>7 DEF WorkerFits, Before, Running, Begun, InCohort, Detached
<1>10. RecordsTrue(d)' /\ NextFits(d)'
  <2>1. Next1(d)' = Next1(d) /\ (\A i : Started(d, i)' <=> Started(d, i))
    BY <1>4, EntriesStay
  <2> QED
    BY <1>1, <1>3, <1>4, <1>6, <2>1 DEF RecordsTrue, NextFits, Before, Running
<1>11. worker'[d].at # "deliver" /\ UNCHANGED <<batch, thread>>
  BY <1>4, <1>6
<1> QED
  BY <1>1, <1>8, <1>9, <1>10, <1>11, WorkStep

\* A summary is written over entries that nothing will be added to.
LEMMA SummariseKeeps ==
  ASSUME DispatchInv, NEW d \in Batch, Summarise(d)
  PROVE  DispatchInv'
<1>1. Alive(d) /\ worker[d].at = "summary"
  BY DEF Summarise, Alive
<1>2. Begun(d)
  BY <1>1, AliveBegun
<1>3. /\ plan[d] \in Plan /\ DispatchTypeOK /\ worker[d] \in Worker
      /\ WorkerFits(d) /\ RecordsTrue(d) /\ NextFits(d) /\ Next1(d) = Len(batch[d].entries) + 1
  BY <1>2, AtWork
<1>4. UNCHANGED <<controls, pending, plan, thread, owner, run>> /\ faults' \in 0..MaxFaults
  BY <1>3, FaultsFit DEF Summarise, cohort
<1>5. worker[d].result \in Result /\ worker[d].result # Unset
  BY <1>1, <1>3 DEF WorkerFits, Worker
<1> DEFINE at == worker'[d].at
<1>6. /\ worker' \in [Batch -> Worker] /\ \A b \in Batch \ {d} : worker'[b] = worker[b]
      /\ at = Above(d) /\ worker'[d].result # Unset
  <2>1. CASE GoesOn(d, Above(d))
    <3>1. Moves(d, Above(d), worker[d].outcome, worker[d].result)
      BY <1>3, <2>1, GoesOnIs, AboveIs
    <3> QED
      BY <1>5, <3>1 DEF Moves
  <2>2. CASE Decides(d, Above(d), Error)
    <3>1. Moves(d, Above(d), worker[d].outcome, Error)
      BY <1>3, <2>2, DecidesIs, ErrorIs, AboveIs
    <3> QED
      BY <3>1, ErrorIs DEF Moves
  <2> QED
    BY <2>1, <2>2 DEF Summarise
<1>7. /\ batch' \in [Batch -> BatchFiles] /\ batch'[d].intent = batch[d].intent
      /\ batch'[d].entries = batch[d].entries /\ \A b \in Batch \ {d} : batch'[b] = batch[b]
  <2>1. ASSUME NEW result \in Result \cup {Torn}, batch' = [batch EXCEPT ![d].result = result]
        PROVE  Writes(d, batch[d].intent, batch[d].entries, result)
    BY <1>3, <2>1, ResultIs
  <2>2. CASE batch' = [batch EXCEPT ![d].result = worker[d].result]
    BY <1>5, <2>1, <2>2 DEF Writes
  <2>3. CASE batch' = [batch EXCEPT ![d].result = Torn]
    BY <2>1, <2>3 DEF Writes
  <2>4. CASE UNCHANGED batch
    BY <1>3, <2>4 DEF DispatchTypeOK
  <2> QED
    BY <2>2, <2>3, <2>4 DEF Summarise
<1>8. OwnOnly(d)
  BY <1>3, <1>4, <1>6, <1>7 DEF OwnOnly, DispatchTypeOK
<1>9. WorkerFits(d)'
  <2>1. at \in {"thread", "complete", "done"} /\ (at = "thread" => InCohort(d)) /\ (at = "complete" => Detached(d))
    BY <1>6, AboveIs
  <2> QED
    BY <1>1, <1>3, <1>4, <1>6, <1>7, <2>1 DEF WorkerFits, Before, Running, Begun, InCohort, Detached
<1>10. RecordsTrue(d)' /\ NextFits(d)'
  <2>1. Next1(d)' = Next1(d) /\ (\A i : Started(d, i)' <=> Started(d, i))
    BY <1>4, <1>7, EntriesStay
  <2>2. at \in {"thread", "complete", "done"}
    BY <1>6, AboveIs
  <2> QED
    BY <1>1, <1>3, <1>4, <1>6, <1>7, <2>1, <2>2 DEF RecordsTrue, NextFits, Before, Running
<1>11. worker'[d].at # "deliver" /\ thread'[d].intent = thread[d].intent
  BY <1>4, <1>6, AboveIs
<1> QED
  BY <1>1, <1>7, <1>8, <1>9, <1>10, <1>11, WorkStep

\* What is recorded is how the entry in hand ended; only a success goes on.
LEMMA RecordEntryKeeps ==
  ASSUME DispatchInv, NEW d \in Batch, RecordEntry(d)
  PROVE  DispatchInv'
<1>1. Alive(d) /\ worker[d].at = "record"
  BY DEF RecordEntry, Alive
<1>2. Begun(d)
  BY <1>1, AliveBegun
<1>3. /\ plan[d] \in Plan /\ DispatchTypeOK /\ worker[d] \in Worker
      /\ WorkerFits(d) /\ RecordsTrue(d) /\ NextFits(d) /\ Next1(d) = Len(batch[d].entries) + 1
  BY <1>2, AtWork
<1>4. UNCHANGED <<controls, pending, plan, thread, owner, run>> /\ faults' \in 0..MaxFaults
  BY <1>3, FaultsFit DEF RecordEntry, cohort
<1> DEFINE outcome == worker[d].outcome
           at == worker'[d].at
           n == Len(batch[d].entries)
<1>5. outcome \in Outcome
  BY <1>1, <1>3 DEF NextFits, Worker
<1>6. /\ n \in Nat /\ n < Len(plan[d].entries) /\ Len(plan[d].entries) \in Nat
      /\ batch[d].result = Unset /\ DOMAIN batch[d].entries = 1..n /\ DOMAIN plan[d].entries = 1..Len(plan[d].entries)
      /\ \A i \in 1..n : batch[d].entries[i] = "succeeded"
      /\ \A i \in DOMAIN plan[d].entries : Started(d, i) => i <= n + 1
  <2>1. n \in Nat /\ Len(plan[d].entries) \in Nat /\ DOMAIN batch[d].entries = 1..n /\ DOMAIN plan[d].entries = 1..Len(plan[d].entries)
    BY <1>3, PlanParts, Parts
  <2> QED
    BY <1>1, <1>3, <2>1 DEF NextFits, RecordsTrue, Running
<1>7. ASSUME NEW result \in Result, NEW to \in Where, Decides(d, to, result)
      PROVE  /\ worker' \in [Batch -> Worker] /\ \A b \in Batch \ {d} : worker'[b] = worker[b]
             /\ at = to /\ worker'[d].result # Unset
  <2>1. Moves(d, to, worker[d].outcome, result)
    BY <1>3, <1>7, DecidesIs
  <2> QED
    BY <2>1, MarksAreOwn DEF Moves
<1>8. CASE Decides(d, Above(d), Error) /\ UNCHANGED batch
  <2>1. /\ worker' \in [Batch -> Worker] /\ \A b \in Batch \ {d} : worker'[b] = worker[b]
        /\ at = Above(d) /\ worker'[d].result # Unset
    BY <1>7, <1>8, AboveIs, ErrorIs
  <2>2. at \in {"thread", "complete", "done"} /\ (at = "thread" => InCohort(d)) /\ (at = "complete" => Detached(d))
    BY <2>1, AboveIs
  <2>3. WorkerFits(d)'
    BY <1>1, <1>3, <1>4, <1>8, <2>1, <2>2 DEF WorkerFits, Before, Running, Begun, InCohort, Detached
  <2>4. RecordsTrue(d)' /\ NextFits(d)'
    <3>1. Next1(d)' = Next1(d) /\ (\A i : Started(d, i)' <=> Started(d, i))
      BY <1>4, <1>8, EntriesStay
    <3> QED
      BY <1>3, <1>4, <1>6, <1>8, <2>2, <3>1 DEF RecordsTrue, NextFits, Before, Running
  <2> QED
    BY <1>1, <1>4, <1>8, <2>1, <2>2, <2>3, <2>4, MoveStep
<1>9. CASE /\ batch' = [batch EXCEPT ![d].entries = Append(@, outcome)]
           /\ IF outcome = "succeeded" THEN GoesOn(d, "entry")
              ELSE Decides(d, "summary", [status |-> StatusOf(d, outcome), reason |-> "entry"])
  <2>1. /\ batch' \in [Batch -> BatchFiles] /\ \A b \in Batch \ {d} : batch'[b] = batch[b]
        /\ batch'[d].intent = batch[d].intent /\ batch'[d].result = batch[d].result
        /\ Len(batch'[d].entries) = n + 1 /\ DOMAIN batch'[d].entries = 1..(n + 1)
        /\ batch'[d].entries[n + 1] = outcome
        /\ \A i \in 1..n : batch'[d].entries[i] = batch[d].entries[i]
    BY <1>3, <1>5, <1>9, EntryIs DEF Writes
  <2>2. /\ worker' \in [Batch -> Worker] /\ \A b \in Batch \ {d} : worker'[b] = worker[b]
        /\ at = IF outcome = "succeeded" THEN "entry" ELSE "summary"
        /\ at = "summary" => worker'[d].result # Unset
    <3>1. CASE outcome = "succeeded" /\ GoesOn(d, "entry")
      <4>1. Moves(d, "entry", worker[d].outcome, worker[d].result)
        BY <1>3, <3>1, GoesOnIs DEF Where
      <4> QED
        BY <3>1, <4>1 DEF Moves
    <3>2. CASE outcome # "succeeded" /\ Decides(d, "summary", [status |-> StatusOf(d, outcome), reason |-> "entry"])
      <4>1. [status |-> StatusOf(d, outcome), reason |-> "entry"] \in Result
        BY DEF StatusOf, Result, Status
      <4>2. "summary" \in Where
        BY DEF Where
      <4> QED
        BY <1>7, <3>2, <4>1, <4>2
    <3> QED
      BY <1>9, <3>1, <3>2
  <2>3. OwnOnly(d)
    BY <1>3, <1>4, <2>1, <2>2 DEF OwnOnly, DispatchTypeOK
  <2>4. WorkerFits(d)'
    BY <1>1, <1>3, <1>4, <2>1, <2>2 DEF WorkerFits, Before, Running, Begun, InCohort, Detached
  <2>5. Next1(d)' = n + 2 /\ Next1(d) = n + 1 /\ (\A i : Started(d, i)' <=> Started(d, i))
    BY <1>4, <1>6, <2>1 DEF Next1, Started
  <2>6. /\ ~Started(d, n + 2) /\ at \in {"entry", "summary"}
        /\ outcome \in Ended => Started(d, n + 1) /\ run[plan[d].entries[n + 1]].state = outcome
    BY <1>1, <1>3, <1>6, <2>2, <2>5 DEF NextFits, Started
  <2>7. RecordsTrue(d)'
    <3>1. ASSUME NEW i \in 1..(n + 1)
          PROVE  /\ batch'[d].entries[i] \in Ended =>
                      Started(d, i) /\ run[plan[d].entries[i]].state = batch'[d].entries[i]
                 /\ batch'[d].entries[i] # "succeeded" =>
                      i = n + 1 /\ at \notin Running /\ ~Started(d, i + 1)
      <4>1. CASE i = n + 1
        BY <1>6, <2>1, <2>2, <2>6, <4>1 DEF Running
      <4>2. CASE i \in 1..n
        BY <1>3, <1>6, <2>1, <4>2 DEF RecordsTrue
      <4> QED
        BY <1>6, <3>1, <4>1, <4>2
    <3> QED
      BY <1>4, <2>1, <2>5, <3>1 DEF RecordsTrue
  <2>8. NextFits(d)'
    BY <1>4, <1>6, <2>1, <2>2, <2>5, <2>6 DEF NextFits, Before, Running
  <2>9. worker'[d].at # "deliver" /\ thread'[d].intent = thread[d].intent
    BY <1>4, <2>6
  <2> QED
    BY <1>1, <2>1, <2>3, <2>4, <2>7, <2>8, <2>9, WorkStep
<1> QED
  BY <1>8, <1>9 DEF RecordEntry

\* The next entry is started, by a thread of which no other is late, or is refused.
LEMMA DeliverKeeps ==
  ASSUME DispatchInv, NEW d \in Batch, Deliver(d)
  PROVE  DispatchInv'
<1>1. Alive(d) /\ worker[d].at = "deliver"
  BY DEF Deliver, Alive
<1>2. Begun(d)
  BY <1>1, AliveBegun
<1>3. /\ plan[d] \in Plan /\ DispatchTypeOK /\ RunsKept /\ PlanKept(d) /\ Drains(d) /\ Quiet(d)
      /\ WorkerFits(d) /\ RecordsTrue(d) /\ NextFits(d) /\ Next1(d) = Len(batch[d].entries) + 1
  BY <1>2, AtWork
<1>4. UNCHANGED <<controls, pending, plan, thread, batch, owner>> /\ faults' \in 0..MaxFaults
  BY <1>3, FaultsFit DEF Deliver, cohort, files
<1> DEFINE n == Len(batch[d].entries)
           e == plan[d].entries[Next1(d)]
<1>5. /\ n \in Nat /\ n < Len(plan[d].entries) /\ Len(plan[d].entries) \in Nat
      /\ batch[d].result = Unset /\ batch[d].intent = "written"
      /\ DOMAIN batch[d].entries = 1..n /\ DOMAIN plan[d].entries = 1..Len(plan[d].entries)
      /\ \A i \in 1..n : batch[d].entries[i] = "succeeded"
  <2>1. n \in Nat /\ Len(plan[d].entries) \in Nat /\ DOMAIN batch[d].entries = 1..n /\ DOMAIN plan[d].entries = 1..Len(plan[d].entries)
    BY <1>3, PlanParts, Parts
  <2> QED
    BY <1>1, <1>3, <2>1 DEF NextFits, RecordsTrue, WorkerFits, Running
<1>6. /\ Next1(d) \in DOMAIN plan[d].entries /\ e \in Entry
      /\ \A i \in DOMAIN plan[d].entries : plan[d].entries[i] \in Entry /\ (plan[d].entries[i] = e => i = Next1(d))
  <2>1. Next1(d) \in DOMAIN plan[d].entries
    BY <1>3, <1>5
  <2> QED
    BY <1>3, <2>1, PlanParts
<1>7. CASE run[e].by = Unset /\ run' = [run EXCEPT ![e] = [by |-> d, state |-> "held", control |-> Len(controls)]] /\ GoesOn(d, "wait")
  <2> DEFINE r == [by |-> d, state |-> "held", control |-> Len(controls)]
  <2>1. r \in RunRecord /\ r.by = d /\ r.state = "held" /\ r.control = Len(controls) /\ Len(controls) \in Nat
    BY <1>3, LenProperties DEF RunRecord, DispatchTypeOK
  <2>2. run' = [run EXCEPT ![e] = r]
    BY <1>7
  <2> HIDE DEF r
  <2>3. /\ run' \in [Entry -> RunRecord] /\ run'[e] = r
        /\ \A f \in Entry : f # e => run'[f] = run[f]
    <3> HIDE DEF e
    <3> QED
      BY <1>3, <1>6, <2>1, <2>2 DEF DispatchTypeOK
  <2>4. run[e].by = Unset /\ d # Unset
    BY <1>7, OperatorAssumption
  <2>5. Moves(d, "wait", worker[d].outcome, worker[d].result)
    BY <1>3, <1>7, GoesOnIs DEF Where
  <2>6. /\ worker' \in [Batch -> Worker] /\ worker'[d].at = "wait"
        /\ \A b \in Batch \ {d} : worker'[b] = worker[b]
    BY <2>5 DEF Moves
  <2> HIDE DEF e
  <2>7. DispatchTypeOK'
    BY <1>3, <1>4, <2>3, <2>6 DEF DispatchTypeOK
  <2>8. RunsKept'
    <3>1. Len(controls) <= Len(controls) /\ controls' = controls
      BY <1>4, <2>1
    <3> QED
      BY <1>3, <2>1, <2>3, <3>1 DEF RunsKept
  <2>9. \A b \in Batch \ {d} : Same(b) /\ RunsStay(b)
    <3>1. ASSUME NEW b \in Batch \ {d} PROVE RunsStay(b)
      BY <2>1, <2>3, <2>4, OperatorAssumption DEF RunsStay
    <3> QED
      BY <1>4, <2>6, <3>1 DEF Same
  <2>10. Next1(d)' = Next1(d) /\ Started(d, Next1(d))'
    BY <1>4, <1>6, <2>1, <2>3 DEF Next1, Started, e
  <2>11. \A i : i # Next1(d) => (Started(d, i)' <=> Started(d, i))
    BY <1>4, <1>6, <2>3 DEF Started
  <2>12. \A i \in 1..n : i # Next1(d) /\ i \in DOMAIN plan[d].entries /\ run'[plan[d].entries[i]] = run[plan[d].entries[i]]
    <3>1. \A i \in 1..n : i # Next1(d) /\ i \in DOMAIN plan[d].entries
      BY <1>3, <1>5
    <3> QED
      BY <1>6, <2>3, <3>1
  <2>13. PlanKept(d)'
    <3>1. \A f \in Entry : run'[f].by = d => \E i \in DOMAIN plan[d].entries : plan[d].entries[i] = f
      BY <1>3, <1>6, <2>3 DEF PlanKept, e
    <3> QED
      BY <1>3, <1>4, <1>5, <3>1 DEF PlanKept, Begun, InCohort
  <2>14. WorkerFits(d)'
    BY <1>1, <1>3, <1>4, <2>6 DEF WorkerFits, Before, Running, Begun, InCohort, Detached
  <2>15. RecordsTrue(d)'
    BY <1>3, <1>4, <1>5, <2>11, <2>12 DEF RecordsTrue
  <2>16. NextFits(d)'
    <3>1. \A i \in DOMAIN plan[d].entries : Started(d, i)' => i <= Next1(d)
      <4>1. Next1(d) <= Next1(d)
        BY <1>3, <1>5
      <4> QED
        BY <1>3, <2>11, <4>1 DEF NextFits
    <3> QED
      BY <1>3, <1>4, <1>5, <2>6, <2>10, <3>1 DEF NextFits, Before, Running
  <2>17. Drains(d)'
    <3>1. InCohort(d) => Late(d) = {}
      BY <1>1, <1>3, PlanParts DEF Drains
    <3>2. \A f \in Entry : f # e => run'[f] = run[f]
      BY <2>3
    <3>3. ASSUME InCohort(d), NEW f \in Entry, run'[f].by = d, run'[f].control > plan[d].control PROVE f = e
      BY <3>1, <3>2, <3>3 DEF Late
    <3> QED
      BY <1>4, <2>6, <3>3 DEF Drains, Late, InCohort
  <2>18. Quiet(d)'
    BY <1>1, <1>3, <1>4 DEF Quiet, CurrentMode, InCohort
  <2>19. BatchInv(d)'
    BY <2>13, <2>14, <2>15, <2>16, <2>17, <2>18 DEF BatchInv
  <2> QED
    BY <1>4, <2>7, <2>8, <2>9, <2>19, OneStep
<1>8. ASSUME NEW outcome \in {"early", "uncertain"}, Returns(d, outcome), UNCHANGED run
      PROVE  DispatchInv'
  <2>1. outcome \in Outcome /\ outcome \notin Ended
    BY DEF Outcome, Ended
  <2>2. Moves(d, "record", outcome, worker[d].result)
    BY <1>3, <1>8, <2>1, ReturnsIs
  <2>3. /\ worker' \in [Batch -> Worker] /\ \A b \in Batch \ {d} : worker'[b] = worker[b]
        /\ worker'[d].at = "record" /\ worker'[d].outcome \notin Ended /\ worker'[d].outcome # Unset
    BY <2>1, <2>2, MarksAreOwn DEF Moves
  <2>4. WorkerFits(d)'
    BY <1>1, <1>3, <1>4, <2>3 DEF WorkerFits, Before, Running, Begun, InCohort, Detached
  <2>5. RecordsTrue(d)' /\ NextFits(d)'
    <3>1. Next1(d)' = Next1(d) /\ (\A i : Started(d, i)' <=> Started(d, i))
      BY <1>4, <1>8, EntriesStay
    <3> QED
      BY <1>1, <1>3, <1>4, <1>8, <2>3, <3>1 DEF RecordsTrue, NextFits, Before, Running
  <2> QED
    BY <1>1, <1>4, <1>8, <2>3, <2>4, <2>5, MoveStep
<1> QED
  BY <1>7, <1>8 DEF Deliver

----------------------------------------------------------------------------
(* What others do *)

\* Every dispatch keeps what it has.
LEMMA NoStep ==
  ASSUME DispatchInv, DispatchTypeOK', UNCHANGED controls, RunsKept',
         \A b \in Batch : Same(b) /\ RunsStay(b)
  PROVE  DispatchInv'
<1>1. Len(controls) \in Nat /\ CurrentMode' = CurrentMode /\ controls' # <<>>
  BY LenProperties DEF DispatchInv, DispatchTypeOK, CurrentMode
<1>2. ASSUME NEW b \in Batch PROVE BatchInv(b)'
  BY <1>1, <1>2, SameKeeps DEF DispatchInv
<1> QED
  BY <1>1, <1>2 DEF DispatchInv

\* Controls are flags that the worker looks at.
LEMMA FlagsKeep ==
  ASSUME DispatchInv, NEW d \in Batch, Observe(d) \/ Signal(d)
  PROVE  DispatchInv'
<1>1. DispatchTypeOK /\ RunsKept
  BY DEF DispatchInv
<1>2. UNCHANGED <<controls, pending, plan, thread, batch, owner, run, faults>>
  BY DEF Observe, Signal, cohort, files
<1> DEFINE stop == StopRequested(d)
           cancel == CancelRequested(d)
<1>3. stop \in BOOLEAN /\ cancel \in BOOLEAN
  <2>1. /\ worker[d].stop \in BOOLEAN /\ worker[d].cancel \in BOOLEAN
        /\ owner[d].stop \in BOOLEAN /\ owner[d].cancel \in BOOLEAN
    BY <1>1 DEF DispatchTypeOK, Worker, OwnerFiles
  <2> QED
    BY <2>1 DEF StopRequested, CancelRequested
<1>4. \/ worker' = [worker EXCEPT ![d].stop = stop, ![d].cancel = cancel]
      \/ worker' = [worker EXCEPT ![d].cancel = TRUE]
      \/ worker' = [worker EXCEPT ![d].stop = TRUE]
  BY DEF Observe, Signal
<1> HIDE DEF stop, cancel
<1>5. /\ worker' \in [Batch -> Worker]
      /\ \A b \in Batch : worker'[b].at = worker[b].at /\ worker'[b].outcome = worker[b].outcome
                          /\ worker'[b].result = worker[b].result
  <2>1. ASSUME NEW w \in Worker, worker' = [worker EXCEPT ![d] = w], w.at = worker[d].at,
               w.outcome = worker[d].outcome, w.result = worker[d].result
        PROVE  /\ worker' \in [Batch -> Worker]
               /\ \A b \in Batch : worker'[b].at = worker[b].at /\ worker'[b].outcome = worker[b].outcome
                                   /\ worker'[b].result = worker[b].result
    BY <1>1, <2>1 DEF DispatchTypeOK
  <2>2. ASSUME NEW s \in BOOLEAN, NEW c \in BOOLEAN
        PROVE  LET w == [worker[d] EXCEPT !.stop = s, !.cancel = c] IN
               /\ w \in Worker /\ w.at = worker[d].at
               /\ w.outcome = worker[d].outcome /\ w.result = worker[d].result
    BY <1>1 DEF DispatchTypeOK, Worker
  <2>3. ASSUME NEW s \in BOOLEAN
        PROVE  LET w == [worker[d] EXCEPT !.stop = s] IN
               /\ w \in Worker /\ w.at = worker[d].at
               /\ w.outcome = worker[d].outcome /\ w.result = worker[d].result
    BY <1>1 DEF DispatchTypeOK, Worker
  <2>4. ASSUME NEW c \in BOOLEAN
        PROVE  LET w == [worker[d] EXCEPT !.cancel = c] IN
               /\ w \in Worker /\ w.at = worker[d].at
               /\ w.outcome = worker[d].outcome /\ w.result = worker[d].result
    BY <1>1 DEF DispatchTypeOK, Worker
  <2>5. CASE worker' = [worker EXCEPT ![d].stop = stop, ![d].cancel = cancel]
    BY <1>3, <2>1, <2>2, <2>5
  <2>6. CASE worker' = [worker EXCEPT ![d].cancel = TRUE]
    BY <2>1, <2>4, <2>6
  <2>7. CASE worker' = [worker EXCEPT ![d].stop = TRUE]
    BY <2>1, <2>3, <2>7
  <2> QED
    BY <1>4, <2>5, <2>6, <2>7
<1>6. DispatchTypeOK' /\ RunsKept'
  BY <1>1, <1>2, <1>5 DEF DispatchTypeOK, RunsKept
<1>7. \A b \in Batch : Same(b) /\ RunsStay(b)
  BY <1>2, <1>5 DEF Same, RunsStay
<1> QED
  BY <1>2, <1>6, <1>7, NoStep

LEMMA DispatchControlKeeps ==
  ASSUME DispatchInv, NEW d \in Batch, ControlDispatch(d)
  PROVE  DispatchInv'
<1>1. DispatchTypeOK /\ RunsKept
  BY DEF DispatchInv
<1>2. UNCHANGED <<controls, pending, plan, thread, batch, worker, run, faults>>
  BY DEF ControlDispatch, cohort
<1>3. owner' \in [Batch -> OwnerFiles] /\ \A b \in Batch : owner'[b].completion = owner[b].completion
  <2>1. CASE owner' = [owner EXCEPT ![d].stop = TRUE]
    BY <1>1, <2>1 DEF DispatchTypeOK, OwnerFiles
  <2>2. CASE owner' = [owner EXCEPT ![d].cancel = TRUE]
    BY <1>1, <2>2 DEF DispatchTypeOK, OwnerFiles
  <2> QED
    BY <2>1, <2>2 DEF ControlDispatch
<1>4. DispatchTypeOK' /\ RunsKept'
  BY <1>1, <1>2, <1>3 DEF DispatchTypeOK, RunsKept
<1>5. \A b \in Batch : Same(b) /\ RunsStay(b)
  BY <1>2, <1>3 DEF Same, RunsStay
<1> QED
  BY <1>2, <1>4, <1>5, NoStep

\* A delivery of its own is of no dispatch; a run of one ends where it is held.
LEMMA AloneKeeps ==
  ASSUME DispatchInv, NEW e \in Entry, DeliverAlone(e)
  PROVE  DispatchInv'
<1>1. DispatchTypeOK /\ RunsKept
  BY DEF DispatchInv
<1>2. UNCHANGED <<controls, pending, plan, thread, batch, owner, worker, faults>> /\ run[e].by = Unset
  BY DEF DeliverAlone, cohort, files
<1> DEFINE r == [run[e] EXCEPT !.by = Operator, !.state = "held"]
<1>3. r \in RunRecord /\ r.by = Operator /\ r.state = "held" /\ r.control = run[e].control
  BY <1>1 DEF DispatchTypeOK, RunRecord
<1>4. run' = [run EXCEPT ![e] = r]
  BY DEF DeliverAlone
<1> HIDE DEF r
<1>5. run' \in [Entry -> RunRecord] /\ run'[e] = r /\ \A f \in Entry : f # e => run'[f] = run[f]
  BY <1>1, <1>3, <1>4 DEF DispatchTypeOK
<1>6. DispatchTypeOK' /\ RunsKept'
  BY <1>1, <1>2, <1>3, <1>5 DEF DispatchTypeOK, RunsKept
<1>7. \A b \in Batch : Same(b) /\ RunsStay(b)
  <2>1. \A b \in Batch : b # Unset /\ b # Operator
    BY OperatorAssumption
  <2> QED
    BY <1>2, <1>3, <1>5, <2>1 DEF Same, RunsStay
<1> QED
  BY <1>2, <1>6, <1>7, NoStep

LEMMA EndKeeps ==
  ASSUME DispatchInv, NEW e \in Entry, NEW end \in Ended, RunEnds(e, end)
  PROVE  DispatchInv'
<1>1. DispatchTypeOK /\ RunsKept
  BY DEF DispatchInv
<1>2. UNCHANGED <<controls, pending, plan, thread, batch, owner, worker, faults>> /\ run[e].state = "held"
  BY DEF RunEnds, cohort, files
<1> DEFINE r == [run[e] EXCEPT !.state = end]
<1>3. r \in RunRecord /\ r.by = run[e].by /\ r.state = end /\ r.control = run[e].control
  BY <1>1 DEF DispatchTypeOK, RunRecord
<1>4. run' = [run EXCEPT ![e] = r]
  BY DEF RunEnds
<1> HIDE DEF r
<1>5. run' \in [Entry -> RunRecord] /\ run'[e] = r /\ \A f \in Entry : f # e => run'[f] = run[f]
  BY <1>1, <1>3, <1>4 DEF DispatchTypeOK
<1>6. "held" \notin Ended /\ end # "free"
  BY DEF Ended
<1>7. DispatchTypeOK' /\ RunsKept'
  BY <1>1, <1>2, <1>3, <1>5, <1>6 DEF DispatchTypeOK, RunsKept
<1>8. \A b \in Batch : Same(b) /\ RunsStay(b)
  BY <1>2, <1>3, <1>5, <1>6 DEF Same, RunsStay
<1> QED
  BY <1>2, <1>7, <1>8, NoStep

\* Where nothing began nothing is there.
LEMMA NothingYet ==
  ASSUME DispatchInv, NEW d \in Batch, ~Begun(d)
  PROVE  /\ thread[d].intent = Unset /\ batch[d].intent = Unset /\ worker[d].at = "none"
         /\ batch[d].entries = <<>> /\ batch[d].result = Unset
         /\ thread[d].result = Unset /\ owner[d].completion = Unset
         /\ \A e \in Entry : run[e].by # d
<1>1. PlanKept(d) /\ WorkerFits(d)
  BY DEF DispatchInv, BatchInv
<1>2. thread[d].intent = Unset /\ batch[d].intent = Unset /\ worker[d].at = "none"
  BY <1>1 DEF Begun, WorkerFits
<1> QED
  BY <1>1, <1>2, MarksAreOwn DEF PlanKept, WorkerFits, Before

\* A preview leaves nothing behind but the approval.
LEMMA PreviewKeeps ==
  ASSUME DispatchInv, NEW d \in Batch, NEW entries \in Selection, NEW inCohort \in BOOLEAN, NEW detached \in BOOLEAN,
         Preview(d, entries, inCohort, detached)
  PROVE  DispatchInv'
<1>1. DispatchTypeOK /\ RunsKept
  BY DEF DispatchInv
<1>2. ~Begun(d) /\ UNCHANGED <<controls, pending, thread, batch, owner, worker, run, faults>>
  BY DEF Preview, cohort, files
<1> DEFINE p == [cohort |-> inCohort, detached |-> detached, entries |-> entries, control |-> Len(controls)]
<1>3. p \in Plan /\ p.control = Len(controls) /\ Len(controls) \in Nat
  BY <1>1, LenProperties DEF Plan, DispatchTypeOK
<1>4. plan' = [plan EXCEPT ![d] = p]
  BY DEF Preview
<1> HIDE DEF p
<1>5. plan' \in [Batch -> Plan \cup {Unset}] /\ plan'[d] = p /\ \A b \in Batch \ {d} : plan'[b] = plan[b]
  BY <1>1, <1>3, <1>4 DEF DispatchTypeOK
<1>6. DispatchTypeOK' /\ RunsKept'
  BY <1>1, <1>2, <1>5 DEF DispatchTypeOK, RunsKept
<1>7. BatchInv(d)'
  <2>1. ~Begun(d)'
    BY <1>2 DEF Begun
  <2>2. PlanKept(d)'
    BY <1>2, <1>3, <1>5, <2>1, NothingYet DEF PlanKept, Begun
  <2>3. WorkerFits(d)'
    BY <1>2, NothingYet DEF WorkerFits, Before, Running
  <2>4. Drains(d)' /\ Quiet(d)'
    BY <1>2, NothingYet DEF Drains, Late, Quiet, Alive
  <2> QED
    BY <2>1, <2>2, <2>3, <2>4 DEF BatchInv
<1>8. \A b \in Batch \ {d} : Same(b) /\ RunsStay(b)
  BY <1>2, <1>5 DEF Same, RunsStay
<1> QED
  BY <1>2, <1>6, <1>7, <1>8, OneStep

\* The intent is written before the ticket and the worker are there.
LEMMA StartKeeps ==
  ASSUME DispatchInv, NEW d \in Batch, StartDispatch(d)
  PROVE  DispatchInv'
<1>1. DispatchTypeOK /\ RunsKept /\ PlanKept(d)
  BY DEF DispatchInv, BatchInv
<1>2. /\ plan[d] \in Plan /\ ~Begun(d) /\ UNCHANGED <<controls, pending, plan, run>>
      /\ InCohort(d) => CurrentMode = "open"
  BY <1>1, Parts DEF StartDispatch, Approved, cohort
<1>3. faults' \in 0..MaxFaults
  BY <1>1, FaultsFit DEF StartDispatch, Begin
<1>4. thread[d].intent = Unset /\ batch[d].intent = Unset /\ worker[d].at = "none"
      /\ batch[d].entries = <<>> /\ batch[d].result = Unset
      /\ thread[d].result = Unset /\ owner[d].completion = Unset
      /\ \A e \in Entry : run[e].by # d
  BY <1>2, NothingYet
<1>5. /\ owner' \in [Batch -> OwnerFiles]
      /\ \A b \in Batch : owner'[b].completion = owner[b].completion
  <2>1. CASE Ticket(d)
    BY <1>1, <2>1 DEF Ticket, DispatchTypeOK, OwnerFiles
  <2>2. CASE UNCHANGED owner
    BY <1>1, <2>2 DEF DispatchTypeOK
  <2> QED
    BY <2>1, <2>2 DEF StartDispatch, Begin
<1> DEFINE at == worker'[d].at
           intent == IF InCohort(d) THEN thread'[d].intent ELSE batch'[d].intent
<1>6. ASSUME NEW written \in {"written", Torn}, WriteIntent(d, written)
      PROVE  /\ thread' \in [Batch -> ThreadFiles] /\ batch' \in [Batch -> BatchFiles]
             /\ \A b \in Batch \ {d} : thread'[b] = thread[b] /\ batch'[b] = batch[b]
             /\ thread'[d].result = Unset /\ batch'[d].result = Unset /\ batch'[d].entries = <<>>
             /\ intent = written
             /\ IF InCohort(d) THEN batch'[d].intent = Unset ELSE thread'[d].intent = Unset
  <2>1. CASE InCohort(d)
    <3>1. thread' = [thread EXCEPT ![d].intent = written] /\ UNCHANGED batch
      BY <1>6, <2>1 DEF WriteIntent
    <3> DEFINE f == [thread[d] EXCEPT !.intent = written]
    <3>2. f \in ThreadFiles /\ f.intent = written /\ f.result = thread[d].result
      BY <1>1 DEF DispatchTypeOK, ThreadFiles, File
    <3>3. thread' = [thread EXCEPT ![d] = f]
      BY <3>1
    <3> HIDE DEF f
    <3>4. thread' \in [Batch -> ThreadFiles] /\ thread'[d] = f /\ \A b \in Batch \ {d} : thread'[b] = thread[b]
      BY <1>1, <3>2, <3>3 DEF DispatchTypeOK
    <3> QED
      BY <1>1, <1>4, <2>1, <3>1, <3>2, <3>4 DEF DispatchTypeOK
  <2>2. CASE ~InCohort(d)
    <3>1. batch' = [batch EXCEPT ![d].intent = written] /\ UNCHANGED thread
      BY <1>6, <2>2 DEF WriteIntent
    <3>2. Writes(d, written, batch[d].entries, batch[d].result)
      BY <1>1, <3>1, IntentIs
    <3> QED
      BY <1>1, <1>4, <2>2, <3>1, <3>2 DEF Writes, DispatchTypeOK
  <2> QED
    BY <2>1, <2>2
<1>7. \E written \in {"written", Torn} :
        WriteIntent(d, written) /\ (written = Torn => UNCHANGED worker)
  <2>1. WriteIntent(d, "written") \/ (WriteIntent(d, Torn) /\ UNCHANGED worker)
    BY DEF StartDispatch, Begin
  <2> QED
    BY <2>1, MarksAreOwn
<1>8. /\ thread' \in [Batch -> ThreadFiles] /\ batch' \in [Batch -> BatchFiles]
      /\ \A b \in Batch \ {d} : thread'[b] = thread[b] /\ batch'[b] = batch[b]
      /\ thread'[d].result = Unset /\ batch'[d].result = Unset /\ batch'[d].entries = <<>>
      /\ intent # Unset /\ (intent # "written" => UNCHANGED worker)
      /\ IF InCohort(d) THEN batch'[d].intent = Unset ELSE thread'[d].intent = Unset
  BY <1>6, <1>7, MarksAreOwn
<1>9. /\ worker' \in [Batch -> Worker] /\ \A b \in Batch \ {d} : worker'[b] = worker[b]
      /\ at \in {"none", "ticket", "admit", "entry"}
      /\ at = "ticket" => Detached(d)
      /\ at = "admit" => InCohort(d)
      /\ at = "entry" => ~InCohort(d)
  <2>1. CASE Detached(d) /\ GoesOn(d, "ticket")
    <3>1. Moves(d, "ticket", worker[d].outcome, worker[d].result)
      BY <1>1, <2>1, GoesOnIs DEF Where
    <3> QED
      BY <2>1, <3>1 DEF Moves
  <2>2. CASE GoesOn(d, IF InCohort(d) THEN "admit" ELSE "entry")
    <3> DEFINE to == IF InCohort(d) THEN "admit" ELSE "entry"
    <3>1. to \in Where
      BY DEF Where
    <3>2. Moves(d, to, worker[d].outcome, worker[d].result)
      BY <1>1, <2>2, <3>1, GoesOnIs
    <3> QED
      BY <3>2 DEF Moves
  <2>3. CASE UNCHANGED worker
    BY <1>1, <1>4, <2>3 DEF DispatchTypeOK
  <2> QED
    BY <2>1, <2>2, <2>3 DEF StartDispatch, Begin
<1>10. DispatchTypeOK' /\ RunsKept'
  BY <1>1, <1>2, <1>3, <1>5, <1>8, <1>9 DEF DispatchTypeOK, RunsKept
<1>11. BatchInv(d)'
  <2>1. plan'[d] # Unset /\ \A e \in Entry : run'[e].by # d
    BY <1>2, <1>4, PlanParts
  <2>2. PlanKept(d)'
    BY <1>1, <1>2, <1>8, <2>1 DEF PlanKept, InCohort
  <2>3. WorkerFits(d)'
    <3>1. at # "none" => intent = "written"
      BY <1>4, <1>8
    <3>2. at # "none" => Begun(d)'
      BY <1>8, <3>1, MarksAreOwn DEF Begun
    <3> QED
      BY <1>2, <1>4, <1>5, <1>8, <1>9, <3>1, <3>2, MarksAreOwn DEF WorkerFits, Before, Running, InCohort, Detached
  <2>4. Drains(d)'
    BY <2>1 DEF Drains, Late
  <2>5. Quiet(d)'
    BY <1>2 DEF Quiet, CurrentMode, InCohort
  <2>6. RecordsTrue(d)' /\ NextFits(d)'
    <3>1. \A i : ~Started(d, i)'
      BY <1>2, <2>1, PlanParts DEF Started
    <3>2. DOMAIN batch'[d].entries = 1..0 /\ Len(batch'[d].entries) = 0 /\ Len(plan[d].entries) \in Nat \ {0}
      BY <1>2, <1>8, PlanParts
    <3> QED
      BY <1>2, <1>8, <1>9, <3>1, <3>2 DEF RecordsTrue, NextFits
  <2> QED
    BY <2>2, <2>3, <2>4, <2>5, <2>6 DEF BatchInv
<1>12. \A b \in Batch \ {d} : Same(b) /\ RunsStay(b)
  BY <1>2, <1>5, <1>8, <1>9 DEF Same, RunsStay
<1> QED
  BY <1>2, <1>10, <1>11, <1>12, OneStep

\* A cohort closes over workers that are gone and runs that ended.
LEMMA ClosingIsQuiet ==
  ASSUME DispatchInv, NEW d \in Batch, InCohort(d), thread[d].intent # Unset => Settled(d)
  PROVE  ~Alive(d) /\ \A e \in Entry : run[e].by = d => run[e].state \in Ended
<1>1. DispatchTypeOK /\ RunsKept /\ PlanKept(d) /\ WorkerFits(d)
  BY DEF DispatchInv, BatchInv
<1>2. ~Alive(d)
  <2>1. CASE thread[d].intent = Unset
    BY <1>1, <2>1, MarksAreOwn DEF WorkerFits, Alive
  <2>2. CASE Settled(d) /\ Detached(d)
    BY <1>1, <2>2 DEF WorkerFits, Alive, Settled, Completion, Is, Detached
  <2>3. CASE Settled(d) /\ ~Detached(d)
    <3>1. thread[d].result # Unset
      BY <2>3 DEF Settled, Is
    <3> QED
      BY <1>1, <2>3, <3>1 DEF WorkerFits, Alive
  <2> QED
    BY <2>1, <2>2, <2>3
<1>3. ASSUME NEW e \in Entry, run[e].by = d PROVE run[e].state \in Ended
  <2>1. /\ batch[d].intent = "written" /\ Begun(d)
    BY <1>1, <1>3, MarksAreOwn DEF PlanKept, Begun
  <2>2. /\ plan[d] \in Plan /\ NextFits(d) /\ Next1(d) = Len(batch[d].entries) + 1
    BY <2>1, AtWork
  <2>3. thread[d].intent # Unset
    BY <1>1, <2>1, <2>2, PlanParts, MarksAreOwn DEF WorkerFits, Before
  <2>4. batch[d].result # Unset /\ SettledEntries(d)
    BY <2>1, <2>3, MarksAreOwn DEF Settled, Is
  <2>5. PICK i \in DOMAIN plan[d].entries : plan[d].entries[i] = e
    BY <1>1, <1>3 DEF PlanKept
  <2>6. Started(d, i) /\ i \in Nat \ {0} /\ Len(batch[d].entries) \in Nat
    BY <1>1, <1>3, <2>2, <2>5, PlanParts, Parts DEF Started
  <2>7. i <= Next1(d) /\ i # Next1(d)
    BY <2>2, <2>4, <2>6 DEF NextFits
  <2>8. i \in DOMAIN batch[d].entries
    BY <1>1, <2>2, <2>6, <2>7, Parts
  <2>9. run[e].state = batch[d].entries[i] /\ batch[d].entries[i] \in Outcome
    BY <1>1, <2>4, <2>5, <2>8, Parts DEF SettledEntries
  <2>10. run[e].state \in {"free", "held"} \cup Ended
    BY <1>1 DEF DispatchTypeOK, RunRecord
  <2> QED
    BY <2>9, <2>10 DEF Outcome, Ended
<1> QED
  BY <1>2, <1>3

\* The records of a cohort only grow, and the last of them closes it when it is quiet.
LEMMA ChangeKeeps ==
  ASSUME DispatchInv, NEW mode \in Mode, Change(mode)
  PROVE  DispatchInv'
<1>1. DispatchTypeOK /\ RunsKept /\ controls \in Seq(Mode) /\ controls # <<>> /\ Len(controls) \in Nat
  BY LenProperties DEF DispatchInv, DispatchTypeOK
<1>2. UNCHANGED <<plan, thread, batch, owner, worker, run>> /\ pending' \in BOOLEAN
      /\ CurrentMode # "closed" /\ faults' \in 0..MaxFaults
  <2>1. pending' \in BOOLEAN
    BY <1>1 DEF Change, DispatchTypeOK
  <2>2. faults' \in 0..MaxFaults
    BY <1>1, FaultsFit DEF Change
  <2> QED
    BY <2>1, <2>2 DEF Change, files
<1>3. /\ controls' \in Seq(Mode) /\ controls' # <<>> /\ Len(controls') \in Nat /\ Len(controls') >= Len(controls)
      /\ CurrentMode' = mode \/ CurrentMode' = CurrentMode
  <2>1. CASE controls' = Append(controls, mode)
    <3>1. /\ controls' \in Seq(Mode) /\ Len(controls') = Len(controls) + 1 /\ controls'[Len(controls) + 1] = mode
      BY <1>1, <2>1, AppendProperties
    <3> QED
      BY <1>1, <2>1, <3>1, AppendProperties DEF CurrentMode
  <2>2. CASE UNCHANGED controls
    BY <1>1, <2>2 DEF CurrentMode
  <2> QED
    BY <2>1, <2>2 DEF Change
<1>4. DispatchTypeOK'
  BY <1>1, <1>2, <1>3 DEF DispatchTypeOK
<1>5. RunsKept'
  <2>1. \A e \in Entry : run[e].control \in Nat
    BY <1>1 DEF DispatchTypeOK, RunRecord
  <2> QED
    BY <1>1, <1>2, <1>3, <2>1 DEF RunsKept
<1>6. \A b \in Batch : Same(b) /\ RunsStay(b)
  BY <1>2 DEF Same, RunsStay
<1>7. ASSUME NEW d \in Batch, mode = "closed" PROVE Quiet(d)'
  <2>1. SUFFICES ASSUME plan[d] # Unset, InCohort(d)
                 PROVE  ~Alive(d) /\ \A e \in Entry : run[e].by = d => run[e].state \in Ended
    BY <1>2 DEF Quiet, Alive, InCohort
  <2>2. thread[d].intent # Unset => Settled(d)
    BY <1>7, <2>1 DEF Change, InCohort
  <2> QED
    BY <2>1, <2>2, ClosingIsQuiet
<1>8. ASSUME NEW d \in Batch PROVE BatchInv(d)'
  <2>1. CurrentMode' = "closed" /\ CurrentMode # "closed" => Quiet(d)'
    BY <1>3, <1>7
  <2> QED
    BY <1>1, <1>3, <1>6, <2>1, SameKeeps DEF DispatchInv
<1> QED
  BY <1>3, <1>4, <1>5, <1>8 DEF DispatchInv

\* A summary is made up for a batch whose entries all succeeded.
LEMMA ReconcileKeeps ==
  ASSUME DispatchInv, NEW d \in Batch, ReconcileDispatch(d)
  PROVE  DispatchInv'
<1>1. Begun(d) /\ batch[d].intent = "written" /\ batch[d].result = Unset
  BY MarksAreOwn DEF ReconcileDispatch, Begun
<1>2. /\ plan[d] \in Plan /\ DispatchTypeOK /\ RunsKept /\ PlanKept(d) /\ Drains(d) /\ Quiet(d)
      /\ WorkerFits(d) /\ RecordsTrue(d) /\ NextFits(d) /\ Next1(d) = Len(batch[d].entries) + 1
  BY <1>1, AtWork
<1>3. UNCHANGED <<controls, pending, plan, thread, owner, worker, run>> /\ faults' \in 0..MaxFaults
  BY <1>2, FaultsFit DEF ReconcileDispatch, cohort
<1>4. /\ batch' \in [Batch -> BatchFiles] /\ \A b \in Batch \ {d} : batch'[b] = batch[b]
      /\ batch'[d].intent = batch[d].intent /\ batch'[d].entries = batch[d].entries
  <2>1. [status |-> "succeeded", reason |-> "completed"] \in Result
    BY DEF Result, Status
  <2>2. ASSUME NEW result \in Result \cup {Torn}, batch' = [batch EXCEPT ![d].result = result]
        PROVE  Writes(d, batch[d].intent, batch[d].entries, result)
    BY <1>2, <2>2, ResultIs
  <2>3. CASE batch' = [batch EXCEPT ![d].result = [status |-> "succeeded", reason |-> "completed"]]
    BY <2>1, <2>2, <2>3 DEF Writes
  <2>4. CASE batch' = [batch EXCEPT ![d].result = Torn]
    BY <2>2, <2>4 DEF Writes
  <2> QED
    BY <2>3, <2>4 DEF ReconcileDispatch
<1>5. DispatchTypeOK' /\ RunsKept'
  BY <1>2, <1>3, <1>4 DEF DispatchTypeOK, RunsKept
<1>6. /\ Len(batch[d].entries) = Len(plan[d].entries) /\ Len(plan[d].entries) \in Nat \ {0}
      /\ ~Started(d, Next1(d)) /\ batch[d].entries # <<>> /\ worker[d].at \notin Before
  <2>1. Len(batch[d].entries) = Len(plan[d].entries) /\ Len(plan[d].entries) \in Nat \ {0}
        /\ DOMAIN plan[d].entries = 1..Len(plan[d].entries)
    BY <1>2, PlanParts DEF ReconcileDispatch
  <2>2. ~Started(d, Next1(d))
    BY <1>2, <2>1 DEF Started
  <2>3. batch[d].entries # <<>>
    BY <2>1
  <2> QED
    BY <1>2, <2>1, <2>2, <2>3 DEF WorkerFits
<1>7. BatchInv(d)'
  <2>1. PlanKept(d)'
    BY <1>2, <1>3, <1>4 DEF PlanKept, Begun, InCohort
  <2>2. WorkerFits(d)'
    BY <1>2, <1>3, <1>4, <1>6 DEF WorkerFits, Begun, InCohort, Detached
  <2>3. RecordsTrue(d)' /\ NextFits(d)'
    <3>1. Next1(d)' = Next1(d) /\ (\A i : Started(d, i)' <=> Started(d, i))
      BY <1>3, <1>4, EntriesStay
    <3> QED
      BY <1>2, <1>3, <1>4, <1>6, <3>1 DEF RecordsTrue, NextFits
  <2>4. Drains(d)' /\ Quiet(d)'
    BY <1>2, <1>3 DEF Drains, Late, Quiet, Alive, CurrentMode, InCohort
  <2> QED
    BY <2>1, <2>2, <2>3, <2>4 DEF BatchInv
<1>8. \A b \in Batch \ {d} : Same(b) /\ RunsStay(b)
  BY <1>3, <1>4 DEF Same, RunsStay
<1> QED
  BY <1>3, <1>5, <1>7, <1>8, OneStep

----------------------------------------------------------------------------
(* The invariant *)

LEMMA StartsSo ==
  ASSUME DispatchInit
  PROVE  DispatchInv
<1>1. DispatchTypeOK /\ controls # <<>> /\ Len(controls) = 1
  <2>1. controls \in Seq(Mode) /\ controls # <<>> /\ Len(controls) = 1
    BY DEF DispatchInit, Mode
  <2>2. /\ thread \in [Batch -> ThreadFiles] /\ owner \in [Batch -> OwnerFiles]
        /\ run \in [Entry -> RunRecord]
    BY DEF DispatchInit, ThreadFiles, OwnerFiles, RunRecord, File
  <2>3. batch \in [Batch -> BatchFiles] /\ worker \in [Batch -> Worker]
    BY DEF DispatchInit, BatchFiles, Worker, File
  <2>4. pending \in BOOLEAN /\ plan \in [Batch -> Plan \cup {Unset}] /\ faults = 0
    BY DEF DispatchInit
  <2>5. faults \in 0..MaxFaults
    BY <2>4, WorkersAssumption
  <2> QED
    BY <2>1, <2>2, <2>3, <2>4, <2>5 DEF DispatchTypeOK
<1>2. RunsKept
  BY <1>1 DEF RunsKept, DispatchInit
<1>3. ASSUME NEW d \in Batch PROVE BatchInv(d)
  <2>1. /\ plan[d] = Unset /\ thread[d].intent = Unset /\ batch[d].intent = Unset
        /\ thread[d].result = Unset /\ batch[d].result = Unset /\ batch[d].entries = <<>>
        /\ owner[d].completion = Unset /\ worker[d].at = "none"
        /\ \A e \in Entry : run[e].by # d
    BY OperatorAssumption DEF DispatchInit
  <2>2. ~Begun(d) /\ PlanKept(d) /\ WorkerFits(d)
    BY <2>1 DEF Begun, PlanKept, WorkerFits, Before, Running
  <2>3. Drains(d) /\ Quiet(d)
    BY <2>1 DEF Drains, Quiet
  <2> QED
    BY <2>2, <2>3 DEF BatchInv
<1> QED
  BY <1>1, <1>2, <1>3 DEF DispatchInv

LEMMA RestsSo ==
  ASSUME DispatchInv, UNCHANGED dispatchVars
  PROVE  DispatchInv'
<1>1. DispatchTypeOK' /\ RunsKept' /\ UNCHANGED controls
  BY DEF DispatchInv, DispatchTypeOK, RunsKept, dispatchVars
<1>2. \A b \in Batch : Same(b) /\ RunsStay(b)
  BY DEF dispatchVars, Same, RunsStay
<1> QED
  BY <1>1, <1>2, NoStep

LEMMA StepKeeps ==
  ASSUME DispatchInv, DispatchNext
  PROVE  DispatchInv'
<1>1. ASSUME NEW d \in Batch, NEW entries \in Selection, NEW inCohort \in BOOLEAN, NEW detached \in BOOLEAN,
             Preview(d, entries, inCohort, detached)
      PROVE  DispatchInv'
  BY <1>1, PreviewKeeps
<1>2. ASSUME NEW d \in Batch, StartDispatch(d) PROVE DispatchInv'
  BY <1>2, StartKeeps
<1>3. ASSUME NEW d \in Batch, Work(d) PROVE DispatchInv'
  BY <1>3, ClaimKeeps, DispatchAdmitKeeps, SelectKeeps, DeliverKeeps, ReturnKeeps, RecordEntryKeeps,
     SummariseKeeps, ThreadKeeps, CompletionKeeps DEF Work
<1>4. ASSUME NEW d \in Batch, Observe(d) \/ WorkerDies(d) \/ ControlDispatch(d) \/ Signal(d) \/ ReconcileDispatch(d)
      PROVE  DispatchInv'
  BY <1>4, FlagsKeep, DiesKeeps, DispatchControlKeeps, ReconcileKeeps
<1>5. ASSUME NEW e \in Entry, DeliverAlone(e) PROVE DispatchInv'
  BY <1>5, AloneKeeps
<1>6. ASSUME NEW e \in Entry, NEW end \in Ended, RunEnds(e, end) PROVE DispatchInv'
  BY <1>6, EndKeeps
<1>7. ASSUME NEW mode \in Mode, Change(mode) PROVE DispatchInv'
  BY <1>7, ChangeKeeps
<1> QED
  BY <1>1, <1>2, <1>3, <1>4, <1>5, <1>6, <1>7 DEF DispatchNext

LEMMA Invariance == DispatchSpec => []DispatchInv
<1>1. DispatchInv /\ [DispatchNext]_dispatchVars => DispatchInv'
  BY StepKeeps, RestsSo
<1> QED
  BY <1>1, StartsSo, PTL DEF DispatchSpec

LEMMA SafeSo ==
  ASSUME DispatchInv
  PROVE  DispatchSafe
<1>1. DispatchTypeOK /\ \A d \in Batch : BatchInv(d)
  BY DEF DispatchInv
<1>2. ClosedIsQuiet
  BY <1>1 DEF ClosedIsQuiet, BatchInv, Quiet, InCohort
<1>3. DrainsAfterChange
  <2>1. SUFFICES ASSUME NEW d \in Batch, plan[d] # Unset, plan[d].cohort
                 PROVE  Cardinality(Late(d)) <= 1
    BY DEF DrainsAfterChange, Late
  <2>2. \A e, f \in Late(d) : e = f
    BY <1>1, <2>1 DEF BatchInv, Drains, InCohort
  <2>3. CASE Late(d) = {}
    BY <2>3, FS_EmptySet
  <2>4. CASE Late(d) # {}
    <3>1. PICK e \in Late(d) : TRUE
      BY <2>4
    <3>2. Late(d) = {e}
      BY <2>2, <3>1
    <3>3. Cardinality({e}) = 1
      BY FS_Singleton
    <3> QED
      BY <3>2, <3>3
  <2> QED
    BY <2>3, <2>4
<1>4. OutcomeIsProved
  BY <1>1 DEF OutcomeIsProved, BatchInv, RecordsTrue, Started
<1> QED
  BY <1>1, <1>2, <1>3, <1>4 DEF DispatchSafe

LEMMA OrderedSo ==
  ASSUME DispatchInv
  PROVE  EntriesInOrder
<1>1. SUFFICES ASSUME NEW d \in Batch, Begun(d), NEW i \in DOMAIN plan[d].entries, run[plan[d].entries[i]].by = d
               PROVE  /\ Len(batch[d].entries) >= i - 1
                      /\ \A j \in 1..(i - 1) :
                           batch[d].entries[j] = "succeeded" /\ run[plan[d].entries[j]] = [run[plan[d].entries[j]] EXCEPT
                             !.by = d, !.state = "succeeded"]
  BY DEF EntriesInOrder
<1>2. plan[d] \in Plan /\ DispatchTypeOK /\ RecordsTrue(d) /\ NextFits(d) /\ Next1(d) = Len(batch[d].entries) + 1
  BY <1>1, AtWork
<1>3. /\ i \in Nat \ {0} /\ Len(batch[d].entries) \in Nat /\ Started(d, i)
      /\ DOMAIN batch[d].entries = 1..Len(batch[d].entries)
  BY <1>1, <1>2, PlanParts, Parts DEF Started
<1>4. i <= Len(batch[d].entries) + 1
  BY <1>2, <1>3 DEF NextFits
<1>5. ASSUME NEW j \in 1..(i - 1)
      PROVE  batch[d].entries[j] = "succeeded" /\ run[plan[d].entries[j]] = [run[plan[d].entries[j]] EXCEPT
               !.by = d, !.state = "succeeded"]
  <2>1. j \in DOMAIN batch[d].entries
    BY <1>3, <1>4
  <2>2. batch[d].entries[j] = "succeeded"
    <3>1. SUFFICES ASSUME batch[d].entries[j] # "succeeded" PROVE FALSE
      OBVIOUS
    <3>2. j = Len(batch[d].entries) /\ ~Started(d, j + 1)
      BY <1>2, <2>1, <3>1 DEF RecordsTrue
    <3> QED
      BY <1>3, <1>4, <3>2
  <2>3. Started(d, j) /\ run[plan[d].entries[j]].state = "succeeded"
    BY <1>2, <2>1, <2>2 DEF RecordsTrue, Ended
  <2>4. run[plan[d].entries[j]] \in RunRecord
    BY <1>2, <2>3, PlanParts DEF Started, DispatchTypeOK
  <2> QED
    BY <2>2, <2>3, <2>4 DEF Started, RunRecord
<1>6. Len(batch[d].entries) >= i - 1
  BY <1>3, <1>4
<1> QED
  BY <1>5, <1>6

----------------------------------------------------------------------------
(* What is settled stays *)

\* A run that ended changes no more.
LEMMA EndedStays ==
  ASSUME DispatchInv, DispatchNext, NEW e \in Entry, run[e].by # Unset, run[e].state \in Ended
  PROVE  run'[e] = run[e]
<1>1. DispatchTypeOK
  BY DEF DispatchInv
<1>2. CASE UNCHANGED run
  BY <1>2
<1>3. ASSUME NEW f \in Entry, NEW r, run' = [run EXCEPT ![f] = r], run[f].by = Unset \/ run[f].state = "held"
      PROVE  run'[e] = run[e]
  <2>1. e # f
    BY <1>3 DEF Ended
  <2> QED
    BY <1>1, <1>3, <2>1 DEF DispatchTypeOK
<1>4. ASSUME NEW d \in Batch, Deliver(d) PROVE run'[e] = run[e]
  <2>1. CASE UNCHANGED run
    BY <2>1
  <2>2. CASE ~UNCHANGED run
    <3> DEFINE f == plan[d].entries[Next1(d)]
    <3>1. run[f].by = Unset /\ run' = [run EXCEPT ![f] = [by |-> d, state |-> "held", control |-> Len(controls)]]
      BY <1>4, <2>2 DEF Deliver
    <3>2. CASE f \in Entry
      BY <1>3, <3>1, <3>2
    <3>3. CASE f \notin Entry
      <4> HIDE DEF f
      <4> QED
        BY <1>1, <3>1, <3>3 DEF DispatchTypeOK
    <3> QED
      BY <3>2, <3>3
  <2> QED
    BY <2>1, <2>2
<1>5. ASSUME NEW f \in Entry, DeliverAlone(f) PROVE run'[e] = run[e]
  <2>1. e # f
    BY <1>5 DEF DeliverAlone
  <2> QED
    BY <1>1, <1>5, <2>1 DEF DeliverAlone, DispatchTypeOK
<1>6. ASSUME NEW f \in Entry, NEW end \in Ended, RunEnds(f, end) PROVE run'[e] = run[e]
  <2>1. e # f
    BY <1>6 DEF RunEnds, Ended
  <2> QED
    BY <1>1, <1>6, <2>1 DEF RunEnds, DispatchTypeOK
<1>7. ASSUME NEW d \in Batch, Work(d), ~Deliver(d) PROVE UNCHANGED run
  BY <1>7 DEF Work, Claim, AdmitDispatch, Select, Return, RecordEntry, Summarise, ThreadResult, ReportCompletion
<1>8. ASSUME NEW d \in Batch,
             StartDispatch(d) \/ Observe(d) \/ WorkerDies(d) \/ ControlDispatch(d) \/ Signal(d) \/ ReconcileDispatch(d)
      PROVE  UNCHANGED run
  BY <1>8 DEF StartDispatch, Observe, WorkerDies, ControlDispatch, Signal, ReconcileDispatch
<1>9. ASSUME NEW d \in Batch, NEW entries, NEW inCohort, NEW detached, Preview(d, entries, inCohort, detached)
      PROVE  UNCHANGED run
  BY <1>9 DEF Preview
<1>10. ASSUME NEW mode, Change(mode) PROVE UNCHANGED run
  BY <1>10 DEF Change
<1> QED
  BY <1>2, <1>4, <1>5, <1>6, <1>7, <1>8, <1>9, <1>10 DEF DispatchNext

\* The approval of what began, its summary and what its supervisor last said are final,
\* and a supervisor speaks when no entry is recorded any more.
SummaryStays(d) ==
  /\ plan'[d] = plan[d] /\ batch'[d].intent = batch[d].intent /\ batch'[d].result = batch[d].result
  /\ owner[d].completion # Unset =>
       /\ owner'[d].completion = owner[d].completion /\ owner'[d].owner = owner[d].owner
       /\ batch'[d].entries = batch[d].entries

LEMMA SummaryStaysSo ==
  ASSUME DispatchInv, DispatchNext, NEW d \in Batch, batch[d].intent = "written", batch[d].result # Unset
  PROVE  SummaryStays(d)
<1>1. DispatchTypeOK /\ Begun(d) /\ WorkerFits(d)
  BY MarksAreOwn DEF DispatchInv, BatchInv, Begun
<1>2. worker[d].at \notin Before /\ (owner[d].completion # Unset => worker[d].at = "done")
  BY <1>1 DEF WorkerFits
<1>3. CASE plan'[d] = plan[d] /\ batch'[d] = batch[d] /\ owner'[d] = owner[d]
  BY <1>3 DEF SummaryStays
<1>4. ASSUME NEW b \in Batch, NEW entries, NEW inCohort, NEW detached, Preview(b, entries, inCohort, detached)
      PROVE  SummaryStays(d)
  <2>1. b # d /\ UNCHANGED <<batch, owner>>
    BY <1>1, <1>4 DEF Preview, files
  <2>2. plan'[d] = plan[d]
    BY <1>1, <1>4, <2>1 DEF Preview, DispatchTypeOK
  <2> QED
    BY <1>3, <2>1, <2>2
<1>5. ASSUME NEW b \in Batch, StartDispatch(b) PROVE SummaryStays(d)
  <2>1. b # d /\ UNCHANGED plan
    BY <1>1, <1>5 DEF StartDispatch, Approved
  <2>2. owner'[d] = owner[d]
    <3>1. Ticket(b) \/ UNCHANGED owner
      BY <1>5 DEF StartDispatch, Begin
    <3> QED
      BY <1>1, <2>1, <3>1 DEF Ticket, DispatchTypeOK
  <2>3. batch'[d] = batch[d]
    <3>1. WriteIntent(b, "written") \/ WriteIntent(b, Torn)
      BY <1>5 DEF StartDispatch, Begin
    <3> QED
      BY <1>1, <2>1, <3>1 DEF WriteIntent, DispatchTypeOK
  <2> QED
    BY <1>3, <2>1, <2>2, <2>3
<1>6. ASSUME NEW b \in Batch, Claim(b) PROVE SummaryStays(d)
  <2>1. b # d /\ UNCHANGED <<plan, batch>>
    BY <1>2, <1>6 DEF Claim, Before
  <2>2. owner'[d] = owner[d]
    BY <1>1, <1>6, <2>1 DEF Claim, DispatchTypeOK
  <2> QED
    BY <1>3, <2>1, <2>2
<1>7. ASSUME NEW b \in Batch, AdmitDispatch(b) PROVE SummaryStays(d)
  <2>1. b # d /\ UNCHANGED <<plan, owner>>
    BY <1>2, <1>7 DEF AdmitDispatch, Before
  <2>2. UNCHANGED batch \/ (\E intent : batch' = [batch EXCEPT ![b].intent = intent])
    BY <1>7 DEF AdmitDispatch
  <2>3. batch'[d] = batch[d]
    BY <1>1, <2>1, <2>2 DEF DispatchTypeOK
  <2> QED
    BY <1>3, <2>1, <2>3
<1>8. ASSUME NEW b \in Batch, RecordEntry(b) PROVE SummaryStays(d)
  <2>1. UNCHANGED <<plan, owner>> /\ (b = d => owner[d].completion = Unset)
    BY <1>2, <1>8 DEF RecordEntry
  <2>2. CASE UNCHANGED batch
    BY <1>3, <2>1, <2>2
  <2>3. CASE batch' = [batch EXCEPT ![b].entries = Append(@, worker[b].outcome)]
    <3> DEFINE s == Append(batch[b].entries, worker[b].outcome)
    <3>1. batch' = [batch EXCEPT ![b].entries = s]
      BY <2>3
    <3> HIDE DEF s
    <3>2. /\ batch'[d].intent = batch[d].intent /\ batch'[d].result = batch[d].result
          /\ b # d => batch'[d] = batch[d]
      BY <1>1, <3>1 DEF DispatchTypeOK, BatchFiles
    <3> QED
      BY <2>1, <3>2 DEF SummaryStays
  <2> QED
    BY <1>8, <2>2, <2>3 DEF RecordEntry
<1>9. ASSUME NEW b \in Batch, Summarise(b) \/ ReconcileDispatch(b) PROVE SummaryStays(d)
  <2>1. UNCHANGED <<plan, owner>>
    BY <1>9 DEF Summarise, ReconcileDispatch
  <2>2. UNCHANGED batch \/ (b # d /\ \E result : batch' = [batch EXCEPT ![b].result = result])
    BY <1>9 DEF Summarise, ReconcileDispatch
  <2>3. batch'[d] = batch[d]
    BY <1>1, <2>2 DEF DispatchTypeOK
  <2> QED
    BY <1>3, <2>1, <2>3
<1>10. ASSUME NEW b \in Batch, ReportCompletion(b) PROVE SummaryStays(d)
  <2>1. UNCHANGED <<plan, batch>> /\ (b = d => owner[d].completion = Unset)
    BY <1>2, <1>10 DEF ReportCompletion
  <2>2. b # d => owner'[d] = owner[d]
    BY <1>1, <1>10 DEF ReportCompletion, DispatchTypeOK
  <2> QED
    BY <2>1, <2>2 DEF SummaryStays
<1>11. ASSUME NEW b \in Batch, ControlDispatch(b) PROVE SummaryStays(d)
  <2>1. UNCHANGED <<plan, batch>>
    BY <1>11 DEF ControlDispatch
  <2>2. owner'[d].completion = owner[d].completion /\ owner'[d].owner = owner[d].owner
    <3>1. CASE owner' = [owner EXCEPT ![b].stop = TRUE]
      BY <1>1, <3>1 DEF DispatchTypeOK, OwnerFiles
    <3>2. CASE owner' = [owner EXCEPT ![b].cancel = TRUE]
      BY <1>1, <3>2 DEF DispatchTypeOK, OwnerFiles
    <3> QED
      BY <1>11, <3>1, <3>2 DEF ControlDispatch
  <2> QED
    BY <2>1, <2>2 DEF SummaryStays
<1>12. ASSUME NEW b \in Batch,
              Select(b) \/ Deliver(b) \/ Return(b) \/ ThreadResult(b) \/ Observe(b) \/ WorkerDies(b) \/ Signal(b)
       PROVE  SummaryStays(d)
  <2>1. UNCHANGED <<plan, batch, owner>>
    BY <1>12 DEF Select, Deliver, Return, ThreadResult, Observe, WorkerDies, Signal, files
  <2> QED
    BY <1>3, <2>1
<1>13. ASSUME NEW e \in Entry, DeliverAlone(e) \/ \E end \in Ended : RunEnds(e, end) PROVE SummaryStays(d)
  <2>1. UNCHANGED <<plan, batch, owner>>
    BY <1>13 DEF DeliverAlone, RunEnds, files
  <2> QED
    BY <1>3, <2>1
<1>14. ASSUME NEW mode, Change(mode) PROVE SummaryStays(d)
  <2>1. UNCHANGED <<plan, batch, owner>>
    BY <1>14 DEF Change, files
  <2> QED
    BY <1>3, <2>1
<1> QED
  BY <1>4, <1>5, <1>6, <1>7, <1>8, <1>9, <1>10, <1>11, <1>12, <1>13, <1>14 DEF DispatchNext, Work

LEMMA FinalSo ==
  ASSUME DispatchInv, DispatchNext, NEW d \in Batch, batch[d].intent # Unset, InspectDispatch(d) # "uncertain"
  PROVE  InspectDispatch(d)' = InspectDispatch(d)
<1>1. /\ batch[d].intent = "written" /\ Is(batch[d].result)
      /\ Detached(d) /\ ~InCohort(d) => Completion(d) /\ SettledEntries(d)
      /\ InspectDispatch(d) = batch[d].result.status
  BY DEF InspectDispatch, Detached, InCohort
<1>2. SummaryStays(d) /\ Begun(d)
  BY <1>1, SummaryStaysSo, MarksAreOwn DEF Is, Begun
<1>3. plan[d] \in Plan /\ DispatchTypeOK /\ RunsKept
  BY <1>2, AtWork
<1>4. Is(batch[d].result)'
  BY <1>1, <1>2 DEF SummaryStays, Is
<1>5. ASSUME Detached(d), ~InCohort(d)
      PROVE  Completion(d)' /\ SettledEntries(d)'
  <2>1. owner[d].completion # Unset
    BY <1>1, <1>5 DEF Completion, Is
  <2>2. Completion(d)'
    BY <1>1, <1>2, <1>5, <2>1 DEF SummaryStays, Completion, Is, InCohort
  <2>3. ASSUME NEW i \in DOMAIN batch[d].entries
        PROVE  run'[plan[d].entries[i]] = run[plan[d].entries[i]]
    <3> DEFINE e == plan[d].entries[i]
    <3>1. run[e].by = d /\ run[e].state = batch[d].entries[i] /\ batch[d].entries[i] \in Outcome
      BY <1>1, <1>3, <1>5, <2>3, Parts DEF SettledEntries
    <3>2. i <= Len(plan[d].entries) /\ i \in Nat \ {0}
      <4>1. Len(batch[d].entries) <= Len(plan[d].entries)
        BY <1>2, AtWork DEF NextFits
      <4>2. Len(plan[d].entries) \in Nat /\ Len(batch[d].entries) \in Nat /\ i \in 1..Len(batch[d].entries)
        BY <1>3, <2>3, PlanParts, Parts
      <4> QED
        BY <4>1, <4>2
    <3>3. e \in Entry
      <4>1. i \in DOMAIN plan[d].entries
        BY <1>3, <3>2, PlanParts
      <4> QED
        BY <1>3, <4>1, PlanParts
    <3>4. run[e].state \in Ended
      <4>1. run[e].state \in {"free", "held"} \cup Ended
        BY <1>3, <3>3 DEF DispatchTypeOK, RunRecord
      <4> QED
        BY <3>1, <4>1 DEF Outcome, Ended
    <3>5. d # Unset
      BY OperatorAssumption
    <3> QED
      BY <3>1, <3>3, <3>4, <3>5, EndedStays
  <2>4. SettledEntries(d)'
    BY <1>1, <1>2, <1>5, <2>1, <2>3 DEF SettledEntries, SummaryStays
  <2> QED
    BY <2>2, <2>4
<1> QED
  BY <1>1, <1>2, <1>4, <1>5 DEF InspectDispatch, SummaryStays, Detached, InCohort

----------------------------------------------------------------------------
(* Theorems *)

\* What the files of dispatches and cohorts say is so (dispatch.rs and cohorts.rs): a
\* closed cohort is quiet, a thread starts one entry at most once its cohort changed,
\* and an outcome that is shown is the one its runs proved.
THEOREM DispatchesAreSafe == DispatchSpec => []DispatchSafe
<1>1. DispatchInv => DispatchSafe
  BY SafeSo
<1> QED
  BY <1>1, Invariance, PTL

\* The entries of a dispatch are started in order, each behind the recorded success of
\* those before it (the loop of dispatch.rs), whatever is killed and wherever.
THEOREM EntriesAreOrdered == DispatchSpec => []EntriesInOrder
<1>1. DispatchInv => EntriesInOrder
  BY OrderedSo
<1> QED
  BY <1>1, Invariance, PTL

\* What spool-events-dispatch-show answers once, it answers ever after: no reconciliation,
\* late worker or end of a run changes an outcome that was shown.
THEOREM OutcomesAreFinal == DispatchSpec => OutcomeIsFinal
<1>1. DispatchInv /\ [DispatchNext]_dispatchVars =>
        [\A d \in Batch :
           batch[d].intent # Unset /\ InspectDispatch(d) # "uncertain" => InspectDispatch(d)' = InspectDispatch(d)]_dispatchVars
  BY FinalSo
<1> QED
  BY <1>1, Invariance, PTL DEF DispatchSpec, OutcomeIsFinal
=============================================================================

--------------------------- MODULE RecorderProofs ---------------------------
(***************************************************************************)
(* Proofs about what the seats of a session do: the model boundary of a    *)
(* body, for any number of beats, rewrites, revocations, mounts and        *)
(* faults; the workspace of the recorder, for any number of workers,       *)
(* paths, lines, views and failing appends; and the seats themselves, for  *)
(* any number of workers and failures.                                     *)
(***************************************************************************)
EXTENDS AgentBeat, WorkProducts, Seats, SequenceTheorems, FiniteSetTheorems, WellFoundedInduction, TLAPS

(* -------------------------- the model boundary --------------------------- *)

\* The ids of generations are drawn in order.
IdsDrawn == \A k \in Kind : current[k].id <= writes

\* What a beat composed from is no newer than what is current, and older where a
\* rewrite came between; its scope is about its own body; only a running call has
\* an invoke open, and it belongs to a step the body still had.
BeatFits ==
  beat # None =>
    /\ beat.scope.mount = beat.mount
    /\ beat.action # 0 => beat.at \in {"calling", "answered", "failed"}
    /\ beat.at \notin {"asking", "dropping"} => beat.step < MaxSteps
    /\ beat.registration.id <= current["register"].id
    /\ \A k \in Kind : /\ beat.facts[k].id <= current[k].id
                       /\ k \in beat.changed => beat.facts[k].id < current[k].id

\* A line that no longer held is an audit line.
Sober(l) == l.answer /\ l.stale => l.tag \in Audit
AnswersJudged == \A i \in DOMAIN tape : Sober(tape[i])

\* A body is shown no audit line.
ShownVisible == shown \subseteq Visible

\* The strengthening that every step preserves: what may be projected is right on
\* the whole tape, whether it was shown or not.
BeatInv ==
  /\ TypeOK /\ IdsDrawn /\ BeatFits
  /\ AnswersJudged /\ ShownVisible /\ InvokesAreClosed

----------------------------------------------------------------------------
(* Lemmas about the operators *)

\* Whatever is judged valid has not lapsed: an id that was drawn later never equals
\* the one that was read.
LEMMA ValidHolds ==
  ASSUME BeatInv, beat # None, Valid
  PROVE  ~Lapsed
<1>1. beat \in Beat /\ current \in [Kind -> Generation]
  BY DEF BeatInv, TypeOK
<1>2. beat.changed \subseteq Kind /\ beat.facts \in [Kind -> Generation]
  BY <1>1 DEF Beat
<1>3. \A k \in Kind : current[k].id \in Nat /\ beat.facts[k].id \in Nat
  BY <1>1, <1>2 DEF Generation
<1>4. \A k \in beat.changed : beat.facts[k].id < current[k].id
  BY <1>2 DEF BeatInv, BeatFits
<1>5. \A k \in Kind : current[k].id = beat.facts[k].id
  BY DEF Valid
<1>6. beat.changed = {}
  BY <1>2, <1>3, <1>4, <1>5
<1> QED
  BY <1>6 DEF Valid, Lapsed

\* The lines a beat writes are typed, and none that lapsed goes unmarked.
LEMMA PlainLine ==
  ASSUME NEW tag \in {"semantic", "quarantined", "delivery_stale", "review_request", "spool"}
  PROVE  L(tag) \in Line /\ Sober(L(tag)) /\ L(tag).tag # "action" /\ L(tag).tag = tag
BY DEF L, Line, Sober

LEMMA RecordLine ==
  ASSUME BeatInv, beat # None, NEW tag \in {"action", "answered", "failed", "quarantined"}
  PROVE  /\ Record(tag) \in Line /\ Record(tag).tag = tag /\ Record(tag).of = beat.action
         /\ Record(tag).answer = (beat.at = "answered")
         /\ Valid => Sober(Record(tag))
<1>1. beat \in Beat /\ beat.action \in Nat
  BY DEF BeatInv, TypeOK, Beat
<1>2. Lapsed \in BOOLEAN
  BY DEF Lapsed
<1>3. Record(tag) = [tag |-> tag, of |-> beat.action, answer |-> beat.at = "answered", stale |-> Lapsed]
  BY DEF Record
<1>4. Record(tag) \in Line
  BY <1>1, <1>2, <1>3 DEF Line
<1>5. Record(tag).stale = Lapsed
  BY <1>3
<1> QED
  BY <1>3, <1>4, <1>5, ValidHolds DEF Sober

LEMMA JudgedLine ==
  ASSUME BeatInv, beat # None, NEW tag \in {"action", "answered", "failed"}
  PROVE  /\ Judged(tag) \in Line /\ Sober(Judged(tag))
         /\ Judged(tag).of = beat.action
         /\ Judged(tag).tag = IF Valid THEN tag ELSE "quarantined"
<1>1. CASE Valid
  BY <1>1, RecordLine DEF Judged
<1>2. CASE ~Valid
  BY <1>2, RecordLine DEF Judged, Sober, Audit
<1> QED
  BY <1>1, <1>2

\* The tape keeps its lines and gets typed ones that are sober.
Extends ==
  /\ tape' \in Seq(Line)
  /\ \A i \in DOMAIN tape : i \in DOMAIN tape' /\ tape'[i] = tape[i]
  /\ \A i \in DOMAIN tape' \ DOMAIN tape : Sober(tape'[i])

\* A new invoke is open or excused, and an open one stays open, is closed or excused.
KeepsInvokes ==
  /\ excused \subseteq excused'
  /\ \A i \in DOMAIN tape' \ DOMAIN tape :
       tape'[i].tag = "action" => i \in excused' \/ (beat' # None /\ beat'.action = i)
  /\ beat # None /\ beat.action # 0 =>
       \/ beat' # None /\ beat'.action = beat.action
       \/ beat.action \in excused'
       \/ \E j \in DOMAIN tape' : tape'[j].of = beat.action

LEMMA ExtendOne ==
  ASSUME TypeOK, NEW l \in Line, Sober(l), tape' = Append(tape, l)
  PROVE  /\ Extends
         /\ DOMAIN tape' \ DOMAIN tape = {Len(tape) + 1}
         /\ Len(tape) + 1 \in DOMAIN tape' /\ tape'[Len(tape) + 1] = l
<1>1. tape \in Seq(Line) /\ Len(tape) \in Nat /\ DOMAIN tape = 1..Len(tape)
  BY LenProperties DEF TypeOK
<1>2. /\ tape' \in Seq(Line) /\ Len(tape') = Len(tape) + 1
      /\ \A i \in 1..Len(tape) : tape'[i] = tape[i]
      /\ tape'[Len(tape) + 1] = l
  BY <1>1, AppendProperties
<1>3. DOMAIN tape' = 1..(Len(tape) + 1)
  BY <1>1, <1>2, LenProperties
<1> QED
  BY <1>1, <1>2, <1>3 DEF Extends

LEMMA ExtendNone ==
  ASSUME TypeOK, tape' = tape
  PROVE  Extends /\ DOMAIN tape' \ DOMAIN tape = {}
BY DEF Extends, TypeOK

LEMMA ExtendTwo ==
  ASSUME TypeOK, NEW l \in Line, NEW m \in Line, Sober(l), Sober(m),
         tape' = Append(Append(tape, l), m)
  PROVE  /\ Extends
         /\ DOMAIN tape' \ DOMAIN tape = {Len(tape) + 1, Len(tape) + 2}
         /\ Len(tape) + 1 \in DOMAIN tape' /\ tape'[Len(tape) + 1] = l /\ tape'[Len(tape) + 2] = m
<1> DEFINE one == Append(tape, l)
<1>1. tape \in Seq(Line) /\ Len(tape) \in Nat /\ DOMAIN tape = 1..Len(tape)
  BY LenProperties DEF TypeOK
<1>2. /\ one \in Seq(Line) /\ Len(one) = Len(tape) + 1
      /\ \A i \in 1..Len(tape) : one[i] = tape[i]
      /\ one[Len(tape) + 1] = l
  BY <1>1, AppendProperties
<1>3. /\ tape' \in Seq(Line) /\ Len(tape') = Len(one) + 1
      /\ \A i \in 1..Len(one) : tape'[i] = one[i]
      /\ tape'[Len(one) + 1] = m
  <2> HIDE DEF one
  <2> QED
    BY <1>2, AppendProperties DEF one
<1> HIDE DEF one
<1>4. DOMAIN tape' = 1..(Len(tape) + 2)
  BY <1>1, <1>2, <1>3, LenProperties
<1>5. /\ \A i \in 1..Len(tape) : tape'[i] = tape[i]
      /\ tape'[Len(tape) + 1] = l /\ tape'[Len(tape) + 2] = m
  BY <1>1, <1>2, <1>3
<1>6. DOMAIN tape' \ DOMAIN tape = {Len(tape) + 1, Len(tape) + 2}
  BY <1>1, <1>4
<1> QED
  BY <1>1, <1>3, <1>4, <1>5, <1>6 DEF Extends

\* What a step that extends the tape and keeps the invokes leaves true of the tape.
LEMMA TapeKeeps ==
  ASSUME BeatInv, Extends, KeepsInvokes, shown' \subseteq shown \cup Visible
  PROVE  AnswersJudged' /\ ShownVisible' /\ InvokesAreClosed' /\ shown' \subseteq DOMAIN tape'
<1>1. AnswersJudged'
  BY DEF BeatInv, AnswersJudged, Extends, Sober, Audit
<1>2. Visible \subseteq Visible'
  BY DEF Visible, Audit, Extends
<1>3. ShownVisible' /\ shown' \subseteq DOMAIN tape'
  BY <1>2 DEF BeatInv, ShownVisible, Visible
<1>4. ASSUME NEW i \in DOMAIN tape', tape'[i].tag = "action"
      PROVE  \/ \E j \in DOMAIN tape' : tape'[j].of = i
             \/ beat' # None /\ beat'.action = i
             \/ i \in excused'
  <2>1. CASE i \notin DOMAIN tape
    BY <1>4, <2>1 DEF KeepsInvokes
  <2>2. CASE i \in DOMAIN tape
    <3>1. tape[i].tag = "action" /\ i # 0
      BY <1>4, <2>2, LenProperties DEF Extends, BeatInv, TypeOK
    <3>2. CASE \E j \in DOMAIN tape : tape[j].of = i
      BY <3>2 DEF Extends
    <3>3. CASE beat # None /\ beat.action = i
      BY <3>1, <3>3 DEF KeepsInvokes
    <3>4. CASE i \in excused
      BY <3>4 DEF KeepsInvokes
    <3> QED
      BY <2>2, <3>1, <3>2, <3>3, <3>4 DEF BeatInv, InvokesAreClosed
  <2> QED
    BY <2>1, <2>2
<1> QED
  BY <1>1, <1>3, <1>4 DEF InvokesAreClosed

----------------------------------------------------------------------------
(* What ends or moves a beat *)

\* The types of what is neither the tape, what was shown of it, nor the beat.
RestTyped ==
  /\ current \in [Kind -> Generation]
  /\ epoch \in 0..MaxRevokes
  /\ mount \in [id : 1..MaxMounts, complete : BOOLEAN] \cup {None}
  /\ drawn \in 0..MaxMounts
  /\ pending \in Review \cup {None}
  /\ beats \in 0..MaxBeats /\ writes \in 0..MaxWrites /\ faults \in 0..MaxFaults
  /\ excused \subseteq Nat

LEMMA StepKeeps ==
  ASSUME BeatInv, Extends, KeepsInvokes, shown' \subseteq shown \cup Visible,
         RestTyped', IdsDrawn', beat' \in Beat \cup {None}, BeatFits'
  PROVE  BeatInv'
<1>1. TypeOK'
  BY TapeKeeps DEF RestTyped, TypeOK, Extends
<1> QED
  BY <1>1, TapeKeeps DEF BeatInv

\* Nothing fails: only the review may be another.
LEMMA SoundKeeps ==
  ASSUME BeatInv, Sound, pending' \in Review \cup {None}
  PROVE  RestTyped' /\ IdsDrawn' /\ excused' = excused
BY DEF BeatInv, TypeOK, RestTyped, IdsDrawn, Sound, world

\* A beat that moves on, with or without a line.
LEMMA MoveKeeps ==
  ASSUME BeatInv, beat # None,
         NEW next \in {"asking", "thinking", "concluding", "reviewing", "modelling", "denied",
                       "composed", "granted", "calling", "answered", "failed", "dropping"},
         beat.action # 0 => next \in {"calling", "answered", "failed"},
         next \notin {"asking", "dropping"} => beat.step < MaxSteps,
         beat' = At(next), UNCHANGED pending, Sound, shown' \subseteq shown \cup Visible,
         \/ tape' = tape
         \/ \E l \in Line : Sober(l) /\ l.tag # "action" /\ tape' = Append(tape, l)
  PROVE  BeatInv'
<1>1. beat \in Beat
  BY DEF BeatInv, TypeOK
<1>2. beat' \in Beat /\ beat' # None
  BY <1>1, BoundaryAssumption DEF At, Beat
<1>3. beat' = [beat EXCEPT !.at = next] /\ beat'.action = beat.action /\ beat'.step = beat.step
  BY <1>1 DEF At, Beat
<1>4. RestTyped' /\ IdsDrawn' /\ excused' = excused /\ current' = current
  BY SoundKeeps DEF BeatInv, TypeOK, Sound, world
<1>5. BeatFits'
  BY <1>1, <1>3, <1>4 DEF BeatInv, BeatFits, Beat
<1>6. Extends /\ KeepsInvokes
  <2>1. CASE tape' = tape
    BY <1>2, <1>3, <1>4, <2>1, ExtendNone DEF BeatInv, KeepsInvokes
  <2>2. CASE tape' # tape
    <3>1. PICK l \in Line : Sober(l) /\ l.tag # "action" /\ tape' = Append(tape, l)
      BY <2>2
    <3>2. /\ Extends
          /\ DOMAIN tape' \ DOMAIN tape = {Len(tape) + 1}
          /\ tape'[Len(tape) + 1] = l
      BY <3>1, ExtendOne DEF BeatInv
    <3> QED
      BY <1>2, <1>3, <1>4, <3>1, <3>2 DEF KeepsInvokes
  <2> QED
    BY <2>1, <2>2
<1> QED
  BY <1>2, <1>4, <1>5, <1>6, StepKeeps

\* A line that ends a beat: no invoke, and the answer to the one that is open.
Ending(l) == Sober(l) /\ l.tag # "action" /\ (beat.action # 0 => l.of = beat.action)

\* A beat that ends with the line that closes its invoke, if it has one open.
LEMMA EndKeeps ==
  ASSUME BeatInv, beat # None, Leave, Sound, UNCHANGED shown, pending' \in Review \cup {None},
         \/ tape' = tape /\ beat.action = 0
         \/ \E l \in Line, m \in Line :
              /\ Ending(l) /\ Sober(m) /\ m.tag # "action"
              /\ tape' \in {Append(tape, l), Append(Append(tape, l), m)}
  PROVE  BeatInv'
<1>1. RestTyped' /\ IdsDrawn' /\ excused' = excused
  BY SoundKeeps
<1>2. beat' = None /\ BeatFits'
  BY DEF Leave, BeatFits
<1>3. Extends /\ KeepsInvokes
  <2>1. CASE tape' = tape /\ beat.action = 0
    BY <1>1, <2>1, ExtendNone DEF BeatInv, KeepsInvokes
  <2>2. CASE ~(tape' = tape /\ beat.action = 0)
    <3>1. PICK l \in Line, m \in Line :
              /\ Ending(l) /\ Sober(m) /\ m.tag # "action"
              /\ tape' \in {Append(tape, l), Append(Append(tape, l), m)}
      BY <2>2
    <3>2. CASE tape' = Append(tape, l)
      BY <1>1, <3>1, <3>2, ExtendOne DEF BeatInv, KeepsInvokes, Ending
    <3>3. CASE tape' = Append(Append(tape, l), m)
      BY <1>1, <3>1, <3>3, ExtendTwo DEF BeatInv, KeepsInvokes, Ending
    <3> QED
      BY <3>1, <3>2, <3>3
  <2> QED
    BY <2>1, <2>2
<1> QED
  BY <1>1, <1>2, <1>3, StepKeeps

\* A line that goes on the tape alone, as the last of the beat.
LEMMA StaleKeeps ==
  ASSUME BeatInv, beat # None, NEW l \in Line, Ending(l), Stale(l)
  PROVE  BeatInv'
<1>1. pending' \in Review \cup {None} /\ tape' = Append(tape, l) /\ Leave /\ Sound /\ UNCHANGED shown
  BY DEF Stale, Write, BeatInv, TypeOK
<1> QED
  BY <1>1, EndKeeps DEF Ending

\* A fault excuses what it leaves open, the line it may have written included.
LEMMA FaultKeeps ==
  ASSUME BeatInv, beat # None, NEW l \in Line, Sober(l), Fault(l)
  PROVE  BeatInv'
<1>1. /\ faults' = faults + 1 /\ faults < MaxFaults
      /\ tape' \in {tape, Append(tape, l)}
      /\ excused' = excused \cup Open \cup (IF l.tag = "action" THEN {Len(tape) + 1} ELSE {})
      /\ beat' = None
      /\ UNCHANGED <<world, pending, beats, shown>>
  BY DEF Fault, Leave
<1>2. tape \in Seq(Line) /\ Len(tape) + 1 \in Nat /\ Open \subseteq Nat /\ excused \subseteq Nat
  BY LenProperties DEF BeatInv, TypeOK, Open, Beat
<1>3. excused' \subseteq Nat
  BY <1>1, <1>2
<1>4. RestTyped' /\ IdsDrawn'
  <2>1. faults' \in 0..MaxFaults
    BY <1>1, BoundaryAssumption DEF BeatInv, TypeOK
  <2> QED
    BY <1>1, <1>3, <2>1 DEF BeatInv, TypeOK, RestTyped, IdsDrawn, world
<1>5. BeatFits'
  BY <1>1 DEF BeatFits
<1>6. beat.action # 0 => beat.action \in excused'
  BY <1>1 DEF Open
<1>7. Extends /\ KeepsInvokes
  <2>1. CASE tape' = tape
    BY <1>1, <1>6, <2>1, ExtendNone DEF BeatInv, KeepsInvokes
  <2>2. CASE tape' = Append(tape, l)
    BY <1>1, <1>6, <2>2, ExtendOne DEF BeatInv, KeepsInvokes
  <2> QED
    BY <1>1, <2>1, <2>2
<1> QED
  BY <1>1, <1>4, <1>5, <1>7, StepKeeps

\* A review request is typed, and the beat that wrote it is over.
LEMMA RetainKeeps ==
  ASSUME BeatInv, beat # None, NEW lines,
         NEW cause \in {"high_risk", "permission_denied", "dependency_changed"},
         \/ lines = <<>> /\ beat.action = 0
         \/ \E l \in Line : Ending(l) /\ lines = <<l>>,
         Retain(lines, cause)
  PROVE  BeatInv' /\ (pending' # pending => pending'.cause = cause /\ pending'.scope = ScopeNow)
<1> DEFINE new == [cause |-> cause, scope |-> ScopeNow, facts |-> current]
           req == L("review_request")
<1>1. ScopeNow \in Scope
  BY DEF ScopeNow, Scope, BeatInv, TypeOK, Beat
<1>2. new \in Review
  BY <1>1 DEF Review, BeatInv, TypeOK
<1>3. req \in Line /\ Sober(req) /\ req.tag # "action"
  BY PlainLine
<1>4. Leave /\ UNCHANGED shown /\ Sound
  BY DEF Retain
<1>5. \/ tape' = tape \o lines /\ pending' = pending
      \/ tape' = Append(tape \o lines, req) /\ pending' = new
  BY DEF Retain
<1>6. pending' \in Review \cup {None}
  BY <1>2, <1>5 DEF BeatInv, TypeOK
<1>7. tape \in Seq(Line)
  BY DEF BeatInv, TypeOK
<1> HIDE DEF req
<1>8. BeatInv'
  <2>1. CASE lines = <<>> /\ beat.action = 0
    <3>1. tape \o lines = tape
      BY <1>7, <2>1, ConcatEmptySeq
    <3>2. tape' = tape \/ tape' = Append(tape, req)
      BY <1>5, <3>1
    <3> QED
      BY <1>3, <1>4, <1>6, <2>1, <3>2, EndKeeps DEF Ending
  <2>2. CASE \E l \in Line : Ending(l) /\ lines = <<l>>
    <3>1. PICK l \in Line : Ending(l) /\ lines = <<l>>
      BY <2>2
    <3>2. tape \o lines = Append(tape, l)
      BY <1>7, <3>1, AppendIsConcat
    <3>3. tape' \in {Append(tape, l), Append(Append(tape, l), req)}
      BY <1>5, <3>2
    <3> QED
      BY <1>3, <1>4, <1>6, <3>1, <3>3, EndKeeps
  <2> QED
    BY <2>1, <2>2
<1>9. pending' # pending => pending'.cause = cause /\ pending'.scope = ScopeNow
  BY <1>5
<1> QED
  BY <1>8, <1>9

----------------------------------------------------------------------------
(* The host's steps *)

LEMMA BeatInitInv == Init => BeatInv
<1> SUFFICES ASSUME Init PROVE BeatInv
  OBVIOUS
<1>1. current \in [Kind -> Generation] /\ IdsDrawn
  BY BoundaryAssumption DEF Init, Generation, IdsDrawn
<1>2. tape \in Seq(Line) /\ DOMAIN tape = {}
  BY EmptySeq DEF Init
<1>3. TypeOK
  BY <1>1, <1>2, BoundaryAssumption DEF Init, TypeOK
<1> QED
  BY <1>1, <1>2, <1>3 DEF Init, BeatInv, BeatFits, AnswersJudged, ShownVisible, InvokesAreClosed

\* A rewrite draws an id that no beat has read, and marks the beat.
LEMMA PutKeeps ==
  ASSUME BeatInv, NEW k \in Kind, NEW says \in Document, PutDocument(k, says)
  PROVE  BeatInv'
<1> DEFINE new == [id |-> writes + 1, says |-> says]
<1>1. writes \in Nat /\ writes + 1 \in 0..MaxWrites /\ new \in Generation
  BY BoundaryAssumption DEF PutDocument, BeatInv, TypeOK, Generation
<1>2. /\ current' \in [Kind -> Generation] /\ current'[k].id = writes + 1
      /\ \A j \in Kind \ {k} : current'[j] = current[j]
  BY <1>1 DEF PutDocument, BeatInv, TypeOK
<1>3. \A j \in Kind : current[j].id \in Nat /\ current[j].id <= writes
  BY DEF BeatInv, TypeOK, Generation, IdsDrawn
<1>4. RestTyped' /\ IdsDrawn'
  BY <1>1, <1>2, <1>3 DEF PutDocument, BeatInv, TypeOK, RestTyped, IdsDrawn
<1>5. Extends /\ UNCHANGED <<excused, shown, tape>>
  BY ExtendNone DEF PutDocument, BeatInv
<1>6. CASE beat = None
  <2>1. beat' = None
    BY <1>6 DEF PutDocument
  <2> QED
    BY <1>4, <1>5, <1>6, <2>1, StepKeeps DEF KeepsInvokes, BeatFits
<1>7. CASE beat # None
  <2>1. beat \in Beat /\ beat.changed \subseteq Kind
    BY <1>7 DEF BeatInv, TypeOK, Beat
  <2>2. beat' = [beat EXCEPT !.changed = beat.changed \cup {k}]
    BY <1>7 DEF PutDocument
  <2>3. beat' \in Beat /\ beat' # None
    BY <2>1, <2>2, BoundaryAssumption DEF Beat
  <2>4. /\ beat'.scope = beat.scope /\ beat'.mount = beat.mount /\ beat'.at = beat.at
        /\ beat'.action = beat.action /\ beat'.registration = beat.registration /\ beat'.step = beat.step
        /\ beat'.facts = beat.facts /\ beat'.changed = beat.changed \cup {k}
    BY <2>1, <2>2 DEF Beat
  <2>5. \A j \in Kind : beat.facts[j].id \in Nat
    BY <2>1 DEF Beat, Generation
  <2>6. beat.registration.id \in Nat
    BY <2>1 DEF Beat, Generation
  <2>7. ASSUME NEW j \in Kind
        PROVE  /\ beat.facts[j].id <= current'[j].id
               /\ j \in beat.changed \cup {k} => beat.facts[j].id < current'[j].id
    BY <1>1, <1>2, <1>3, <1>7, <2>5 DEF BeatInv, BeatFits
  <2>8. beat.registration.id <= current'["register"].id
    BY <1>1, <1>2, <1>3, <1>7, <2>6 DEF BeatInv, BeatFits, Kind
  <2>9. BeatFits'
    BY <1>7, <2>4, <2>7, <2>8 DEF BeatInv, BeatFits
  <2>10. KeepsInvokes
    BY <1>5, <1>7, <2>3, <2>4 DEF KeepsInvokes
  <2> QED
    BY <1>4, <1>5, <2>3, <2>9, <2>10, StepKeeps
<1> QED
  BY <1>6, <1>7

\* A new epoch, a mount, an unmount and an answered review leave beat and tape alone.
LEMMA HostKeeps ==
  ASSUME BeatInv,
         RevokeReviews \/ ResolveReview \/ UnmountBody \/ (\E complete \in BOOLEAN : MountBody(complete))
  PROVE  BeatInv'
<1>1. UNCHANGED <<current, writes, beat, tape, shown, excused, beats, faults>>
  BY DEF RevokeReviews, ResolveReview, UnmountBody, MountBody, counts, world
<1>2. pending' \in {None, pending}
  BY DEF RevokeReviews, ResolveReview, UnmountBody, MountBody
<1>3. epoch' \in 0..MaxRevokes
  BY BoundaryAssumption DEF RevokeReviews, ResolveReview, UnmountBody, MountBody, world, BeatInv, TypeOK
<1>4. drawn' \in 0..MaxMounts
  BY BoundaryAssumption DEF RevokeReviews, ResolveReview, UnmountBody, MountBody, world, BeatInv, TypeOK
<1>5. mount' \in [id : 1..MaxMounts, complete : BOOLEAN] \cup {None}
  <2>1. CASE \E complete \in BOOLEAN : MountBody(complete)
    <3>1. PICK complete \in BOOLEAN : mount' = [id |-> drawn + 1, complete |-> complete]
      BY <2>1 DEF MountBody
    <3>2. drawn + 1 \in 1..MaxMounts
      BY <2>1, BoundaryAssumption DEF MountBody, BeatInv, TypeOK
    <3> QED
      BY <3>1, <3>2
  <2>2. CASE RevokeReviews \/ ResolveReview \/ UnmountBody
    BY <2>2 DEF RevokeReviews, ResolveReview, UnmountBody, world, BeatInv, TypeOK
  <2> QED
    BY <2>1, <2>2
<1>6. RestTyped' /\ IdsDrawn' /\ BeatFits' /\ beat' \in Beat \cup {None}
  BY <1>1, <1>2, <1>3, <1>4, <1>5 DEF BeatInv, TypeOK, RestTyped, IdsDrawn, BeatFits
<1>7. Extends /\ KeepsInvokes
  BY <1>1, ExtendNone DEF BeatInv, KeepsInvokes
<1> QED
  BY <1>1, <1>6, <1>7, StepKeeps

\* What a crash leaves open it excuses.
LEMMA CrashKeeps ==
  ASSUME BeatInv, Crash
  PROVE  BeatInv'
<1>1. Open \subseteq Nat /\ faults' \in 0..MaxFaults
  BY BoundaryAssumption DEF BeatInv, TypeOK, Open, Beat, Crash
<1>2. RestTyped' /\ IdsDrawn' /\ BeatFits'
  BY <1>1 DEF Crash, counts, BeatInv, TypeOK, RestTyped, IdsDrawn, BeatFits
<1>3. Extends /\ KeepsInvokes
  BY ExtendNone DEF BeatInv, Crash, KeepsInvokes, Open
<1> QED
  BY <1>2, <1>3, StepKeeps DEF Crash

----------------------------------------------------------------------------
(* The beat's steps *)

\* A beat enters with the facts of the moment and nothing open.
LEMMA EnterKeeps ==
  ASSUME BeatInv, EnterBody
  PROVE  BeatInv'
<1>1. /\ current \in [Kind -> Generation] /\ current["register"] \in Generation
      /\ mount.id \in 1..MaxMounts /\ mount.complete \in BOOLEAN /\ epoch \in 0..MaxRevokes
  BY DEF EnterBody, BeatInv, TypeOK, Kind
<1>2. [epoch |-> epoch, mount |-> mount.id] \in Scope
  BY <1>1 DEF Scope
<1>3. beat' \in Beat
  <2>1. 0 \in 0..MaxSteps /\ 0 \in Nat /\ {} \in SUBSET Kind
    BY BoundaryAssumption
  <2> QED
    BY <1>1, <1>2, <2>1 DEF EnterBody, Beat
<1>4. beats' \in 0..MaxBeats
  BY BoundaryAssumption DEF EnterBody, BeatInv, TypeOK
<1>5. UNCHANGED <<world, tape, pending, faults, shown, excused>> /\ beat = None
  BY DEF EnterBody
<1>6. RestTyped' /\ IdsDrawn'
  BY <1>4, <1>5 DEF world, BeatInv, TypeOK, RestTyped, IdsDrawn
<1>7. \A k \in Kind : current[k].id \in Nat
  BY <1>1 DEF Generation
<1>8. BeatFits'
  <2>1. /\ beat'.scope.mount = beat'.mount /\ beat'.action = 0 /\ beat'.at = "asking"
        /\ beat'.registration = current["register"] /\ beat'.facts = current /\ beat'.changed = {}
    BY DEF EnterBody
  <2>2. current' = current
    BY <1>5 DEF world
  <2>3. beat'.registration.id <= current'["register"].id
    BY <1>7, <2>1, <2>2 DEF Kind
  <2>4. \A k \in Kind : beat'.facts[k].id <= current'[k].id /\ k \notin beat'.changed
    BY <1>7, <2>1, <2>2
  <2> QED
    BY <2>1, <2>3, <2>4 DEF BeatFits
<1>9. Extends /\ KeepsInvokes
  BY <1>5, ExtendNone DEF BeatInv, KeepsInvokes
<1> QED
  BY <1>3, <1>5, <1>6, <1>8, <1>9, StepKeeps

\* A stale delivery ends the beat with its line, or fails in writing it.
LEMMA StaleOrFault ==
  ASSUME BeatInv, beat # None, beat.action = 0,
         NEW tag \in {"semantic", "quarantined", "delivery_stale", "review_request", "spool"},
         Stale(L(tag)) \/ Fault(L(tag))
  PROVE  BeatInv'
<1>1. L(tag) \in Line /\ Ending(L(tag)) /\ Sober(L(tag))
  BY PlainLine DEF Ending
<1>2. CASE Stale(L(tag))
  BY <1>1, <1>2, StaleKeeps
<1>3. CASE Fault(L(tag))
  BY <1>1, <1>3, FaultKeeps
<1> QED
  BY <1>2, <1>3

LEMMA AskKeeps ==
  ASSUME BeatInv, Ask
  PROVE  BeatInv'
<1>1. beat # None /\ beat.action = 0
  BY DEF Ask, BeatInv, BeatFits
<1>2. CASE \/ beat.step < MaxSteps /\ beat' = At("thinking") /\ shown' = shown \cup Visible /\ UNCHANGED <<tape, pending>> /\ Sound
           \/ beat' = At("dropping") /\ UNCHANGED <<tape, pending, shown>> /\ Sound
  BY <1>1, <1>2, MoveKeeps
<1>3. CASE Stale(L("delivery_stale")) \/ Fault(L("delivery_stale"))
  BY <1>1, <1>3, StaleOrFault
<1> QED
  BY <1>2, <1>3 DEF Ask

LEMMA AnswerKeeps ==
  ASSUME BeatInv, Answer
  PROVE  BeatInv'
<1>1. beat # None /\ beat.action = 0 /\ beat.step < MaxSteps
  BY DEF Answer, BeatInv, BeatFits
<1>2. ASSUME NEW next \in {"concluding", "reviewing", "modelling", "dropping"},
             beat' = At(next), UNCHANGED <<tape, pending, shown>>, Sound
      PROVE  BeatInv'
  BY <1>1, <1>2, MoveKeeps
<1>3. CASE Stale(L("delivery_stale")) \/ Fault(L("delivery_stale"))
  BY <1>1, <1>3, StaleOrFault
<1> QED
  BY <1>2, <1>3 DEF Answer

LEMMA ConcludeKeeps ==
  ASSUME BeatInv, Conclude
  PROVE  BeatInv'
<1>1. beat # None /\ beat.action = 0
  BY DEF Conclude, BeatInv, BeatFits
<1> QED
  BY <1>1, StaleOrFault DEF Conclude

\* A failed body leaves with a note, if the note can be written.
LEMMA DropKeeps ==
  ASSUME BeatInv, Drop
  PROVE  BeatInv'
<1>1. beat # None /\ beat.action = 0
  BY DEF Drop, BeatInv, BeatFits
<1>2. /\ beat' = None /\ UNCHANGED <<current, epoch, drawn, counts, shown, excused>>
      /\ mount' \in {None, mount} /\ pending' \in {None, pending}
      /\ tape' = tape \/ tape' = Append(tape, L("spool"))
  BY DEF Drop, Leave, Write
<1>3. faults' \in 0..MaxFaults
  BY BoundaryAssumption DEF Drop, BeatInv, TypeOK
<1>4. RestTyped' /\ IdsDrawn' /\ BeatFits'
  BY <1>2, <1>3 DEF counts, BeatInv, TypeOK, RestTyped, IdsDrawn, BeatFits
<1>5. L("spool") \in Line /\ Sober(L("spool")) /\ L("spool").tag # "action"
  BY PlainLine
<1>6. CASE tape' = tape
  BY <1>1, <1>2, <1>4, <1>6, ExtendNone, StepKeeps DEF BeatInv, KeepsInvokes
<1>7. CASE tape' = Append(tape, L("spool"))
  <2>1. Extends /\ KeepsInvokes
    BY <1>1, <1>2, <1>5, <1>7, ExtendOne DEF BeatInv, KeepsInvokes
  <2> QED
    BY <1>2, <1>4, <2>1, StepKeeps
<1> QED
  BY <1>2, <1>6, <1>7

\* A review about the running delivery, by the body or for its missing permission.
LEMMA ReviewKeeps ==
  ASSUME BeatInv, AskForReview
  PROVE  BeatInv' /\ (pending' \notin {None, pending} => pending'.cause # "dependency_changed")
<1>1. beat # None /\ beat.action = 0
  BY DEF AskForReview, BeatInv, BeatFits
<1>2. PICK cause \in {"high_risk", "permission_denied"} : RequestReview(cause)
  BY DEF AskForReview
<1>3. CASE Retain(<<>>, cause)
  BY <1>1, <1>2, <1>3, RetainKeeps
<1>4. CASE Leave /\ UNCHANGED <<tape, pending, shown>> /\ Sound
  <2>1. pending \in Review \cup {None}
    BY DEF BeatInv, TypeOK
  <2> QED
    BY <1>1, <1>4, <2>1, EndKeeps
<1>5. CASE Fault(L("review_request"))
  <2>1. pending' = pending
    BY <1>5 DEF Fault
  <2> QED
    BY <1>1, <1>5, <2>1, StaleOrFault
<1> QED
  BY <1>2, <1>3, <1>4, <1>5 DEF RequestReview

\* A decision goes on the tape before the beat moves on.
LEMMA AuthorizeKeeps ==
  ASSUME BeatInv, Preflight \/ Grant
  PROVE  BeatInv'
<1>1. beat # None /\ beat.action = 0 /\ beat.step < MaxSteps
  BY DEF Preflight, Grant, Authorize, BeatInv, BeatFits
<1>2. PICK next \in {"denied", "granted"} :
        \/ Write(L("semantic")) /\ beat' = At(next) /\ UNCHANGED <<pending, shown>> /\ Sound
        \/ Fault(L("semantic"))
  BY DEF Preflight, Grant, Authorize
<1>3. L("semantic") \in Line /\ Sober(L("semantic")) /\ L("semantic").tag # "action"
  BY PlainLine
<1>4. CASE Fault(L("semantic"))
  BY <1>1, <1>4, StaleOrFault
<1>5. CASE Write(L("semantic")) /\ beat' = At(next) /\ UNCHANGED <<pending, shown>> /\ Sound
  BY <1>1, <1>3, <1>5, MoveKeeps DEF Write
<1> QED
  BY <1>2, <1>4, <1>5

\* What a request is composed from is what is current, or the delivery's registration.
LEMMA ComposeKeeps ==
  ASSUME BeatInv, NEW clip \in 0..Len(tape), Compose(clip)
  PROVE  BeatInv'
<1> DEFINE facts == [current EXCEPT !["register"] = beat.registration]
<1>1. /\ beat # None /\ beat.action = 0 /\ beat.step < MaxSteps /\ clip \in {0} \cup Visible
      /\ beat' = [beat EXCEPT !.at = "composed", !.clip = clip, !.scope = ScopeNow,
                              !.changed = {}, !.facts = facts]
      /\ shown' = shown \cup ({clip} \ {0}) /\ UNCHANGED <<tape, pending>> /\ Sound
  BY DEF Compose, BeatInv, BeatFits
<1>2. beat \in Beat /\ current \in [Kind -> Generation]
  BY <1>1 DEF BeatInv, TypeOK
<1>3. ScopeNow \in Scope /\ ScopeNow.mount = beat.mount
  BY <1>2 DEF ScopeNow, Scope, Beat, BeatInv, TypeOK
<1>4. facts \in [Kind -> Generation] /\ beat.registration \in Generation
  BY <1>2 DEF Beat
<1>5. \A k \in Kind : facts[k].id <= current[k].id
  <2>1. beat.registration.id <= current["register"].id
    BY <1>1 DEF BeatInv, BeatFits
  <2>2. \A k \in Kind : current[k].id \in Nat
    BY <1>2 DEF Generation
  <2> QED
    BY <1>2, <2>1, <2>2
<1> HIDE DEF facts
<1>6. /\ beat' \in Beat /\ beat'.scope = ScopeNow /\ beat'.mount = beat.mount /\ beat'.action = 0
      /\ beat'.step = beat.step
      /\ beat'.registration = beat.registration /\ beat'.facts = facts /\ beat'.changed = {}
  <2>1. clip \in Nat
    BY LenProperties DEF BeatInv, TypeOK
  <2> QED
    BY <1>1, <1>2, <1>3, <1>4, <2>1 DEF Beat
<1>7. RestTyped' /\ IdsDrawn' /\ excused' = excused /\ current' = current
  BY <1>1, SoundKeeps DEF BeatInv, TypeOK, Sound, world
<1>8. BeatFits'
  BY <1>1, <1>3, <1>5, <1>6, <1>7 DEF BeatInv, BeatFits
<1>9. Extends /\ KeepsInvokes
  BY <1>1, <1>7, ExtendNone DEF BeatInv, KeepsInvokes
<1> QED
  BY <1>1, <1>6, <1>7, <1>8, <1>9, StepKeeps

LEMMA ComposeFailsKeeps ==
  ASSUME BeatInv, ComposeFails
  PROVE  BeatInv'
<1>1. beat # None /\ beat.action = 0 /\ pending \in Review \cup {None}
  BY DEF ComposeFails, BeatInv, BeatFits, TypeOK
<1> QED
  BY <1>1, EndKeeps DEF ComposeFails

\* A record that lapsed is evidence, and the request it leads to is about the scope
\* it was composed in.
LEMMA QuarantineKeeps ==
  ASSUME BeatInv, beat # None, NEW l \in Line, Ending(l), Quarantine(l)
  PROVE  BeatInv' /\ (pending' \notin {None, pending} => pending'.scope = beat.scope /\ ScopeCurrent)
<1>1. CASE ScopeCurrent /\ Retain(<<l>>, "dependency_changed")
  <2>1. BeatInv' /\ (pending' # pending => pending'.scope = ScopeNow)
    BY <1>1, RetainKeeps
  <2>2. beat \in Beat /\ beat.scope \in Scope
    BY DEF BeatInv, TypeOK, Beat
  <2>3. ScopeNow = beat.scope
    BY <1>1, <2>2 DEF ScopeCurrent, ScopeNow, Scope, BeatInv, BeatFits
  <2> QED
    BY <1>1, <2>1, <2>3
<1>2. CASE Stale(l)
  BY <1>2, StaleKeeps DEF Stale
<1> QED
  BY <1>1, <1>2 DEF Quarantine

LEMMA PublishActionKeeps ==
  ASSUME BeatInv, PublishAction
  PROVE  BeatInv' /\ (pending' \notin {None, pending} => pending'.scope = beat.scope /\ ScopeCurrent)
<1>1. beat # None /\ beat.at = "granted" /\ beat.action = 0 /\ beat \in Beat /\ beat.step < MaxSteps
  BY DEF PublishAction, BeatInv, BeatFits, TypeOK
<1>2. CASE Valid /\ Write(Record("action")) /\ beat' = [At("calling") EXCEPT !.action = Len(tape) + 1]
           /\ UNCHANGED <<pending, shown>> /\ Sound
  <2>1. Record("action") \in Line /\ Sober(Record("action"))
    BY <1>1, <1>2, RecordLine
  <2>2. tape' = Append(tape, Record("action"))
    BY <1>2 DEF Write
  <2>3. /\ Extends /\ DOMAIN tape' \ DOMAIN tape = {Len(tape) + 1}
    BY <2>1, <2>2, ExtendOne DEF BeatInv
  <2>4. Len(tape) + 1 \in Nat
    BY LenProperties DEF BeatInv, TypeOK
  <2>5. /\ beat' \in Beat /\ beat' # None /\ beat'.at = "calling" /\ beat'.action = Len(tape) + 1
        /\ beat'.step = beat.step /\ beat'.scope = beat.scope /\ beat'.mount = beat.mount /\ beat'.facts = beat.facts
        /\ beat'.registration = beat.registration /\ beat'.changed = beat.changed
    <3>1. /\ beat' \in Beat /\ beat'.at = "calling" /\ beat'.action = Len(tape) + 1
          /\ beat'.step = beat.step /\ beat'.scope = beat.scope /\ beat'.mount = beat.mount /\ beat'.facts = beat.facts
          /\ beat'.registration = beat.registration /\ beat'.changed = beat.changed
      BY <1>1, <1>2, <2>4 DEF At, Beat
    <3> QED
      BY <3>1, BoundaryAssumption
  <2>6. RestTyped' /\ IdsDrawn' /\ excused' = excused /\ current' = current
    BY <1>2, SoundKeeps DEF BeatInv, TypeOK, Sound, world
  <2>7. BeatFits'
    BY <1>1, <2>5, <2>6 DEF BeatInv, BeatFits
  <2>8. KeepsInvokes
    BY <1>1, <2>3, <2>5, <2>6 DEF KeepsInvokes
  <2> QED
    BY <1>2, <2>3, <2>5, <2>6, <2>7, <2>8, StepKeeps
<1>3. CASE ~Valid /\ Quarantine(Judged("action"))
  <2>1. Judged("action") \in Line /\ Ending(Judged("action"))
    BY <1>1, <1>3, JudgedLine DEF Ending
  <2> QED
    BY <1>1, <1>3, <2>1, QuarantineKeeps
<1>4. CASE Fault(Judged("action"))
  BY <1>1, <1>4, JudgedLine, FaultKeeps DEF Fault
<1> QED
  BY <1>2, <1>3, <1>4 DEF PublishAction

\* The call ends; its invoke stays open or is excused.
LEMMA ReturnKeeps ==
  ASSUME BeatInv, Return
  PROVE  BeatInv'
<1>1. beat # None /\ beat.step < MaxSteps
  BY DEF Return, BeatInv, BeatFits
<1>2. ASSUME NEW outcome \in {"answered", "failed"}, beat' = At(outcome),
             UNCHANGED <<tape, pending, shown>>, Sound
      PROVE  BeatInv'
  BY <1>1, <1>2, MoveKeeps
<1>3. CASE /\ faults < MaxFaults /\ faults' = faults + 1
           /\ excused' = excused \cup Open /\ Leave
           /\ UNCHANGED <<world, tape, pending, beats, shown>>
  <2>1. Open \subseteq Nat /\ faults' \in 0..MaxFaults
    BY <1>3, BoundaryAssumption DEF BeatInv, TypeOK, Open, Beat
  <2>2. RestTyped' /\ IdsDrawn' /\ BeatFits'
    BY <1>3, <2>1 DEF world, Leave, BeatInv, TypeOK, RestTyped, IdsDrawn, BeatFits
  <2>3. Extends /\ KeepsInvokes
    BY <1>3, ExtendNone DEF BeatInv, KeepsInvokes, Open, Leave
  <2> QED
    BY <1>3, <2>2, <2>3, StepKeeps DEF Leave
<1> QED
  BY <1>2, <1>3 DEF Return

\* The answer closes the invoke, as the answer or as evidence.
LEMMA PublishOutcomeKeeps ==
  ASSUME BeatInv, PublishOutcome
  PROVE  BeatInv' /\ (pending' \notin {None, pending} => pending'.scope = beat.scope /\ ScopeCurrent)
<1>1. beat # None /\ beat.at \in {"answered", "failed"} /\ beat \in Beat
  BY DEF PublishOutcome, BeatInv, TypeOK
<1>2. CASE Valid /\ Write(Record("answered")) /\ UNCHANGED <<pending, shown>> /\ Sound
           /\ beat' = [At("asking") EXCEPT !.step = @ + 1, !.action = 0]
  <2>1. /\ Record("answered") \in Line /\ Sober(Record("answered"))
        /\ Record("answered").tag = "answered" /\ Record("answered").of = beat.action
    BY <1>1, <1>2, RecordLine
  <2>2. tape' = Append(tape, Record("answered"))
    BY <1>2 DEF Write
  <2>3. /\ Extends /\ DOMAIN tape' \ DOMAIN tape = {Len(tape) + 1}
        /\ Len(tape) + 1 \in DOMAIN tape' /\ tape'[Len(tape) + 1] = Record("answered")
    BY <2>1, <2>2, ExtendOne DEF BeatInv
  <2>4. /\ beat' \in Beat /\ beat' # None /\ beat'.at = "asking" /\ beat'.action = 0
        /\ beat'.scope = beat.scope /\ beat'.mount = beat.mount /\ beat'.facts = beat.facts
        /\ beat'.registration = beat.registration /\ beat'.changed = beat.changed
    <3>1. beat.step + 1 \in 0..MaxSteps
      BY <1>1, BoundaryAssumption DEF Beat, BeatInv, BeatFits
    <3>2. /\ At("asking") \in Beat /\ At("asking").at = "asking" /\ At("asking").step = beat.step
          /\ At("asking").scope = beat.scope /\ At("asking").mount = beat.mount
          /\ At("asking").facts = beat.facts /\ At("asking").registration = beat.registration
          /\ At("asking").changed = beat.changed
      BY <1>1 DEF At, Beat
    <3> DEFINE next == [At("asking") EXCEPT !.step = beat.step + 1, !.action = 0]
    <3>3. next \in Beat /\ next.at = "asking" /\ next.action = 0
      BY <3>1, <3>2 DEF Beat
    <3>4. /\ next.scope = beat.scope /\ next.mount = beat.mount /\ next.facts = beat.facts
          /\ next.registration = beat.registration /\ next.changed = beat.changed
      BY <3>2 DEF Beat
    <3>5. beat' = next
      BY <1>2, <3>2
    <3> QED
      BY <3>3, <3>4, <3>5, BoundaryAssumption
  <2>5. RestTyped' /\ IdsDrawn' /\ excused' = excused /\ current' = current
    BY <1>2, SoundKeeps DEF BeatInv, TypeOK, Sound, world
  <2>6. BeatFits'
    BY <1>1, <2>4, <2>5 DEF BeatInv, BeatFits
  <2>7. KeepsInvokes
    BY <1>1, <2>1, <2>3, <2>4, <2>5 DEF KeepsInvokes
  <2> QED
    BY <1>2, <2>3, <2>4, <2>5, <2>6, <2>7, StepKeeps
<1>3. CASE ~Valid /\ Quarantine(Judged(beat.at))
  <2>1. Judged(beat.at) \in Line /\ Ending(Judged(beat.at))
    BY <1>1, <1>3, JudgedLine DEF Ending
  <2> QED
    BY <1>1, <1>3, <2>1, QuarantineKeeps
<1>4. CASE Fault(Judged(beat.at))
  BY <1>1, <1>4, JudgedLine, FaultKeeps DEF Fault
<1>5. CASE Valid /\ Stale(Record("failed")) /\ beat.at = "failed"
  <2>1. Record("failed") \in Line /\ Ending(Record("failed"))
    BY <1>1, <1>5, RecordLine DEF Ending
  <2> QED
    BY <1>1, <1>5, <2>1, StaleKeeps DEF Stale
<1> QED
  BY <1>2, <1>3, <1>4, <1>5 DEF PublishOutcome

----------------------------------------------------------------------------
(* The theorems *)

\* Every step keeps the strengthening, and asks again only where it may.
LEMMA BeatStep ==
  ASSUME BeatInv, Next
  PROVE  /\ BeatInv'
         /\ pending' \notin {None, pending} /\ pending'.cause = "dependency_changed"
              => pending'.scope = beat.scope /\ ScopeCurrent
<1> DEFINE Asks == pending' \notin {None, pending} /\ pending'.cause = "dependency_changed"
                     => pending'.scope = beat.scope /\ ScopeCurrent
<1>1. ASSUME NEW k \in Kind, NEW says \in Document, PutDocument(k, says)
      PROVE  BeatInv' /\ Asks
  BY <1>1, PutKeeps DEF PutDocument
<1>2. CASE RevokeReviews \/ ResolveReview \/ UnmountBody \/ (\E complete \in BOOLEAN : MountBody(complete))
  BY <1>2, HostKeeps DEF RevokeReviews, ResolveReview, UnmountBody, MountBody
<1>3. CASE Crash
  BY <1>3, CrashKeeps DEF Crash
<1>4. CASE EnterBody
  BY <1>4, EnterKeeps DEF EnterBody
<1>5. CASE Ask
  BY <1>5, AskKeeps DEF Ask, Stale, Fault
<1>6. CASE Answer
  BY <1>6, AnswerKeeps DEF Answer, Stale, Fault
<1>7. CASE Conclude
  BY <1>7, ConcludeKeeps DEF Conclude, Stale, Fault
<1>8. CASE Drop
  BY <1>8, DropKeeps DEF Drop
<1>9. CASE AskForReview
  BY <1>9, ReviewKeeps
<1>10. CASE Preflight \/ Grant
  BY <1>10, AuthorizeKeeps DEF Preflight, Grant, Authorize, Fault
<1>11. ASSUME NEW clip \in 0..Len(tape), Compose(clip)
       PROVE  BeatInv' /\ Asks
  BY <1>11, ComposeKeeps DEF Compose
<1>12. CASE ComposeFails
  BY <1>12, ComposeFailsKeeps DEF ComposeFails
<1>13. CASE PublishAction
  BY <1>13, PublishActionKeeps
<1>14. CASE Return
  BY <1>14, ReturnKeeps DEF Return
<1>15. CASE PublishOutcome
  BY <1>15, PublishOutcomeKeeps
<1> QED
  BY <1>1, <1>2, <1>3, <1>4, <1>5, <1>6, <1>7, <1>8, <1>9, <1>10, <1>11, <1>12, <1>13, <1>14, <1>15
     DEF Next

LEMMA BeatStutter == BeatInv /\ UNCHANGED vars => BeatInv'
BY DEF vars, BeatInv, TypeOK, IdsDrawn, BeatFits, AnswersJudged, Sober, Audit, ShownVisible, Visible,
       InvokesAreClosed

\* The strengthening is an invariant.
LEMMA BeatInvariance == Spec => []BeatInv
<1>1. Init => BeatInv
  BY BeatInitInv
<1>2. BeatInv /\ [Next]_vars => BeatInv'
  BY BeatStep, BeatStutter
<1> QED
  BY <1>1, <1>2, PTL DEF Spec

\* For any number of beats, rewrites, revocations, mounts and faults: no body and no
\* model is given an answer whose request no longer held when it was written, and
\* every invoke is closed, open, or excused by a fault. (model_boundary.rs:101)
THEOREM BoundaryIsSafe == Spec => []BoundarySafe
<1>1. BeatInv => BoundarySafe
  BY DEF BeatInv, BoundarySafe, InformedByTheCurrent, AnswersJudged, ShownVisible, Visible, Sober
<1> QED
  BY <1>1, BeatInvariance, PTL

\* A stale model call becomes a request only in the mount and under the authority
\* its inputs were read in. (model_boundary.rs:191)
THEOREM RequestsAreOwn == Spec => NoRequestOnAReplacement
<1> DEFINE Asks == pending' \notin {None, pending} /\ pending'.cause = "dependency_changed"
                     => pending'.scope = beat.scope /\ ScopeCurrent
<1>1. BeatInv /\ [Next]_vars => [Asks]_vars
  BY BeatStep
<1> QED
  BY <1>1, BeatInvariance, PTL DEF Spec, NoRequestOnAReplacement

(* ------------------------- numbers and finite sets ----------------------- *)

\* A set of numbers that is not empty has a least one.
LEMMA Smallest ==
  ASSUME NEW S \in SUBSET Nat, S # {}
  PROVE  \E m \in S : \A j \in S : m <= j
<1> DEFINE R == OpToRel(<, Nat)
<1>1. \A x, y \in Nat : <<x, y>> \in R <=> x < y
  BY DEF OpToRel
<1>2. IsWellFoundedOn(R, Nat)
  BY NatLessThanWellFounded
<1> HIDE DEF R
<1>3. PICK m \in S : \A j \in S : ~(<<j, m>> \in R)
  BY <1>2, WFMin
<1>4. \A j \in S : m <= j
  <2> TAKE j \in S
  <2>1. j \in Nat /\ m \in Nat
    OBVIOUS
  <2>2. ~(j < m)
    BY <1>1, <1>3, <2>1
  <2> QED
    BY <2>1, <2>2
<1> QED
  BY <1>4

LEMMA MinOf ==
  ASSUME NEW S \in SUBSET Nat, S # {}
  PROVE  Min(S) \in S /\ \A y \in S : Min(S) <= y
<1>1. \E m \in S : \A j \in S : m <= j
  BY Smallest
<1> QED
  BY <1>1 DEF Min

\* A bounded one has a greatest: it is the closest to the bound.
LEMMA MaxOf ==
  ASSUME NEW S \in SUBSET Nat, S # {}, NEW b \in Nat, \A x \in S : x <= b
  PROVE  Max(S) \in S /\ \A y \in S : y <= Max(S)
<1> DEFINE D == {b - x : x \in S}
<1>1. D \in SUBSET Nat
  <2>1. \A x \in S : b - x \in Nat
    OBVIOUS
  <2> QED
    BY <2>1
<1>0. D # {}
  OBVIOUS
<1>2. PICK d \in D : \A j \in D : d <= j
  <2> HIDE DEF D
  <2> QED
    BY <1>0, <1>1, Smallest
<1>3. PICK m \in S : d = b - m
  OBVIOUS
<1>4. \A y \in S : m >= y
  <2> TAKE y \in S
  <2>1. b - y \in D
    OBVIOUS
  <2>2. b - m <= b - y
    BY <1>2, <1>3, <2>1
  <2> QED
    BY <2>2
<1>5. Max(S) \in S /\ \A y \in S : Max(S) >= y
  BY <1>4 DEF Max
<1> QED
  BY <1>5

\* A finite set of numbers is bounded: the first of its elements, listed, that none
\* of the bounds fits would be fitted by itself or by the bound of those before it.
LEMMA FiniteBounded ==
  ASSUME NEW S \in SUBSET Nat, IsFiniteSet(S)
  PROVE  \E b \in Nat : \A x \in S : x <= b
<1>1. PICK list \in Seq(S) : \A x \in S : \E n \in 1..Len(list) : list[n] = x
  BY DEF IsFiniteSet
<1>2. \A n \in 1..Len(list) : list[n] \in Nat
  BY <1>1, ElementOfSeq
<1>3. Len(list) \in Nat
  BY <1>1, LenProperties
<1> DEFINE Fits(n) == \E b \in Nat : \A i \in 1..n : list[i] <= b
           Bad == {n \in 0..Len(list) : ~Fits(n)}
<1>4. ASSUME Bad # {} PROVE FALSE
  <2>1. Bad \in SUBSET Nat
    BY <1>3
  <2>2. PICK m \in Bad : \A j \in Bad : m <= j
    <3> HIDE DEF Bad
    <3> QED
      BY <1>4, <2>1, Smallest
  <2>3. 0 \in Nat /\ \A i \in 1..0 : list[i] <= 0
    OBVIOUS
  <2>4. m # 0 /\ m \in Nat /\ m <= Len(list) /\ ~Fits(m)
    BY <1>3, <2>2, <2>3
  <2>5. m - 1 \in 0..Len(list)
    BY <1>3, <2>4
  <2>5a. ~(m <= m - 1)
    BY <2>4
  <2>5b. m - 1 \notin Bad
    <3> HIDE DEF Bad
    <3> QED
      BY <2>2, <2>5a
  <2>6. PICK b \in Nat : \A i \in 1..(m - 1) : list[i] <= b
    BY <2>5, <2>5b
  <2>7. list[m] \in Nat
    BY <1>2, <1>3, <2>4
  <2>8. PICK c \in Nat : b <= c /\ list[m] <= c
    <3>1. \A x, y \in Nat : \E c \in Nat : x <= c /\ y <= c
      <4> TAKE x, y \in Nat
      <4>1. x <= x + y /\ y <= x + y /\ x + y \in Nat
        OBVIOUS
      <4> QED
        BY <4>1
    <3>2. b \in Nat
      BY <2>6
    <3> QED
      BY <2>7, <3>1, <3>2
  <2>9. \A i \in 1..m : list[i] <= c
    <3> TAKE i \in 1..m
    <3>1. i = m \/ i \in 1..(m - 1)
      BY <2>4
    <3>2. list[i] \in Nat
      BY <1>2, <1>3, <2>4
    <3>3. i # m => list[i] <= b
      BY <2>6, <3>1
    <3>4. \A x, y, z \in Nat : x <= y /\ y <= z => x <= z
      OBVIOUS
    <3>5. b \in Nat /\ c \in Nat /\ b <= c /\ list[m] <= c
      BY <2>6, <2>8
    <3> HIDE <2>6, <2>8
    <3> QED
      BY <3>2, <3>3, <3>4, <3>5
  <2> QED
    BY <2>4, <2>9
<1>5. Fits(Len(list))
  <2>1. Len(list) \in 0..Len(list)
    BY <1>3
  <2> QED
    BY <1>4, <2>1
<1>6. PICK b \in Nat : \A i \in 1..Len(list) : list[i] <= b
  BY <1>5
<1> QED
  BY <1>1, <1>6

LEMMA FiniteImage ==
  ASSUME NEW S, IsFiniteSet(S), NEW f, f = [x \in S |-> f[x]]
  PROVE  IsFiniteSet({f[x] : x \in S})
<1> DEFINE T == {f[x] : x \in S}
<1>1. f \in Surjection(S, T)
  BY DEF Surjection
<1>2. IsFiniteSet(T)
  <2> HIDE DEF T
  <2> QED
    BY <1>1, FS_Surjection
<1> QED
  BY <1>2

(* ------------------------ versions, files and views ---------------------- *)

LEMMA CurrentFits ==
  ASSUME ProductsTypeOK
  PROVE  Current \in Files /\ CurrentEdges \in SUBSET DepEdge
<1>1. CASE views = <<>>
  BY <1>1 DEF Current, CurrentEdges, NoFiles, Files
<1>2. CASE views # <<>>
  <2>1. views \in Seq(View)
    BY DEF ProductsTypeOK
  <2>2. Len(views) \in 1..Len(views)
    BY <1>2, <2>1, EmptySeq, LenProperties
  <2>3. views[Len(views)] \in View
    BY <2>1, <2>2, ElementOfSeq
  <2> QED
    BY <1>2, <2>3 DEF Current, CurrentEdges, View
<1> QED
  BY <1>1, <1>2

LEMMA ViewFits ==
  ASSUME ProductsTypeOK, NEW i \in DOMAIN views
  PROVE  i \in Nat /\ i <= Len(views) /\ views[i].files \in Files
<1>1. views \in Seq(View)
  BY DEF ProductsTypeOK
<1>2. DOMAIN views = 1..Len(views) /\ Len(views) \in Nat
  BY <1>1, LenProperties
<1>3. views[i] \in View
  BY <1>1, <1>2, ElementOfSeq
<1> QED
  BY <1>2, <1>3 DEF View

LEMMA LogFits ==
  ASSUME ProductsTypeOK, NEW w \in Writer
  PROVE  /\ log[w] \in Seq(LogLine) /\ Len(log[w]) \in Nat /\ DOMAIN log[w] = 1..Len(log[w])
         /\ \A i \in 1..Len(log[w]) : /\ log[w][i].path \in Path
                                      /\ log[w][i].op = "write" => log[w][i].file \in FileRec
                                      /\ log[w][i].op \in {"write", "tombstone"}
         /\ Writes(w) \in SUBSET Nat /\ Writes(w) \subseteq 1..Len(log[w])
         /\ \A i \in Writes(w) : log[w][i].op = "write" /\ log[w][i].path \in Path /\ log[w][i].file \in FileRec
<1>1. log[w] \in Seq(LogLine)
  BY DEF ProductsTypeOK
<1>2. DOMAIN log[w] = 1..Len(log[w]) /\ Len(log[w]) \in Nat
  BY <1>1, LenProperties
<1>3. \A i \in 1..Len(log[w]) : log[w][i] \in LogLine
  BY <1>1, ElementOfSeq
<1>4. \A l \in LogLine : /\ l.path \in Path /\ l.op \in {"write", "tombstone"}
                         /\ l.op = "write" => l.file \in FileRec
  BY DEF LogLine
<1> QED
  BY <1>1, <1>2, <1>3, <1>4 DEF Writes

\* The last of some lines of a log is one of them.
LEMMA LastOf ==
  ASSUME ProductsTypeOK, NEW w \in Writer, NEW at, at \subseteq 1..Len(log[w]), at # {}
  PROVE  Max(at) \in at /\ \A i \in at : i <= Max(at)
<1>1. Len(log[w]) \in Nat
  BY LogFits
<1>2. at \in SUBSET Nat /\ \A i \in at : i <= Len(log[w])
  BY <1>1
<1> QED
  BY <1>1, <1>2, MaxOf

\* What a path was left with by the first n lines: what it had, or what the last of
\* them about it left.
LEMMA ReducedIs ==
  ASSUME ProductsTypeOK, NEW w \in Writer, NEW n \in 0..Len(log[w]), NEW p \in Path
  PROVE  \/ /\ \A i \in 1..n : log[w][i].path # p
            /\ Reduced(w, n)[p] = Current[p]
         \/ \E k \in 1..n : /\ log[w][k].path = p
                            /\ \A i \in 1..n : log[w][i].path = p => i <= k
                            /\ Reduced(w, n)[p] = IF log[w][k].op = "write" THEN log[w][k].file ELSE Absent
<1> DEFINE at == {i \in 1..n : log[w][i].path = p}
<1>1. CASE at = {}
  <2>1. Reduced(w, n)[p] = Current[p]
    BY <1>1 DEF Reduced
  <2> QED
    BY <1>1, <2>1
<1>2. CASE at # {}
  <2>1. at \subseteq 1..Len(log[w])
    BY LogFits
  <2>2. Max(at) \in at /\ \A i \in at : i <= Max(at)
    <3> HIDE DEF at
    <3> QED
      BY <1>2, <2>1, LastOf
  <2>3. Reduced(w, n)[p] = IF log[w][Max(at)].op = "write" THEN log[w][Max(at)].file ELSE Absent
    BY <1>2 DEF Reduced
  <2>4. PICK k : k = Max(at)
    OBVIOUS
  <2>5. k \in 1..n /\ log[w][k].path = p /\ \A i \in 1..n : log[w][i].path = p => i <= k
    BY <2>2, <2>4
  <2> QED
    BY <2>3, <2>4, <2>5
<1> QED
  BY <1>1, <1>2

LEMMA ReducedFits ==
  ASSUME ProductsTypeOK, NEW w \in Writer, NEW n \in 0..Len(log[w])
  PROVE  Reduced(w, n) \in Files
<1>1. \A p \in Path : Reduced(w, n)[p] \in FileRec \cup {Absent}
  <2> TAKE p \in Path
  <2>1. Current[p] \in FileRec \cup {Absent}
    BY CurrentFits DEF Files
  <2>2. \A k \in 1..n : k \in 1..Len(log[w])
    BY LogFits
  <2>3. \A k \in 1..n : log[w][k].op = "write" => log[w][k].file \in FileRec
    BY <2>2, LogFits
  <2> QED
    BY <2>1, <2>3, ReducedIs
<1>2. Reduced(w, n) = [p \in Path |-> Reduced(w, n)[p]]
  BY DEF Reduced
<1> QED
  BY <1>1, <1>2 DEF Files

LEMMA ReduceFits ==
  ASSUME ProductsTypeOK, NEW w \in Writer
  PROVE  Reduce(w) \in Files
<1>1. Len(log[w]) \in 0..Len(log[w])
  BY LogFits
<1> QED
  BY <1>1, ReducedFits DEF Reduce

LEMMA LastWriteFits ==
  ASSUME ProductsTypeOK, NEW w \in Writer, NEW p \in Path
  PROVE  CurrentOf(w, p) \in FileRec \cup {Absent}
<1>1. Current[p] \in FileRec \cup {Absent}
  BY CurrentFits DEF Files
<1>2. LastWrite(w, p) \in FileRec \cup {Absent}
  <2> DEFINE at == {i \in Writes(w) : log[w][i].path = p}
  <2>1. CASE at = {}
    BY <2>1 DEF LastWrite
  <2>2. CASE at # {}
    <3>1. at \subseteq 1..Len(log[w])
      BY LogFits
    <3>2. Max(at) \in at
      <4> HIDE DEF at
      <4> QED
        BY <2>2, <3>1, LastOf
    <3>3. log[w][Max(at)].file \in FileRec
      BY <3>2, LogFits
    <3> QED
      BY <2>2, <3>3 DEF LastWrite
  <2> QED
    BY <2>1, <2>2
<1> QED
  BY <1>1, <1>2 DEF CurrentOf

\* What is published and what one worker has written is finite, so there is a next
\* version of every name.
LEMMA NextVersionFits ==
  ASSUME ProductsTypeOK, NEW w \in Writer, NEW name
  PROVE  NextVersion(w, name) \in Nat
<1> DEFINE TheFiles(i) == {views[i].files[p] : p \in Path}
           Some == {g \in Published \cup Written(w) : g.name = name}
<1>1. IsFiniteSet(Published)
  <2>1. \A i \in DOMAIN views : IsFiniteSet(TheFiles(i))
    <3> TAKE i \in DOMAIN views
    <3>1. PICK f : f = views[i].files
      OBVIOUS
    <3>2. f = [p \in Path |-> f[p]]
      BY <3>1, ViewFits DEF Files
    <3>3. IsFiniteSet({f[p] : p \in Path})
      BY <3>2, FiniteImage, ProductsAssumption
    <3> QED
      BY <3>1, <3>3
  <2>2. IsFiniteSet(DOMAIN views)
    <3>1. DOMAIN views = 1..Len(views) /\ Len(views) \in Nat
      BY LenProperties DEF ProductsTypeOK
    <3> QED
      BY <3>1, FS_Interval
  <2>3. IsFiniteSet({TheFiles(i) : i \in DOMAIN views})
    <3>1. PICK g : g = [i \in DOMAIN views |-> TheFiles(i)]
      OBVIOUS
    <3>0. g = [i \in DOMAIN views |-> g[i]]
      BY <3>1
    <3>2. IsFiniteSet({g[i] : i \in DOMAIN views})
      BY <2>2, <3>0, FiniteImage
    <3>3. {g[i] : i \in DOMAIN views} = {TheFiles(i) : i \in DOMAIN views}
      BY <3>1
    <3> QED
      BY <3>2, <3>3
  <2>4. IsFiniteSet(UNION {TheFiles(i) : i \in DOMAIN views})
    BY <2>1, <2>3, FS_UNION
  <2>5. Published \in SUBSET UNION {TheFiles(i) : i \in DOMAIN views}
    BY DEF Published
  <2> HIDE DEF TheFiles
  <2> QED
    BY <2>4, <2>5, FS_Subset
<1>2. IsFiniteSet(Written(w))
  <2>1. IsFiniteSet(Writes(w))
    <3>1. Len(log[w]) \in Nat /\ Writes(w) \in SUBSET (1..Len(log[w]))
      BY LogFits
    <3>2. IsFiniteSet(1..Len(log[w]))
      BY <3>1, FS_Interval
    <3> QED
      BY <3>1, <3>2, FS_Subset
  <2>2. PICK g : g = [i \in Writes(w) |-> log[w][i].file]
    OBVIOUS
  <2>3. IsFiniteSet({g[i] : i \in Writes(w)})
    BY <2>1, <2>2, FiniteImage
  <2>4. {g[i] : i \in Writes(w)} = Written(w)
    BY <2>2 DEF Written
  <2> QED
    BY <2>3, <2>4
<1>3. IsFiniteSet(Published \cup Written(w))
  BY <1>1, <1>2, FS_Union
<1>4. IsFiniteSet(Some)
  BY <1>3, FS_Subset
<1>5. Published \cup Written(w) \subseteq FileRec
  <2>1. Published \subseteq FileRec
    <3>1. \A i \in DOMAIN views, p \in Path : views[i].files[p] \in FileRec \cup {Absent}
      BY ViewFits DEF Files
    <3> QED
      BY <3>1 DEF Published
  <2>2. Written(w) \subseteq FileRec
    BY LogFits DEF Written
  <2> QED
    BY <2>1, <2>2
<1>6. IsFiniteSet(Versions(w, name))
  <2>1. PICK g : g = [f \in Some |-> f.version]
    OBVIOUS
  <2>2. IsFiniteSet({g[f] : f \in Some})
    <3> HIDE DEF Some
    <3> QED
      BY <1>4, <2>1, FiniteImage
  <2>3. {g[f] : f \in Some} = Versions(w, name)
    BY <2>1 DEF Versions
  <2> QED
    BY <2>2, <2>3
<1>7. Versions(w, name) \cup {0} \in SUBSET Nat
  <2>1. \A f \in FileRec : f.version \in Nat
    BY DEF FileRec
  <2> QED
    BY <1>5, <2>1 DEF Versions
<1>8. IsFiniteSet(Versions(w, name) \cup {0})
  BY <1>6, FS_AddElement
<1>9. PICK b \in Nat : \A x \in Versions(w, name) \cup {0} : x <= b
  BY <1>7, <1>8, FiniteBounded
<1>10. Max(Versions(w, name) \cup {0}) \in Nat
  BY <1>7, <1>9, MaxOf
<1> QED
  BY <1>10 DEF NextVersion

LEMMA ClashesFit ==
  ASSUME ProductsTypeOK, NEW w \in Writer
  PROVE  /\ Clashes(w) \subseteq Writes(w)
         /\ FirstClash(w) \in Conflict \cup {Absent}
         /\ FirstClash(w) = Absent => Clashes(w) = {}
<1>1. Clashes(w) \subseteq Writes(w)
  BY DEF Clashes
<1>2. CASE Clashes(w) = {}
  BY <1>1, <1>2 DEF FirstClash
<1>3. CASE Clashes(w) # {}
  <2>1. Clashes(w) \in SUBSET Nat
    BY <1>1, LogFits
  <2>2. Min(Clashes(w)) \in Clashes(w)
    BY <1>3, <2>1, MinOf
  <2>3. PICK m \in Clashes(w) : m = Min(Clashes(w))
    BY <2>2
  <2>4. m \in Writes(w) /\ m \in 1..Len(log[w]) /\ log[w][m].path \in Path /\ log[w][m].file \in FileRec
    BY <1>1, LogFits
  <2>5. PICK old : old = Before(w, m)[log[w][m].path]
    OBVIOUS
  <2>6. old # Absent
    BY <2>5 DEF Clashes
  <2>7. m - 1 \in 0..Len(log[w])
    <3>1. Len(log[w]) \in Nat
      BY LogFits
    <3> QED
      BY <2>4, <3>1
  <2>8. Before(w, m) \in Files
    BY <2>7, ReducedFits DEF Before
  <2>9. old \in FileRec
    BY <2>4, <2>5, <2>6, <2>8 DEF Files
  <2>10. FirstClash(w) = [path |-> log[w][m].path, existing |-> old.name, incoming |-> log[w][m].file.name]
    BY <1>3, <2>3, <2>5 DEF FirstClash
  <2>11. FirstClash(w) \in Conflict
    BY <2>4, <2>9, <2>10 DEF Conflict, FileRec
  <2> QED
    BY <1>1, <2>11, ProductsAssumption
<1> QED
  BY <1>2, <1>3

(* -------------------------------- rollback ------------------------------- *)

\* f says what the files may be after each of the first n dependents.
GoesBack(files, vers, n, f) ==
  f = [k \in 0..n |-> IF k = 0 THEN {files} ELSE UNION {DependentBack(x, vers[k]) : x \in f[k - 1]}]

\* There is such a function: one for a shorter list is continued.
LEMMA BacksExist ==
  ASSUME NEW files, NEW vers, NEW N \in Nat
  PROVE  \E f : GoesBack(files, vers, N, f)
<1> SUFFICES ASSUME ~\E f : GoesBack(files, vers, N, f)
             PROVE  FALSE
  OBVIOUS
<1> DEFINE S == {n \in 0..N : ~\E f : GoesBack(files, vers, n, f)}
<1>1. PICK n \in S : \A j \in S : n <= j
  <2>1. S \in SUBSET Nat /\ N \in S
    OBVIOUS
  <2> HIDE DEF S
  <2> QED
    BY <2>1, Smallest
<1>2. n \in 0..N /\ ~\E f : GoesBack(files, vers, n, f)
  BY <1>1
<1>3. CASE n = 0
  <2> DEFINE f == [k \in 0..0 |-> {files}]
  <2>1. GoesBack(files, vers, 0, f)
    BY DEF GoesBack
  <2> QED
    BY <1>2, <1>3, <2>1
<1>4. CASE n # 0
  <2>1. n - 1 \in 0..N /\ n - 1 \notin S
    BY <1>1, <1>2, <1>4
  <2>2. PICK f : GoesBack(files, vers, n - 1, f)
    BY <2>1
  <2> DEFINE g == [k \in 0..n |-> IF k = n THEN UNION {DependentBack(x, vers[n]) : x \in f[n - 1]} ELSE f[k]]
  <2>3. \A k \in 0..n-1 : g[k] = f[k]
    BY <1>2
  <2>4. \A k \in 0..n : g[k] = IF k = 0 THEN {files} ELSE UNION {DependentBack(x, vers[k]) : x \in g[k - 1]}
    <3> TAKE k \in 0..n
    <3>1. CASE k = n
      <4>1. n - 1 \in 0..n-1
        BY <1>2, <1>4
      <4>2. g[n - 1] = f[n - 1]
        BY <2>3, <4>1
      <4>3. g[n] = UNION {DependentBack(x, vers[n]) : x \in f[n - 1]}
        BY <1>2
      <4> HIDE DEF g
      <4> QED
        BY <1>4, <3>1, <4>2, <4>3
    <3>2. CASE k # n
      <4>1. k \in 0..n-1
        BY <1>2, <3>2
      <4>2. f[k] = IF k = 0 THEN {files} ELSE UNION {DependentBack(x, vers[k]) : x \in f[k - 1]}
        <5>1. \A j \in 0..n-1 : f[j] = IF j = 0 THEN {files} ELSE UNION {DependentBack(x, vers[j]) : x \in f[j - 1]}
          BY <2>2 DEF GoesBack
        <5> QED
          BY <4>1, <5>1
      <4>3. g[k] = f[k]
        BY <2>3, <4>1
      <4>4. k # 0 => g[k - 1] = f[k - 1]
        <5>1. k # 0 => k - 1 \in 0..n-1
          BY <1>2, <4>1
        <5> QED
          BY <2>3, <5>1
      <4> HIDE DEF g
      <4> QED
        BY <4>2, <4>3, <4>4
    <3> QED
      BY <3>1, <3>2
  <2>5. GoesBack(files, vers, n, g)
    <3>1. g = [k \in 0..n |-> g[k]]
      OBVIOUS
    <3> HIDE DEF g
    <3> QED
      BY <2>4, <3>1 DEF GoesBack
  <2> QED
    BY <1>2, <2>5
<1> QED
  BY <1>3, <1>4

LEMMA BacksStep ==
  ASSUME NEW files, NEW vers, NEW N \in Nat, Len(vers) = N
  PROVE  /\ Backs(files, vers)[0] = {files}
         /\ \A k \in 1..N :
              Backs(files, vers)[k] = UNION {DependentBack(x, vers[k]) : x \in Backs(files, vers)[k - 1]}
         /\ AllBack(files, vers) = Backs(files, vers)[N]
<1> DEFINE A == Backs(files, vers)
<1>1. \E f : f = [k \in 0..Len(vers) |-> IF k = 0 THEN {files} ELSE UNION {DependentBack(x, vers[k]) : x \in f[k - 1]}]
  <2>1. PICK f : GoesBack(files, vers, N, f)
    BY BacksExist
  <2>2. f = [k \in 0..Len(vers) |-> IF k = 0 THEN {files} ELSE UNION {DependentBack(x, vers[k]) : x \in f[k - 1]}]
    BY <2>1 DEF GoesBack
  <2> QED
    BY <2>2
<1>2. A = [k \in 0..Len(vers) |-> IF k = 0 THEN {files} ELSE UNION {DependentBack(x, vers[k]) : x \in A[k - 1]}]
  BY <1>1 DEF Backs
<1> HIDE DEF A
<1>3. \A k \in 0..N : A[k] = IF k = 0 THEN {files} ELSE UNION {DependentBack(x, vers[k]) : x \in A[k - 1]}
  BY <1>2
<1>4. A[0] = {files} /\ \A k \in 1..N : A[k] = UNION {DependentBack(x, vers[k]) : x \in A[k - 1]}
  <2>1. 0 \in 0..N /\ \A k \in 1..N : k \in 0..N /\ k # 0
    OBVIOUS
  <2> QED
    BY <1>3, <2>1
<1> QED
  BY <1>4 DEF A, AllBack

\* A file that is found has the name and the version that were asked for.
LEMMA FoundFits ==
  ASSUME ProductsTypeOK, NEW name, NEW version, NEW old \in Found(name, version)
  PROVE  /\ old.path \in Path /\ old.file \in FileRec
         /\ Ver(old.file) = [name |-> name, version |-> version]
         /\ old.file.name = name
<1> DEFINE Places(i) == {p \in Path : views[i].files[p] # Absent
                                   /\ Ver(views[i].files[p]) = [name |-> name, version |-> version]}
           in == {i \in DOMAIN views : Places(i) # {}}
<1>1. in # {} /\ \E p \in Places(Max(in)) : old = [path |-> p, file |-> views[Max(in)].files[p]]
  BY DEF Found
<1>2. Max(in) \in in
  <2>1. in \in SUBSET Nat /\ Len(views) \in Nat /\ \A i \in in : i <= Len(views)
    <3>1. Len(views) \in Nat
      BY LenProperties DEF ProductsTypeOK
    <3> QED
      BY <3>1, ViewFits
  <2> HIDE DEF in
  <2> QED
    BY <1>1, <2>1, MaxOf
<1>3. PICK m \in DOMAIN views : m = Max(in)
  BY <1>2
<1>4. PICK p \in Path : /\ views[m].files[p] # Absent
                        /\ Ver(views[m].files[p]) = [name |-> name, version |-> version]
                        /\ old = [path |-> p, file |-> views[m].files[p]]
  BY <1>1, <1>3
<1>5. views[m].files[p] \in FileRec
  BY <1>4, ViewFits DEF Files
<1>6. old.path = p /\ old.file = views[m].files[p]
  BY <1>4
<1>7. old.file.name = name
  <2>1. Ver(old.file).name = old.file.name
    BY DEF Ver
  <2> QED
    BY <1>4, <1>6, <2>1
<1> QED
  BY <1>4, <1>5, <1>6, <1>7

\* Taking a name away leaves every other file.
LEMMA WithoutIs ==
  ASSUME NEW files \in Files, NEW name
  PROVE  /\ Without(files, name) \in Files
         /\ \A x \in Have(Without(files, name)) : x \in Have(files) /\ x.name # name
<1>1. Without(files, name) \in Files
  BY DEF Without, Files
<1>2. ASSUME NEW x \in Have(Without(files, name))
      PROVE  x \in Have(files) /\ x.name # name
  <2>1. PICK p \in Path : Without(files, name)[p] # Absent /\ x = Ver(Without(files, name)[p])
    BY DEF Have
  <2>2. files[p] # Absent /\ files[p].name # name /\ Without(files, name)[p] = files[p]
    BY <2>1 DEF Without
  <2>3. x = Ver(files[p]) /\ x.name = files[p].name
    BY <2>1, <2>2 DEF Ver
  <2> QED
    BY <2>2, <2>3 DEF Have
<1> QED
  BY <1>1, <1>2

\* Putting one file into a place adds its version and no other.
LEMMA PutIs ==
  ASSUME NEW files \in Files, NEW p \in Path, NEW file \in FileRec
  PROVE  /\ [files EXCEPT ![p] = file] \in Files
         /\ \A x \in Have([files EXCEPT ![p] = file]) : x \in Have(files) \/ x = Ver(file)
<1> DEFINE new == [files EXCEPT ![p] = file]
<1>1. new \in Files /\ new[p] = file /\ \A q \in Path : q # p => new[q] = files[q]
  BY DEF Files
<1> HIDE DEF new
<1>2. \A x \in Have(new) : x \in Have(files) \/ x = Ver(file)
  BY <1>1 DEF Have
<1> QED
  BY <1>1, <1>2 DEF new

LEMMA BackIs ==
  ASSUME ProductsTypeOK, NEW files \in Files, NEW name, NEW version, NEW old \in Found(name, version)
  PROVE  /\ Back(files, old) \in Files
         /\ \A x \in Have(Back(files, old)) :
              \/ x \in Have(files) /\ x.name # name
              \/ x = [name |-> name, version |-> version]
<1>1. old.path \in Path /\ old.file \in FileRec /\ old.file.name = name
      /\ Ver(old.file) = [name |-> name, version |-> version]
  BY FoundFits
<1>2. PICK rest : rest = Without(files, name)
  OBVIOUS
<1>3. rest \in Files /\ \A x \in Have(rest) : x \in Have(files) /\ x.name # name
  BY <1>2, WithoutIs
<1>4. Back(files, old) = [rest EXCEPT ![old.path] = old.file]
  BY <1>1, <1>2 DEF Back
<1>5. /\ [rest EXCEPT ![old.path] = old.file] \in Files
      /\ \A x \in Have([rest EXCEPT ![old.path] = old.file]) : x \in Have(rest) \/ x = Ver(old.file)
  BY <1>1, <1>3, PutIs
<1> QED
  BY <1>1, <1>3, <1>4, <1>5

\* A dependent goes back: its own version is gone, no other one of another name comes.
LEMMA DependentBackIs ==
  ASSUME ProductsTypeOK, NEW files \in Files, NEW ver \in VerId, NEW g \in DependentBack(files, ver)
  PROVE  /\ g \in Files
         /\ \A x \in Have(g) : x.name # ver.name => x \in Have(files)
         /\ ver \notin Have(g)
<1>0. ver.version \in Nat /\ ver = [name |-> ver.name, version |-> ver.version]
  BY DEF VerId
<1>1. CASE ver.version <= 1
  <2>1. g = Without(files, ver.name)
    BY <1>1 DEF DependentBack
  <2>2. g \in Files /\ \A x \in Have(g) : x \in Have(files) /\ x.name # ver.name
    BY <2>1, WithoutIs
  <2> QED
    BY <2>2
<1>2. CASE ~(ver.version <= 1)
  <2>1. PICK old \in Found(ver.name, ver.version - 1) : g = Back(files, old)
    BY <1>2 DEF DependentBack
  <2>2. PICK earlier : earlier = ver.version - 1
    OBVIOUS
  <2>3. /\ g \in Files
        /\ \A x \in Have(g) : \/ x \in Have(files) /\ x.name # ver.name
                              \/ x = [name |-> ver.name, version |-> earlier]
    BY <2>1, <2>2, BackIs
  <2>4. earlier # ver.version
    BY <1>0, <2>2
  <2>5. \A x \in Have(g) : x.name # ver.name => x \in Have(files)
    BY <2>3
  <2>6. ver # [name |-> ver.name, version |-> earlier]
    <3>1. [name |-> ver.name, version |-> earlier].version = earlier
      OBVIOUS
    <3> QED
      BY <2>4, <3>1
  <2>7. ver \notin Have(g)
    BY <2>3, <2>6
  <2> QED
    BY <2>3, <2>5, <2>7
<1> QED
  BY <1>1, <1>2

\* One dependent after the other: the versions that left stay away, as no two of them
\* are of one name.
LEMMA AllBackIs ==
  ASSUME ProductsTypeOK, NEW files \in Files, NEW vers, NEW N \in Nat, Len(vers) = N,
         \A k \in 1..N : vers[k] \in VerId,
         \A j, k \in 1..N : vers[j].name = vers[k].name => vers[j] = vers[k],
         NEW g \in AllBack(files, vers)
  PROVE  g \in Files /\ \A k \in 1..N : vers[k] \notin Have(g)
<1> DEFINE A == Backs(files, vers)
           Good(n) == \A f \in A[n] : f \in Files /\ \A k \in 1..n : vers[k] \notin Have(f)
           S == {n \in 0..N : ~Good(n)}
<1>1. /\ A[0] = {files}
      /\ \A k \in 1..N : A[k] = UNION {DependentBack(x, vers[k]) : x \in A[k - 1]}
      /\ AllBack(files, vers) = A[N]
  BY BacksStep
<1> HIDE DEF A
<1>2. ASSUME S # {} PROVE FALSE
  <2>1. PICK n \in S : \A j \in S : n <= j
    <3>1. S \in SUBSET Nat
      OBVIOUS
    <3> HIDE DEF S
    <3> QED
      BY <1>2, <3>1, Smallest
  <2>2. n \in 0..N /\ ~Good(n)
    BY <2>1
  <2>3. Good(0)
    BY <1>1
  <2>4. n \in 1..N
    BY <2>2, <2>3
  <2>5. n - 1 \in 0..N /\ ~(n <= n - 1)
    BY <2>4
  <2>6. Good(n - 1)
    BY <2>1, <2>5
  <2>7. Good(n)
    <3> SUFFICES ASSUME NEW f \in A[n]
                 PROVE  f \in Files /\ \A k \in 1..n : vers[k] \notin Have(f)
      OBVIOUS
    <3>1. PICK x \in A[n - 1] : f \in DependentBack(x, vers[n])
      BY <1>1, <2>4
    <3>2. x \in Files /\ \A k \in 1..(n - 1) : vers[k] \notin Have(x)
      BY <2>6
    <3>3. /\ f \in Files
          /\ \A y \in Have(f) : y.name # vers[n].name => y \in Have(x)
          /\ vers[n] \notin Have(f)
      BY <2>4, <3>1, <3>2, DependentBackIs
    <3>4. ASSUME NEW k \in 1..n, vers[k] \in Have(f)
          PROVE  FALSE
      <4>1. k \in 1..N
        BY <2>4
      <4>2. vers[k].name # vers[n].name
        BY <2>4, <3>3, <3>4, <4>1
      <4>3. k \in 1..(n - 1)
        <5>1. k # n
          BY <4>2
        <5> QED
          BY <2>4, <5>1
      <4>4. vers[k] \in Have(x)
        BY <3>3, <3>4, <4>2
      <4> QED
        BY <3>2, <4>3, <4>4
    <3> QED
      BY <3>3, <3>4
  <2> QED
    BY <2>2, <2>7
<1>3. Good(N)
  <2>1. N \in 0..N
    OBVIOUS
  <2> QED
    BY <1>2, <2>1
<1> QED
  BY <1>1, <1>3

\* Whatever is reached and is not where it began depends on something reached.
LEMMA ReachedDepends ==
  ASSUME NEW v, NEW x \in Reached({v}), x # v
  PROVE  x \in Dependents(v)
<1> SUFFICES ASSUME x \notin Dependents(v)
             PROVE  FALSE
  OBVIOUS
<1> DEFINE all == {v} \cup {e.dependent : e \in CurrentEdges}
           some == Reached({v}) \ {x}
<1>1. \A y : y \in Reached({v}) <=>
               y \in all /\ \A s \in SUBSET all : {v} \subseteq s /\ Closed(s) => y \in s
  BY DEF Reached
<1>2. v \in some
  BY <1>1
<1>3. some \in SUBSET all
  BY <1>1
<1>4. Closed(some)
  <2> SUFFICES ASSUME NEW e \in CurrentEdges, e.on \in some
               PROVE  e.dependent \in some
    BY DEF Closed
  <2>1. e.dependent \in Reached({v})
    <3>1. e.dependent \in all
      OBVIOUS
    <3>2. ASSUME NEW s \in SUBSET all, {v} \subseteq s, Closed(s)
          PROVE  e.dependent \in s
      <4>1. e.on \in s
        BY <1>1, <3>2
      <4> QED
        BY <3>2, <4>1 DEF Closed
    <3> HIDE DEF all
    <3> QED
      BY <1>1, <3>1, <3>2
  <2>2. e.dependent # x
    BY DEF Dependents, Followed
  <2> QED
    BY <2>1, <2>2
<1> HIDE DEF some, all
<1>5. x \in some
  BY <1>1, <1>2, <1>3, <1>4
<1> QED
  BY <1>5 DEF some

(* ------------------------------- invariant ------------------------------- *)

\* A view has finitely many edges.
FiniteView == {v \in View : IsFiniteSet(v.edges)}

ViewsFit == views \in Seq(FiniteView) /\ onDisk \in Seq(FiniteView) /\ viewsTail \in FileEnd

Embedded ==
  \E at \in [DOMAIN views -> DOMAIN onDisk] :
    /\ \A i \in DOMAIN views : onDisk[at[i]] = views[i]
    /\ \A i, j \in DOMAIN views : i < j => at[i] < at[j]

Durable == viewsTail # "spoiled" => Embedded

\* Who may write is mounted on disk as well, while that can be read.
WritersFit ==
  /\ live \subseteq Writer /\ retiring \subseteq Writer /\ mounted \subseteq Writer
  /\ known \subseteq Writer
  /\ conflict \in [Writer -> Conflict \cup {Absent}]
  /\ log \in [Writer -> Seq(LogLine)]
  /\ treeTail \in FileEnd /\ logTail \in [Writer -> FileEnd]
  /\ lost \in 0..MaxLost
  /\ treeTail # "spoiled" => live \subseteq mounted

\* Only a failing append leaves a file without the end of its last line.
Unharmed ==
  lost = 0 => viewsTail = "whole" /\ treeTail = "whole" /\ \A w \in Writer : logTail[w] = "whole"

ProductsInv == ViewsFit /\ Durable /\ WritersFit /\ Unharmed

LEMMA TypeFits ==
  ASSUME ProductsInv
  PROVE  ProductsTypeOK
<1>1. \A s \in Seq(FiniteView) : s \in Seq(View)
  <2> TAKE s \in Seq(FiniteView)
  <2>1. Len(s) \in Nat /\ s = [i \in 1..Len(s) |-> s[i]]
    BY LenProperties
  <2>2. \A i \in 1..Len(s) : s[i] \in View
    BY ElementOfSeq DEF FiniteView
  <2> QED
    BY <2>1, <2>2, IsASeq
<1> QED
  BY <1>1 DEF ProductsInv, ViewsFit, WritersFit, ProductsTypeOK

LEMMA EdgesFinite ==
  ASSUME ProductsInv
  PROVE  IsFiniteSet(CurrentEdges)
<1>1. CASE views = <<>>
  BY <1>1, FS_EmptySet DEF CurrentEdges
<1>2. CASE views # <<>>
  <2>1. views \in Seq(FiniteView)
    BY DEF ProductsInv, ViewsFit
  <2>2. Len(views) \in 1..Len(views)
    BY <1>2, <2>1, EmptySeq, LenProperties
  <2>3. views[Len(views)] \in FiniteView
    BY <2>1, <2>2, ElementOfSeq
  <2> QED
    BY <1>2, <2>3 DEF CurrentEdges, FiniteView
<1> QED
  BY <1>1, <1>2

\* The sequences of a cascade list the dependents of a version of that name, each once
\* by its name.
LEMMA CascadesFit ==
  ASSUME ProductsInv, NEW name, NEW vers \in Cascades(name)
  PROVE  \E v \in Have(Current) :
           /\ v.name = name
           /\ Len(vers) \in Nat
           /\ \A x \in Dependents(v) : \E k \in 1..Len(vers) : vers[k] = x
           /\ \A k \in 1..Len(vers) : vers[k] \in VerId
           /\ \A j, k \in 1..Len(vers) : vers[j].name = vers[k].name => vers[j] = vers[k]
<1>1. PICK v \in Have(Current) : v.name = name /\ MetOnce(v) /\ vers \in Orders(Dependents(v))
  BY DEF Cascades
<1>2. Dependents(v) \subseteq VerId
  <2>1. CurrentEdges \subseteq DepEdge
    BY TypeFits, CurrentFits
  <2> QED
    BY <2>1 DEF Dependents, Followed, DepEdge
<1>3. IsFiniteSet(Dependents(v))
  <2>1. IsFiniteSet(Followed(v))
    BY EdgesFinite, FS_Subset DEF Followed
  <2>2. PICK f : f = [e \in Followed(v) |-> e.dependent]
    OBVIOUS
  <2>3. IsFiniteSet({f[e] : e \in Followed(v)})
    BY <2>1, <2>2, FiniteImage
  <2>4. {f[e] : e \in Followed(v)} = Dependents(v)
    BY <2>2 DEF Dependents
  <2> QED
    BY <2>3, <2>4
<1>4. PICK n \in Nat : n = Cardinality(Dependents(v))
  BY <1>3, FS_CardinalityType
<1>5. vers \in Surjection(1..n, Dependents(v))
  BY <1>1, <1>4 DEF Orders
<1>6. vers \in [1..n -> Dependents(v)] /\ \A x \in Dependents(v) : \E k \in 1..n : vers[k] = x
  BY <1>5 DEF Surjection
<1>7. Len(vers) = n
  BY <1>6
<1>8. \A x, y \in Dependents(v) : x.name = y.name => x = y
  BY <1>1 DEF MetOnce, Dependents
<1> QED
  BY <1>1, <1>2, <1>6, <1>7, <1>8

\* What a publication does to the views: one that is acknowledged and can be read
\* afterwards is the next of the log.
MayPublish(view) ==
  /\ onDisk' \in {onDisk, Append(onDisk, view)} /\ viewsTail' \in FileEnd
  /\ viewsTail' # "spoiled" => viewsTail # "spoiled"
  /\ \/ views' = views
     \/ views' = Append(views, view) /\ (viewsTail' # "spoiled" => onDisk' = Append(onDisk, view))

LEMMA ViewAppends ==
  ASSUME viewsTail \in FileEnd, NEW view, AppendView(view) \/ AppendViewFails(view)
  PROVE  MayPublish(view)
<1>1. CASE AppendView(view)
  BY <1>1 DEF AppendView, ViewLine, Acknowledged, MayPublish, FileEnd
<1>2. CASE AppendViewFails(view)
  <2>1. PICK outcome \in Failed(viewsTail) : ViewLine(view, outcome)
    BY <1>2 DEF AppendViewFails
  <2>2. outcome.tail \in FileEnd /\ (outcome.tail # "spoiled" => viewsTail # "spoiled")
    BY <2>1 DEF Failed, FileEnd
  <2> QED
    BY <1>2, <2>1, <2>2 DEF AppendViewFails, ViewLine, MayPublish
<1> QED
  BY <1>1, <1>2

\* A rollback publishes files, if anything, and keeps the edges.
LEMMA RollbackPublishes ==
  ASSUME ProductsInv, NEW name, NEW version, NEW cascade, Rollback(name, version, cascade)
  PROVE  \E files \in Files :
           /\ MayPublish([files |-> files, edges |-> CurrentEdges])
           /\ cascade => \E v \in Have(Current) :
                           v.name = name /\ Have(files) \cap Dependents(v) = {}
<1>1. PICK old \in Found(name, version), vers \in IF cascade THEN Cascades(name) ELSE {<<>>} :
        \E files \in AllBack(Back(Current, old), vers) :
          LET view == [files |-> files, edges |-> CurrentEdges] IN
          (AppendView(view) /\ UNCHANGED lost) \/ AppendViewFails(view)
  BY DEF Rollback
<1>2. PICK files \in AllBack(Back(Current, old), vers) :
        LET view == [files |-> files, edges |-> CurrentEdges] IN
        (AppendView(view) /\ UNCHANGED lost) \/ AppendViewFails(view)
  BY <1>1
<1>3. PICK first : first = Back(Current, old)
  OBVIOUS
<1>4. first \in Files
  BY <1>3, TypeFits, CurrentFits, BackIs
<1>5. files \in Files /\ (cascade => \E v \in Have(Current) :
                                        v.name = name /\ Have(files) \cap Dependents(v) = {})
  <2>1. CASE cascade
    <3>1. PICK v \in Have(Current) :
            /\ v.name = name
            /\ Len(vers) \in Nat
            /\ \A x \in Dependents(v) : \E k \in 1..Len(vers) : vers[k] = x
            /\ \A k \in 1..Len(vers) : vers[k] \in VerId
            /\ \A j, k \in 1..Len(vers) : vers[j].name = vers[k].name => vers[j] = vers[k]
      BY <2>1, CascadesFit
    <3>2. files \in Files /\ \A k \in 1..Len(vers) : vers[k] \notin Have(files)
      BY <1>2, <1>3, <1>4, <3>1, TypeFits, AllBackIs
    <3> QED
      BY <3>1, <3>2
  <2>2. CASE ~cascade
    <3>1. vers = <<>> /\ Len(vers) = 0
      BY <1>1, <2>2
    <3>2. /\ \A k \in 1..0 : vers[k] \in VerId
          /\ \A j, k \in 1..0 : vers[j].name = vers[k].name => vers[j] = vers[k]
      OBVIOUS
    <3>3. files \in Files
      BY <1>2, <1>3, <1>4, <3>1, <3>2, TypeFits, AllBackIs
    <3> QED
      BY <2>2, <3>3
  <2> QED
    BY <2>1, <2>2
<1>6. MayPublish([files |-> files, edges |-> CurrentEdges])
  BY <1>2, ViewAppends DEF ProductsInv, ViewsFit
<1> QED
  BY <1>5, <1>6

(* --------------------------------- steps --------------------------------- *)

\* The edges a close may declare are between versions, and finitely many.
LEMMA EdgesFit ==
  ASSUME NEW files \in Files, NEW extra \in SUBSET Edges(files)
  PROVE  extra \in SUBSET DepEdge /\ IsFiniteSet(extra)
<1>1. Have(files) \subseteq VerId
  BY DEF Have, Ver, Files, FileRec, VerId
<1>2. IsFiniteSet(Have(files))
  <2> DEFINE held == {q \in Path : files[q] # Absent}
  <2>1. IsFiniteSet(held)
    BY FS_Subset, ProductsAssumption
  <2>2. PICK f : f = [p \in held |-> Ver(files[p])]
    OBVIOUS
  <2>3. IsFiniteSet({f[p] : p \in held})
    <3>1. f = [p \in held |-> f[p]]
      BY <2>2
    <3> HIDE DEF held
    <3> QED
      BY <2>1, <3>1, FiniteImage
  <2>4. {f[p] : p \in held} = Have(files)
    BY <2>2 DEF Have
  <2> QED
    BY <2>3, <2>4
<1>3. IsFiniteSet(Have(files) \X Have(files))
  BY <1>2, FS_Product
<1>4. PICK g : g = [x \in Have(files) \X Have(files) |-> [dependent |-> x[1], on |-> x[2]]]
  OBVIOUS
<1>5. IsFiniteSet({g[x] : x \in Have(files) \X Have(files)})
  <2>1. g = [x \in Have(files) \X Have(files) |-> g[x]]
    BY <1>4
  <2> QED
    BY <1>3, <2>1, FiniteImage
<1>6. extra \in SUBSET {g[x] : x \in Have(files) \X Have(files)}
  <2> SUFFICES ASSUME NEW e \in extra
               PROVE  \E x \in Have(files) \X Have(files) : e = g[x]
    OBVIOUS
  <2>1. e \in [dependent : Have(files), on : Have(files)]
    BY DEF Edges
  <2>2. PICK x : x = <<e.dependent, e.on>>
    OBVIOUS
  <2>3. x \in Have(files) \X Have(files) /\ g[x] = e
    BY <1>4, <2>1, <2>2
  <2> QED
    BY <2>3
<1>7. extra \in SUBSET DepEdge
  BY <1>1 DEF Edges, DepEdge
<1> QED
  BY <1>5, <1>6, <1>7, FS_Subset

\* The published file of a name, or the last write of it.
LEMMA ChosenFits ==
  ASSUME ProductsTypeOK, NEW w \in Writer, NEW name, NEW file \in Chosen(w, name)
  PROVE  file \in FileRec
<1> DEFINE at == {i \in Writes(w) : log[w][i].file.name = name}
<1>1. CASE at # {}
  <2>1. at \subseteq 1..Len(log[w])
    BY LogFits
  <2>2. Max(at) \in at
    <3> HIDE DEF at
    <3> QED
      BY <1>1, <2>1, LastOf
  <2>3. file = log[w][Max(at)].file
    BY <1>1 DEF Chosen
  <2> QED
    BY <2>2, <2>3, LogFits
<1>2. CASE at = {}
  <2>1. PICK q \in Path : Current[q] # Absent /\ file = Current[q]
    BY <1>2 DEF Chosen
  <2> QED
    BY <2>1, CurrentFits DEF Files
<1> QED
  BY <1>1, <1>2

LEMMA ClosePublishes ==
  ASSUME ProductsInv, NEW w \in Writer, NEW extra \in SUBSET Edges(Reduce(w)), Close(w, extra)
  PROVE  \/ UNCHANGED <<views, onDisk, viewsTail>>
         \/ \E view \in FiniteView : MayPublish(view)
<1>1. Reduce(w) \in Files
  BY TypeFits, ReduceFits
<1>2. extra \in SUBSET DepEdge /\ IsFiniteSet(extra)
  BY <1>1, EdgesFit
<1>3. PICK view : view = [files |-> Reduce(w), edges |-> extra]
  OBVIOUS
<1>4. view \in FiniteView
  BY <1>1, <1>2, <1>3 DEF FiniteView, View
<1>5. CASE UNCHANGED <<views, onDisk, viewsTail>>
  BY <1>5
<1>6. CASE Publish(w, Reduce(w), extra)
  <2>1. MayPublish(view)
    BY <1>3, <1>6, ViewAppends DEF Publish, ProductsInv, ViewsFit
  <2> QED
    BY <1>4, <2>1
<1> QED
  BY <1>5, <1>6 DEF Close, tails

LEMMA AllowPublishes ==
  ASSUME ProductsInv, NEW w \in Writer, NEW name, NEW p \in Path, Allow(w, name, p)
  PROVE  \E view \in FiniteView : MayPublish(view)
<1>1. PICK file \in Chosen(w, name) : Publish(w, [Without(Current, name) EXCEPT ![p] = file], {})
  BY DEF Allow
<1>2. file \in FileRec
  BY TypeFits, ChosenFits
<1>3. PICK rest : rest = Without(Current, name)
  OBVIOUS
<1>4. rest \in Files
  BY <1>3, TypeFits, CurrentFits, WithoutIs
<1>5. [rest EXCEPT ![p] = file] \in Files
  BY <1>2, <1>4, PutIs
<1>6. PICK view : view = [files |-> [rest EXCEPT ![p] = file], edges |-> {}]
  OBVIOUS
<1>7. view \in FiniteView
  BY <1>5, <1>6, FS_EmptySet DEF FiniteView, View
<1>8. MayPublish(view)
  BY <1>1, <1>3, <1>6, ViewAppends DEF Publish, ProductsInv, ViewsFit
<1> QED
  BY <1>7, <1>8

LEMMA WhoPublishes ==
  ASSUME ProductsInv, ProductsNext
  PROVE  \/ UNCHANGED <<views, onDisk, viewsTail>>
         \/ \E view \in FiniteView : MayPublish(view)
         \/ Reopen
<1>1. ASSUME NEW w \in Writer, Register(w) \/ Abandon(w) \/ Reject(w)
      PROVE  UNCHANGED <<views, onDisk, viewsTail>>
  BY <1>1 DEF Register, Abandon, Reject
<1>2. ASSUME NEW w \in Writer, NEW p \in Path, Create(w, p) \/ Continue(w, p) \/ Tombstone(w, p)
      PROVE  UNCHANGED <<views, onDisk, viewsTail>>
  BY <1>2 DEF Create, Continue, Tombstone, AppendLine
<1>3. ASSUME NEW ver, NEW cascade, Rollback(ver.name, ver.version, cascade)
      PROVE  \E view \in FiniteView : MayPublish(view)
  <2>1. PICK files \in Files : MayPublish([files |-> files, edges |-> CurrentEdges])
    BY <1>3, RollbackPublishes
  <2>2. PICK view : view = [files |-> files, edges |-> CurrentEdges]
    OBVIOUS
  <2>3. view \in FiniteView
    BY <2>2, TypeFits, CurrentFits, EdgesFinite DEF FiniteView, View
  <2>4. MayPublish(view)
    BY <2>1, <2>2
  <2> QED
    BY <2>3, <2>4
<1>5. CASE \E w \in Writer : Register(w) \/ Abandon(w) \/ Reject(w)
  BY <1>1, <1>5
<1>6. CASE \E w \in Writer, p \in Path : Create(w, p) \/ Continue(w, p) \/ Tombstone(w, p)
  BY <1>2, <1>6
<1>7. CASE \E w \in Writer : \E extra \in SUBSET Edges(Reduce(w)) : Close(w, extra)
  BY <1>7, ClosePublishes
<1>8. CASE \E w \in Writer, name \in Name, p \in Path : Allow(w, name, p)
  BY <1>8, AllowPublishes
<1>9. CASE \E ver \in UNION {Have(views[i].files) : i \in DOMAIN views}, cascade \in BOOLEAN :
             Rollback(ver.name, ver.version, cascade)
  BY <1>3, <1>9
<1>10. CASE Reopen
  BY <1>10
<1> QED
  BY <1>5, <1>6, <1>7, <1>8, <1>9, <1>10 DEF ProductsNext

\* What is reported published stays in the log, in its place.
LEMMA DurableKeeps ==
  ASSUME ProductsInv, ProductsNext
  PROVE  ViewsFit' /\ Durable'
<1>0. /\ views \in Seq(FiniteView) /\ onDisk \in Seq(FiniteView)
      /\ Len(views) \in Nat /\ Len(onDisk) \in Nat
      /\ DOMAIN views = 1..Len(views) /\ DOMAIN onDisk = 1..Len(onDisk)
  BY LenProperties DEF ProductsInv, ViewsFit
<1>2. CASE UNCHANGED <<views, onDisk, viewsTail>>
  BY <1>2 DEF ProductsInv, ViewsFit, Durable, Embedded
<1>1. ASSUME NEW view \in FiniteView, MayPublish(view)
      PROVE  ViewsFit'
  <2>1. Append(onDisk, view) \in Seq(FiniteView) /\ Append(views, view) \in Seq(FiniteView)
    BY <1>0, AppendProperties
  <2> QED
    BY <1>0, <1>1, <2>1 DEF MayPublish, ViewsFit
<1>3. ASSUME NEW view \in FiniteView, MayPublish(view), viewsTail' # "spoiled"
      PROVE  Embedded'
  <2>0. PICK at \in [DOMAIN views -> DOMAIN onDisk] :
          /\ \A i \in DOMAIN views : onDisk[at[i]] = views[i]
          /\ \A i, j \in DOMAIN views : i < j => at[i] < at[j]
    BY <1>3 DEF ProductsInv, Durable, Embedded, MayPublish
  <2>1. PICK more : more = Append(onDisk, view)
    OBVIOUS
  <2>2. /\ more \in Seq(FiniteView) /\ Len(more) = Len(onDisk) + 1
        /\ DOMAIN more = 1..(Len(onDisk) + 1)
        /\ \A i \in 1..Len(onDisk) : more[i] = onDisk[i]
        /\ more[Len(onDisk) + 1] = view
    BY <1>0, <2>1, AppendProperties, LenProperties
  <2>3. CASE views' = views /\ onDisk' = more
    <3>2. at \in [DOMAIN views -> DOMAIN more]
      BY <1>0, <2>0, <2>2
    <3>3. \A i \in DOMAIN views : more[at[i]] = views[i]
      BY <1>0, <2>0, <2>2
    <3> QED
      BY <2>0, <2>3, <3>2, <3>3 DEF Embedded
  <2>4. CASE views' = Append(views, view) /\ onDisk' = more
    <3>1. PICK longer : longer = Append(views, view)
      OBVIOUS
    <3>2. /\ longer \in Seq(FiniteView) /\ Len(longer) = Len(views) + 1
          /\ DOMAIN longer = 1..(Len(views) + 1)
          /\ \A i \in 1..Len(views) : longer[i] = views[i]
          /\ longer[Len(views) + 1] = view
      BY <1>0, <3>1, AppendProperties, LenProperties
    <3> DEFINE to == [i \in DOMAIN longer |-> IF i = Len(views) + 1 THEN Len(onDisk) + 1 ELSE at[i]]
    <3>4. \A i \in 1..Len(views) : i \in DOMAIN longer /\ i # Len(views) + 1
                                   /\ at[i] \in 1..Len(onDisk)
      BY <1>0, <2>0, <3>2
    <3>5. \A i \in DOMAIN longer : i \in 1..Len(views) \/ i = Len(views) + 1
      BY <1>0, <3>2
    <3>6. (\A i \in 1..Len(views) : to[i] = at[i]) /\ to[Len(views) + 1] = Len(onDisk) + 1
      BY <1>0, <3>2, <3>4
    <3>7. to \in [DOMAIN longer -> DOMAIN more]
      BY <1>0, <2>2, <3>4, <3>5
    <3> HIDE DEF to
    <3>8. \A i \in DOMAIN longer : more[to[i]] = longer[i]
      BY <1>0, <2>0, <2>2, <3>2, <3>4, <3>5, <3>6
    <3>9. \A i, j \in DOMAIN longer : i < j => to[i] < to[j]
      <4> SUFFICES ASSUME NEW i \in DOMAIN longer, NEW j \in DOMAIN longer, i < j
                   PROVE  to[i] < to[j]
        OBVIOUS
      <4>1. i \in 1..Len(views)
        BY <1>0, <3>2, <3>5
      <4>2. to[i] = at[i] /\ at[i] \in 1..Len(onDisk)
        BY <3>4, <3>6, <4>1
      <4>3. CASE j = Len(views) + 1
        BY <1>0, <3>6, <4>2, <4>3
      <4>4. CASE j \in 1..Len(views)
        BY <1>0, <2>0, <3>6, <4>1, <4>2, <4>4
      <4> QED
        BY <3>5, <4>3, <4>4
    <3> QED
      BY <2>4, <3>1, <3>7, <3>8, <3>9 DEF Embedded
  <2>5. CASE views' = views /\ onDisk' = onDisk
    BY <2>0, <2>5 DEF Embedded
  <2> QED
    BY <1>3, <2>1, <2>3, <2>4, <2>5 DEF MayPublish
<1>4. CASE Reopen
  <2>0. views' = onDisk /\ onDisk' = onDisk /\ viewsTail' = viewsTail
    BY <1>4 DEF Reopen, tails
  <2> DEFINE to == [i \in DOMAIN onDisk |-> i]
  <2>1. /\ to \in [DOMAIN onDisk -> DOMAIN onDisk]
        /\ \A i \in DOMAIN onDisk : onDisk[to[i]] = onDisk[i]
        /\ \A i, j \in DOMAIN onDisk : i < j => to[i] < to[j]
    OBVIOUS
  <2> HIDE DEF to
  <2>2. ViewsFit'
    BY <1>0, <2>0 DEF ProductsInv, ViewsFit
  <2> QED
    BY <2>0, <2>1, <2>2 DEF Durable, Embedded
<1> QED
  BY <1>1, <1>2, <1>3, <1>4, WhoPublishes DEF Durable

\* The lines of the logs, with how they leave them.
LEMMA EndingsFit ==
  ASSUME NEW tail \in FileEnd
  PROVE  /\ Acknowledged(tail).tail \in FileEnd
         /\ Acknowledged(tail).tail # "spoiled" => Acknowledged(tail).reads /\ tail = "whole"
         /\ tail = "whole" => Acknowledged(tail).tail = "whole"
         /\ \A outcome \in Failed(tail) :
              outcome.tail \in FileEnd /\ (outcome.tail # "spoiled" => tail # "spoiled")
<1>1. CASE tail = "whole"
  <2>1. Acknowledged(tail) = [reads |-> TRUE, tail |-> "whole"]
    BY <1>1 DEF Acknowledged
  <2>2. \A outcome \in Failed(tail) : outcome.tail \in FileEnd
    BY <1>1 DEF Failed, FileEnd
  <2> QED
    BY <1>1, <2>1, <2>2 DEF FileEnd
<1>2. CASE tail # "whole"
  <2>1. Acknowledged(tail) = [reads |-> FALSE, tail |-> "spoiled"]
    BY <1>2 DEF Acknowledged
  <2>2. \A outcome \in Failed(tail) : outcome.tail \in FileEnd /\ (outcome.tail # "spoiled" => tail # "spoiled")
    BY <1>2 DEF Failed, FileEnd
  <2> QED
    BY <1>2, <2>1, <2>2 DEF FileEnd
<1> QED
  BY <1>1, <1>2

\* A line of the tree, acknowledged or not.
LEMMA UnmountKeeps ==
  ASSUME treeTail \in FileEnd, NEW w \in Writer, mounted \subseteq Writer,
         NEW outcome, outcome = Acknowledged(treeTail) \/ outcome \in Failed(treeTail), UnmountLine(w, outcome)
  PROVE  /\ treeTail' \in FileEnd /\ mounted' \subseteq Writer
         /\ treeTail' # "spoiled" => treeTail # "spoiled"
         /\ mounted' \in {mounted, mounted \ {w}}
<1>1. outcome.tail \in FileEnd /\ (outcome.tail # "spoiled" => treeTail # "spoiled")
  BY EndingsFit
<1>2. treeTail' = outcome.tail /\ mounted' \in {mounted, mounted \ {w}}
  BY DEF UnmountLine
<1> QED
  BY <1>1, <1>2

LEMMA RetireKeeps ==
  ASSUME WritersFit, NEW w \in Writer, Retire(w)
  PROVE  WritersFit'
<1>0. PICK outcome : (outcome = Acknowledged(treeTail) \/ outcome \in Failed(treeTail)) /\ UnmountLine(w, outcome)
  BY DEF Retire
<1>1. /\ treeTail' \in FileEnd /\ mounted' \subseteq Writer
      /\ treeTail' # "spoiled" => treeTail # "spoiled"
      /\ mounted' \in {mounted, mounted \ {w}}
  BY <1>0, UnmountKeeps DEF WritersFit
<1>2. /\ live' \subseteq Writer /\ retiring' \subseteq Writer
      /\ treeTail' # "spoiled" => live' \subseteq mounted'
  BY <1>1 DEF WritersFit, Retire
<1>3. known' \subseteq Writer /\ log' \in [Writer -> Seq(LogLine)] /\ logTail' \in [Writer -> FileEnd]
  BY DEF WritersFit, Retire
<1>4. conflict' \in [Writer -> Conflict \cup {Absent}]
  BY DEF WritersFit, Retire
<1>5. lost' \in 0..MaxLost
  BY ProductsAssumption DEF WritersFit, Retire, Fails
<1> QED
  BY <1>1, <1>2, <1>3, <1>4, <1>5 DEF WritersFit

LEMMA PublishKeeps ==
  ASSUME WritersFit, NEW w \in Writer, NEW files, NEW edges, Publish(w, files, edges)
  PROVE  WritersFit'
<1>1. CASE Retire(w)
  BY <1>1, RetireKeeps
<1>2. CASE Fails /\ UNCHANGED <<live, retiring, conflict, mounted, treeTail, known, log, logTail>>
  BY <1>2, ProductsAssumption DEF WritersFit, Fails
<1> QED
  BY <1>1, <1>2 DEF Publish, AppendViewFails

LEMMA RegisterKeeps ==
  ASSUME WritersFit, NEW w \in Writer, Register(w)
  PROVE  WritersFit'
<1>0. treeTail \in FileEnd
  BY DEF WritersFit
<1>1. CASE MountLine(w, Acknowledged(treeTail)) /\ live' = live \cup {w} /\ UNCHANGED lost
  <2>1. treeTail' \in FileEnd /\ mounted' \subseteq Writer
        /\ (treeTail' # "spoiled" => treeTail # "spoiled" /\ mounted' = mounted \cup {w})
    BY <1>0, <1>1, EndingsFit DEF MountLine, WritersFit
  <2>2. live' \subseteq Writer /\ (treeTail' # "spoiled" => live' \subseteq mounted')
    BY <1>1, <2>1 DEF WritersFit
  <2> QED
    BY <1>1, <2>1, <2>2 DEF WritersFit, Register
<1>2. CASE (\E outcome \in Failed(treeTail) : MountLine(w, outcome)) /\ Fails /\ UNCHANGED live
  <2>1. treeTail' \in FileEnd /\ mounted' \subseteq Writer /\ mounted \subseteq mounted'
        /\ (treeTail' # "spoiled" => treeTail # "spoiled")
    BY <1>0, <1>2, EndingsFit DEF MountLine, WritersFit
  <2>2. live' \subseteq Writer /\ (treeTail' # "spoiled" => live' \subseteq mounted')
    BY <1>2, <2>1 DEF WritersFit
  <2>3. lost' \in 0..MaxLost
    BY <1>2, ProductsAssumption DEF WritersFit, Fails
  <2> QED
    BY <2>1, <2>2, <2>3 DEF WritersFit, Register
<1> QED
  BY <1>1, <1>2 DEF Register

LEMMA AppendLineKeeps ==
  ASSUME WritersFit, NEW w \in Writer, NEW line \in LogLine, AppendLine(w, line)
  PROVE  WritersFit'
<1>0. logTail[w] \in FileEnd /\ logTail \in [Writer -> FileEnd]
  BY DEF WritersFit
<1>1. Append(log[w], line) \in Seq(LogLine)
  BY AppendProperties DEF WritersFit
<1>2. PICK outcome : (outcome = Acknowledged(logTail[w]) \/ outcome \in Failed(logTail[w])) /\ SessionLine(w, line, outcome)
  BY DEF AppendLine
<1>3. outcome.tail \in FileEnd
  BY <1>0, <1>2, EndingsFit
<1>4. log' \in [Writer -> Seq(LogLine)] /\ logTail' \in [Writer -> FileEnd]
  BY <1>0, <1>1, <1>2, <1>3 DEF WritersFit, SessionLine
<1>5. lost' \in 0..MaxLost
  BY ProductsAssumption DEF WritersFit, AppendLine, Fails
<1> QED
  BY <1>4, <1>5 DEF WritersFit, AppendLine

LEMMA WriteKeeps ==
  ASSUME ProductsInv, NEW w \in Writer, NEW p \in Path, NEW name \in Name, AppendLine(w, WriteOf(w, p, name))
  PROVE  WritersFit'
<1>1. NextVersion(w, name) \in Nat
  BY TypeFits, NextVersionFits
<1>2. Len(log[w]) \in Nat /\ Len(log[w]) < MaxLines
  BY TypeFits, LogFits DEF AppendLine
<1>3. <<w, Len(log[w]) + 1>> \in Name
  BY <1>2, ProductsAssumption DEF Name
<1>4. WriteOf(w, p, name) \in LogLine
  BY <1>1, <1>3 DEF WriteOf, LogLine, FileRec
<1> QED
  BY <1>4, AppendLineKeeps DEF ProductsInv

LEMMA WritersKeep ==
  ASSUME ProductsInv, ProductsNext
  PROVE  WritersFit'
<1> USE DEF ProductsInv
<1>1. ASSUME NEW w \in Writer, Register(w)
      PROVE  WritersFit'
  BY <1>1, RegisterKeeps
<1>2. ASSUME NEW w \in Writer, Abandon(w) \/ Reject(w)
      PROVE  WritersFit'
  BY <1>2, RetireKeeps DEF Abandon, Reject
<1>3. ASSUME NEW w \in Writer, NEW p \in Path, Create(w, p)
      PROVE  WritersFit'
  <2>1. Len(log[w]) \in Nat /\ Len(log[w]) < MaxLines
    BY <1>3, TypeFits, LogFits DEF Create, AppendLine
  <2>2. <<w, Len(log[w]) + 1>> \in Name
    BY <2>1, ProductsAssumption DEF Name
  <2> QED
    BY <1>3, <2>2, WriteKeeps DEF Create
<1>4. ASSUME NEW w \in Writer, NEW p \in Path, Continue(w, p)
      PROVE  WritersFit'
  <2>1. CurrentOf(w, p) \in FileRec
    BY <1>4, TypeFits, LastWriteFits DEF Continue
  <2>2. CurrentOf(w, p).name \in Name
    BY <2>1 DEF FileRec
  <2> QED
    BY <1>4, <2>2, WriteKeeps DEF Continue
<1>5. ASSUME NEW w \in Writer, NEW p \in Path, Tombstone(w, p)
      PROVE  WritersFit'
  <2>1. [op |-> "tombstone", path |-> p] \in LogLine
    BY DEF LogLine
  <2> QED
    BY <1>5, <2>1, AppendLineKeeps DEF Tombstone
<1>6. ASSUME NEW w \in Writer, NEW extra, Close(w, extra)
      PROVE  WritersFit'
  <2>1. CASE Retire(w)
    BY <2>1, RetireKeeps
  <2>2. CASE Publish(w, Reduce(w), extra)
    BY <2>2, PublishKeeps
  <2>3. CASE /\ conflict' = [conflict EXCEPT ![w] = FirstClash(w)]
             /\ UNCHANGED <<views, live, retiring, onDisk, mounted, known, log, tails, lost>>
    <3>1. FirstClash(w) \in Conflict \cup {Absent}
      BY TypeFits, ClashesFit
    <3> QED
      BY <2>3, <3>1 DEF WritersFit, tails
  <2> QED
    BY <1>6, <2>1, <2>2, <2>3 DEF Close
<1>7. ASSUME NEW w \in Writer, NEW name, NEW p, Allow(w, name, p)
      PROVE  WritersFit'
  BY <1>7, PublishKeeps DEF Allow
<1>8. ASSUME NEW ver, NEW cascade, Rollback(ver.name, ver.version, cascade)
      PROVE  WritersFit'
  <2>1. UNCHANGED <<live, retiring, conflict, mounted, treeTail, known, log, logTail>>
    BY <1>8 DEF Rollback
  <2>2. UNCHANGED lost \/ Fails
    BY <1>8 DEF Rollback, AppendViewFails
  <2> QED
    BY <2>1, <2>2, ProductsAssumption DEF WritersFit, Fails
<1>9. ASSUME Reopen
      PROVE  WritersFit'
  BY <1>9 DEF WritersFit, Reopen, tails
<1>10. CASE \E w \in Writer : Register(w) \/ Abandon(w) \/ Reject(w)
  BY <1>1, <1>2, <1>10
<1>11. CASE \E w \in Writer, p \in Path : Create(w, p) \/ Continue(w, p) \/ Tombstone(w, p)
  BY <1>3, <1>4, <1>5, <1>11
<1>12. CASE \E w \in Writer : \E extra \in SUBSET Edges(Reduce(w)) : Close(w, extra)
  BY <1>6, <1>12
<1>13. CASE \E w \in Writer, name \in Name, p \in Path : Allow(w, name, p)
  BY <1>7, <1>13
<1>14. CASE \E ver \in UNION {Have(views[i].files) : i \in DOMAIN views}, cascade \in BOOLEAN :
              Rollback(ver.name, ver.version, cascade)
  BY <1>8, <1>14
<1>15. CASE Reopen
  BY <1>9, <1>15
<1> QED
  BY <1>10, <1>11, <1>12, <1>13, <1>14, <1>15 DEF ProductsNext

\* Without a failing append every line ends its file.
LEMMA UnharmedKeeps ==
  ASSUME ProductsInv, ProductsNext
  PROVE  Unharmed'
<1> DEFINE AllWhole == viewsTail = "whole" /\ treeTail = "whole" /\ \A w \in Writer : logTail[w] = "whole"
<1> SUFFICES ASSUME lost' = 0 PROVE AllWhole'
  BY DEF Unharmed
<1>0. lost \in Nat /\ logTail \in [Writer -> FileEnd]
  BY ProductsAssumption DEF ProductsInv, WritersFit
<1>1. ~Fails
  BY <1>0 DEF Fails
<1>2. lost = lost' => AllWhole
  BY DEF ProductsInv, Unharmed
<1>3. ASSUME AllWhole, UNCHANGED tails PROVE AllWhole'
  BY <1>3 DEF tails
<1>4. ASSUME NEW w \in Writer, Retire(w), UNCHANGED viewsTail PROVE AllWhole'
  BY <1>1, <1>2, <1>4, EndingsFit DEF Retire, UnmountLine, FileEnd
<1>5. ASSUME NEW w \in Writer, NEW files, NEW edges, Publish(w, files, edges) PROVE AllWhole'
  <2>1. Retire(w) /\ viewsTail' = Acknowledged(viewsTail).tail
    BY <1>1, <1>5 DEF Publish, AppendView, AppendViewFails, ViewLine
  <2>2. lost' = lost /\ logTail' = logTail /\ treeTail' = Acknowledged(treeTail).tail
    BY <1>1, <2>1 DEF Retire, UnmountLine
  <2> QED
    BY <1>2, <2>1, <2>2, EndingsFit DEF FileEnd
<1>6. ASSUME NEW w \in Writer, Register(w) PROVE AllWhole'
  <2>1. lost' = lost /\ logTail' = logTail /\ viewsTail' = viewsTail /\ treeTail' = Acknowledged(treeTail).tail
    BY <1>1, <1>6 DEF Register, MountLine
  <2> QED
    BY <1>2, <2>1, EndingsFit DEF FileEnd
<1>7. ASSUME NEW w \in Writer, NEW line, AppendLine(w, line) PROVE AllWhole'
  <2>1. /\ lost' = lost /\ treeTail' = treeTail /\ viewsTail' = viewsTail
        /\ logTail' = [logTail EXCEPT ![w] = Acknowledged(logTail[w]).tail]
    BY <1>1, <1>7 DEF AppendLine, SessionLine
  <2>2. Acknowledged(logTail[w]).tail = "whole"
    BY <1>2, <2>1, EndingsFit DEF FileEnd
  <2> QED
    BY <1>0, <1>2, <2>1, <2>2
<1>8. CASE \E w \in Writer : Register(w) \/ Abandon(w) \/ Reject(w)
  BY <1>4, <1>6, <1>8 DEF Abandon, Reject
<1>9. CASE \E w \in Writer, p \in Path : Create(w, p) \/ Continue(w, p) \/ Tombstone(w, p)
  BY <1>7, <1>9 DEF Create, Continue, Tombstone
<1>10. CASE \E w \in Writer : \E extra \in SUBSET Edges(Reduce(w)) : Close(w, extra)
  <2>1. PICK w \in Writer : \E extra : Close(w, extra)
    BY <1>10
  <2>2. PICK extra : Close(w, extra)
    BY <2>1
  <2>3. CASE UNCHANGED <<tails, lost>>
    BY <1>2, <1>3, <2>3
  <2> QED
    BY <1>4, <1>5, <2>2, <2>3 DEF Close
<1>11. CASE \E w \in Writer, name \in Name, p \in Path : Allow(w, name, p)
  BY <1>5, <1>11 DEF Allow
<1>12. CASE \E ver \in UNION {Have(views[i].files) : i \in DOMAIN views}, cascade \in BOOLEAN :
              Rollback(ver.name, ver.version, cascade)
  <2>1. lost' = lost /\ treeTail' = treeTail /\ logTail' = logTail /\ viewsTail' = Acknowledged(viewsTail).tail
    BY <1>1, <1>12 DEF Rollback, AppendView, AppendViewFails, ViewLine
  <2> QED
    BY <1>2, <2>1, EndingsFit DEF FileEnd
<1>13. CASE Reopen
  BY <1>2, <1>3, <1>13 DEF Reopen
<1> HIDE DEF AllWhole
<1> QED
  BY <1>8, <1>9, <1>10, <1>11, <1>12, <1>13 DEF ProductsNext

LEMMA ProductsInvariance == ProductsSpec => []ProductsInv
<1>1. ProductsInit => ProductsInv
  <2> SUFFICES ASSUME ProductsInit PROVE ProductsInv
    OBVIOUS
  <2>1. ViewsFit
    BY EmptySeq DEF ProductsInit, ViewsFit, FileEnd
  <2>2. Durable
    <3>1. DOMAIN views = {} /\ DOMAIN onDisk = {}
      BY EmptySeq DEF ProductsInit
    <3> DEFINE at == [i \in {} |-> i]
    <3>2. at \in [DOMAIN views -> DOMAIN onDisk]
      BY <3>1
    <3> QED
      BY <3>1, <3>2 DEF Durable, Embedded
  <2>3. WritersFit
    BY EmptySeq, ProductsAssumption DEF ProductsInit, WritersFit, FileEnd
  <2>4. Unharmed
    BY DEF ProductsInit, Unharmed
  <2> QED
    BY <2>1, <2>2, <2>3, <2>4 DEF ProductsInv
<1>2. ProductsInv /\ [ProductsNext]_products => ProductsInv'
  <2>1. CASE ProductsInv /\ ProductsNext
    BY <2>1, DurableKeeps, WritersKeep, UnharmedKeeps DEF ProductsInv
  <2>2. CASE ProductsInv /\ UNCHANGED products
    BY <2>2 DEF products, tails, ProductsInv, ViewsFit, Durable, Embedded, WritersFit, Unharmed
  <2> QED
    BY <2>1, <2>2
<1> QED
  BY <1>1, <1>2, PTL DEF ProductsSpec

\* Views that were reported published are in views.jsonl, in their order, as long as the
\* file can be read, which only a failing append ends; and every part of the workspace
\* has its type (wp::append_view).
THEOREM ViewsStay == ProductsSpec => []NoViewLostInSilence
<1>1. ProductsInv => NoViewLostInSilence
  BY TypeFits DEF NoViewLostInSilence, ProductsInv, Durable, Embedded, Unharmed
<1> QED
  BY <1>1, ProductsInvariance, PTL

\* A worker that tree.jsonl has mounted, as long as it can be read, stays live or retiring
\* until its end is there too (wp::unmount_locked).
THEOREM MountsAreRemembered == ProductsSpec => NoMountForgotten
<1>1. ASSUME ProductsTypeOK, ProductsNext,
             NEW v \in (live \cup retiring) \cap mounted, v \in mounted', treeTail' # "spoiled"
      PROVE  v \in live' \cup retiring'
  <2>1. ASSUME NEW w, Retire(w) PROVE v \in live' \cup retiring'
    <3>1. CASE UnmountLine(w, Acknowledged(treeTail)) /\ retiring' = retiring \ {w}
      <4>1. mounted' = mounted \ {w}
        BY <1>1, <3>1, EndingsFit DEF UnmountLine, ProductsTypeOK
      <4> QED
        BY <1>1, <2>1, <3>1, <4>1 DEF Retire
    <3>2. CASE retiring' = retiring \cup {w}
      BY <1>1, <2>1, <3>2 DEF Retire
    <3> QED
      BY <2>1, <3>1, <3>2 DEF Retire
  <2>2. CASE \E w \in Writer : Register(w) \/ Abandon(w) \/ Reject(w)
    BY <1>1, <2>1, <2>2 DEF Register, Abandon, Reject
  <2>3. CASE \E w \in Writer, p \in Path : Create(w, p) \/ Continue(w, p) \/ Tombstone(w, p)
    BY <1>1, <2>3 DEF Create, Continue, Tombstone, AppendLine
  <2>4. CASE \E w \in Writer : \E extra \in SUBSET Edges(Reduce(w)) : Close(w, extra)
    BY <1>1, <2>1, <2>4 DEF Close, Publish
  <2>5. CASE \E w \in Writer, name \in Name, p \in Path : Allow(w, name, p)
    BY <1>1, <2>1, <2>5 DEF Allow, Publish
  <2>6. CASE \E ver \in UNION {Have(views[i].files) : i \in DOMAIN views}, cascade \in BOOLEAN :
               Rollback(ver.name, ver.version, cascade)
    BY <1>1, <2>6 DEF Rollback
  <2>7. CASE Reopen
    BY <1>1, <2>7 DEF Reopen
  <2> QED
    BY <1>1, <2>2, <2>3, <2>4, <2>5, <2>6, <2>7 DEF ProductsNext
<1>2. ProductsInv /\ [ProductsNext]_products =>
        [\A w \in (live \cup retiring) \cap mounted :
           w \in mounted' /\ treeTail' # "spoiled" => w \in live' \cup retiring']_products
  BY <1>1, TypeFits
<1> QED
  BY <1>2, ProductsInvariance, PTL DEF ProductsSpec, NoMountForgotten

\* Nothing that was built on the version that left is published after a rollback that
\* cascades, over any number of edges (wp::rollback).
THEOREM CascadesAreComplete == ProductsSpec => CascadeIsComplete
<1>1. ASSUME ProductsInv, NEW name, NEW n, Rollback(name, n, TRUE), views' # views
      PROVE  \E v \in Have(Current) :
               v.name = name /\ Have(Current') \cap (Reached({v}) \ {v}) = {}
  <2>1. PICK files \in Files :
          /\ MayPublish([files |-> files, edges |-> CurrentEdges])
          /\ TRUE => \E v \in Have(Current) :
                       v.name = name /\ Have(files) \cap Dependents(v) = {}
    BY <1>1, RollbackPublishes
  <2>2. PICK view : view = [files |-> files, edges |-> CurrentEdges]
    OBVIOUS
  <2>3. views' = Append(views, view)
    BY <1>1, <2>1, <2>2 DEF MayPublish
  <2>4. Current' = files
    <3>1. views \in Seq(FiniteView)
      BY <1>1 DEF ProductsInv, ViewsFit
    <3>2. view \in FiniteView
      BY <1>1, <2>2, TypeFits, CurrentFits, EdgesFinite DEF FiniteView, View
    <3>3. Len(views') = Len(views) + 1 /\ views'[Len(views) + 1] = view /\ Len(views) \in Nat
      BY <2>3, <3>1, <3>2, AppendProperties, LenProperties
    <3>4. views' # <<>>
      BY <3>3
    <3> QED
      BY <2>2, <3>3, <3>4 DEF Current
  <2>5. PICK v \in Have(Current) : v.name = name /\ Have(files) \cap Dependents(v) = {}
    BY <2>1
  <2>6. Have(Current') \cap (Reached({v}) \ {v}) = {}
    BY <2>4, <2>5, ReachedDepends
  <2> QED
    BY <2>5, <2>6
<1>2. ProductsInv /\ [ProductsNext]_products =>
        [\A name \in Name :
           (\E n \in 1..MaxLines : Rollback(name, n, TRUE)) /\ views' # views =>
             \E v \in Have(Current) :
               v.name = name /\ Have(Current') \cap (Reached({v}) \ {v}) = {}]_products
  BY <1>1
<1> QED
  BY <1>2, ProductsInvariance, PTL DEF ProductsSpec, CascadeIsComplete

\* Only a close of its own takes a writer away and changes the views.
LEMMA WhoCloses ==
  ASSUME ProductsInv, ProductsNext, NEW w \in Writer, Closes(w)
  PROVE  \E extra \in SUBSET Edges(Reduce(w)) :
           /\ Close(w, extra)
           /\ views' = Append(views, [files |-> Reduce(w), edges |-> extra])
<1>1. w \in live /\ w \notin live' /\ conflict[w] = Absent /\ views' # views /\ (treeTail # "spoiled" => live \subseteq mounted)
  BY DEF Closes, ProductsInv, WritersFit
<1>2. CASE \E v \in Writer : Register(v) \/ Abandon(v) \/ Reject(v)
  BY <1>1, <1>2 DEF Register, Abandon, Reject
<1>3. CASE \E v \in Writer, p \in Path : Create(v, p) \/ Continue(v, p) \/ Tombstone(v, p)
  BY <1>1, <1>3 DEF Create, Continue, Tombstone, AppendLine
<1>4. CASE \E v \in Writer : \E extra \in SUBSET Edges(Reduce(v)) : Close(v, extra)
  <2>0. PICK v \in Writer : \E extra \in SUBSET Edges(Reduce(v)) : Close(v, extra)
    BY <1>4
  <2>1. PICK extra \in SUBSET Edges(Reduce(v)) : Close(v, extra)
    BY <2>0
  <2>2. Publish(v, Reduce(v), extra)
    BY <1>1, <2>1 DEF Close
  <2>3. views' = Append(views, [files |-> Reduce(v), edges |-> extra]) /\ Retire(v)
    BY <1>1, <2>2 DEF Publish, AppendView, AppendViewFails
  <2>4. v = w
    BY <1>1, <2>3 DEF Retire
  <2> QED
    BY <2>1, <2>3, <2>4
<1>5. CASE \E v \in Writer, name \in Name, p \in Path : Allow(v, name, p)
  <2>1. PICK v \in Writer, name \in Name, p \in Path : Allow(v, name, p)
    BY <1>5
  <2>2. conflict[v] # Absent /\ (live' = live \/ live' = live \ {v})
    BY <2>1 DEF Allow, Publish, Retire
  <2> QED
    BY <1>1, <2>2
<1>6. CASE \E ver \in UNION {Have(views[i].files) : i \in DOMAIN views}, cascade \in BOOLEAN :
             Rollback(ver.name, ver.version, cascade)
  BY <1>1, <1>6 DEF Rollback
<1>7. CASE Reopen
  BY <1>1, <1>7 DEF Reopen
<1> QED
  BY <1>2, <1>3, <1>4, <1>5, <1>6, <1>7 DEF ProductsNext

\* Without a conflict the writes of a log to a path that held a file go on with its
\* name: the first that does not would have met the file or the write before it.
LEMMA NamesGoOn ==
  ASSUME ProductsTypeOK, NEW w \in Writer, NEW p \in Path, Clashes(w) = {}, Current[p] # Absent,
         \A i \in 1..Len(log[w]) : log[w][i].path = p => log[w][i].op = "write"
  PROVE  \A i \in 1..Len(log[w]) : log[w][i].path = p => log[w][i].file.name = Current[p].name
<1> DEFINE S == {i \in 1..Len(log[w]) : log[w][i].path = p /\ log[w][i].file.name # Current[p].name}
<1>0. Len(log[w]) \in Nat /\ DOMAIN log[w] = 1..Len(log[w])
  BY LogFits
<1>1. ASSUME S # {} PROVE FALSE
  <2>1. PICK m \in S : \A j \in S : m <= j
    <3>1. S \in SUBSET Nat
      BY <1>0
    <3> HIDE DEF S
    <3> QED
      BY <1>1, <3>1, Smallest
  <2>2. m \in 1..Len(log[w]) /\ log[w][m].path = p /\ log[w][m].file.name # Current[p].name
    BY <2>1
  <2>3. m \in Writes(w)
    BY <1>0, <2>2 DEF Writes
  <2>4. m - 1 \in 0..Len(log[w])
    BY <1>0, <2>2
  <2>5. PICK old : old = Before(w, m)[p]
    OBVIOUS
  <2>6. old # Absent /\ old.name = Current[p].name
    <3>1. CASE old = Current[p]
      BY <3>1
    <3>2. CASE \E k \in 1..(m - 1) : log[w][k].path = p
                 /\ old = IF log[w][k].op = "write" THEN log[w][k].file ELSE Absent
      <4>1. PICK k \in 1..(m - 1) : log[w][k].path = p
                 /\ old = IF log[w][k].op = "write" THEN log[w][k].file ELSE Absent
        BY <3>2
      <4>2. k \in 1..Len(log[w]) /\ ~(m <= k)
        BY <1>0, <2>2
      <4>3. old = log[w][k].file /\ old \in FileRec
        BY <4>1, <4>2, LogFits
      <4>4. k \notin S
        BY <2>1, <4>2
      <4>5. log[w][k].file.name = Current[p].name
        BY <4>1, <4>2, <4>4
      <4> QED
        BY <4>3, <4>5, ProductsAssumption
    <3> QED
      BY <2>4, <2>5, <3>1, <3>2, ReducedIs DEF Before
  <2>7. m \in Clashes(w)
    BY <2>2, <2>3, <2>5, <2>6 DEF Clashes
  <2> QED
    BY <2>7
<1> QED
  BY <1>1

\* Closing changes what its log is about and no other file, and only what it removed
\* gives way to another name (wp::close, log::reduce).
THEOREM ClosesAreOwn == ProductsSpec => CloseIsOwn
<1> DEFINE Own(w, p) ==
      /\ \E i \in DOMAIN log[w] : log[w][i].path = p
      /\ \/ Current[p] = Absent
         \/ Current'[p] # Absent /\ Current'[p].name = Current[p].name
         \/ \E i \in DOMAIN log[w] : log[w][i].op = "tombstone" /\ log[w][i].path = p
<1>1. ASSUME ProductsInv, ProductsNext, NEW w \in Writer, NEW p \in Path, Closes(w), Current'[p] # Current[p]
      PROVE  Own(w, p)
  <2>0. ProductsTypeOK
    BY <1>1, TypeFits
  <2>1. PICK extra \in SUBSET Edges(Reduce(w)) :
          Close(w, extra) /\ views' = Append(views, [files |-> Reduce(w), edges |-> extra])
    BY <1>1, WhoCloses
  <2>2. Current' = Reduce(w)
    <3>1. PICK view : view = [files |-> Reduce(w), edges |-> extra]
      OBVIOUS
    <3>2. view \in View /\ views \in Seq(View)
      BY <2>0, <3>1, ReduceFits, EdgesFit DEF View, ProductsTypeOK
    <3>3. Len(views') = Len(views) + 1 /\ views'[Len(views) + 1] = view /\ Len(views) \in Nat
      BY <2>1, <3>1, <3>2, AppendProperties, LenProperties
    <3>4. views' # <<>>
      BY <3>3
    <3> QED
      BY <3>1, <3>3, <3>4 DEF Current
  <2>3. Clashes(w) = {}
    <3>1. FirstClash(w) = Absent
      BY <1>1, <2>1 DEF Close, Closes
    <3> QED
      BY <2>0, <3>1, ClashesFit
  <2>4. Len(log[w]) \in 0..Len(log[w]) /\ DOMAIN log[w] = 1..Len(log[w])
    BY <2>0, LogFits
  <2>5. PICK k \in 1..Len(log[w]) :
          /\ log[w][k].path = p
          /\ Current'[p] = IF log[w][k].op = "write" THEN log[w][k].file ELSE Absent
    BY <1>1, <2>0, <2>2, <2>4, ReducedIs DEF Reduce
  <2>6. CASE Current[p] = Absent \/ \E i \in DOMAIN log[w] : log[w][i].op = "tombstone" /\ log[w][i].path = p
    BY <2>4, <2>5, <2>6
  <2>7. CASE Current[p] # Absent /\ \A i \in DOMAIN log[w] : ~(log[w][i].op = "tombstone" /\ log[w][i].path = p)
    <3>1. \A i \in 1..Len(log[w]) : log[w][i].path = p => log[w][i].op = "write"
      BY <2>0, <2>4, <2>7, LogFits
    <3>2. log[w][k].file.name = Current[p].name
      BY <2>0, <2>3, <2>5, <2>7, <3>1, NamesGoOn
    <3>3. Current'[p] = log[w][k].file /\ Current'[p] \in FileRec
      BY <2>0, <2>5, <3>1, LogFits
    <3> QED
      BY <2>4, <2>5, <3>2, <3>3, ProductsAssumption
  <2> QED
    BY <2>6, <2>7
<1>2. ProductsInv /\ [ProductsNext]_products =>
        [\A w \in Writer, p \in Path : Closes(w) /\ Current'[p] # Current[p] => Own(w, p)]_products
  BY <1>1
<1> QED
  BY <1>2, ProductsInvariance, PTL DEF ProductsSpec, CloseIsOwn

----------------------------------------------------------------------------
(* Seats *)

(* --------------------------------- chains --------------------------------- *)

Trees == [Worker -> Node \cup {Nil}]

LEMMA SelfAbove ==
  ASSUME NEW up, NEW w \in Node
  PROVE  w \in Above(up, w) /\ Above(up, w) \subseteq Node
BY DEF Above

LEMMA AboveLeast ==
  ASSUME NEW up, NEW w, NEW S \in SUBSET Node, w \in S, UpClosed(up, S)
  PROVE  Above(up, w) \subseteq S
BY DEF Above

LEMMA AboveCloses ==
  ASSUME NEW up \in Trees, NEW w \in Node
  PROVE  UpClosed(up, Above(up, w))
<1> SUFFICES ASSUME NEW v \in Above(up, w) \ {Root}, up[v] # Nil
             PROVE  up[v] \in Above(up, w)
  BY DEF UpClosed
<1>1. v \in Node /\ v \in Worker
  BY DEF Above, Node
<1>2. up[v] \in Node
  BY <1>1 DEF Trees
<1>3. ASSUME NEW S \in SUBSET Node, w \in S, UpClosed(up, S) PROVE up[v] \in S
  <2>1. v \in S
    BY <1>3 DEF Above
  <2> QED
    BY <1>3, <2>1 DEF UpClosed
<1> QED
  BY <1>2, <1>3 DEF Above

LEMMA AboveGoesOn ==
  ASSUME NEW up \in Trees, NEW w \in Node, NEW v \in Above(up, w)
  PROVE  Above(up, v) \subseteq Above(up, w)
BY SelfAbove, AboveCloses, AboveLeast

\* Who is over w is w or over the one it hangs under.
LEMMA AboveStep ==
  ASSUME NEW up \in Trees, NEW w \in Worker, up[w] # Nil
  PROVE  Above(up, w) = {w} \cup Above(up, up[w])
<1>0. w \in Node /\ up[w] \in Node
  BY DEF Trees, Node
<1>1. Above(up, w) \subseteq {w} \cup Above(up, up[w])
  <2> DEFINE S == {w} \cup Above(up, up[w])
  <2>1. S \subseteq Node /\ w \in S /\ up[w] \in S
    BY <1>0, SelfAbove
  <2>2. UpClosed(up, S)
    BY <1>0, <2>1, AboveCloses DEF UpClosed
  <2> HIDE DEF S
  <2>3. Above(up, w) \subseteq S
    BY <2>1, <2>2, AboveLeast
  <2> QED
    BY <2>3 DEF S
<1>2. up[w] \in Above(up, w) /\ w \in Above(up, w)
  <2>1. w # Root
    BY SeatsAssumption
  <2> QED
    BY <1>0, <2>1, SelfAbove, AboveCloses DEF UpClosed
<1>3. Above(up, up[w]) \subseteq Above(up, w)
  BY <1>0, <1>2, AboveGoesOn
<1> QED
  BY <1>1, <1>2, <1>3

LEMMA AboveStops ==
  ASSUME NEW up, NEW w \in Node, w = Root \/ up[w] = Nil
  PROVE  Above(up, w) = {w}
<1>1. UpClosed(up, {w})
  BY DEF UpClosed
<1> QED
  BY <1>1, SelfAbove, AboveLeast

\* Maps that agree over w have one chain there.
LEMMA SameAbove ==
  ASSUME NEW up \in Trees, NEW other \in Trees, NEW w \in Node,
         \A v \in Above(up, w) \ {Root} : other[v] = up[v]
  PROVE  Above(other, w) = Above(up, w)
<1> DEFINE A == Above(up, w)
           B == Above(other, w)
<1>1. w \in A /\ A \subseteq Node /\ UpClosed(up, A) /\ w \in B /\ B \subseteq Node /\ UpClosed(other, B)
  BY SelfAbove, AboveCloses
<1>2. UpClosed(other, A)
  BY <1>1 DEF UpClosed
<1>3. B \subseteq A
  BY <1>1, <1>2, AboveLeast
<1>4. UpClosed(up, B)
  BY <1>1, <1>3 DEF UpClosed
<1>5. A \subseteq B
  BY <1>1, <1>4, AboveLeast
<1> QED
  BY <1>3, <1>5

\* A map that takes some nodes away has no longer chains.
LEMMA LessAbove ==
  ASSUME NEW up \in Trees, NEW other, NEW w \in Node,
         \A v \in Above(up, w) \ {Root} : other[v] \in {Nil, up[v]}
  PROVE  Above(other, w) \subseteq Above(up, w)
<1>1. w \in Above(up, w) /\ Above(up, w) \subseteq Node /\ UpClosed(up, Above(up, w))
  BY SelfAbove, AboveCloses
<1>2. UpClosed(other, Above(up, w))
  BY <1>1 DEF UpClosed
<1> QED
  BY <1>1, <1>2, AboveLeast

\* A chain that leads to the recorder does so from everybody in it.
LEMMA AllRooted ==
  ASSUME NEW up \in Trees, NEW w \in Node, Root \in Above(up, w)
  PROVE  \A v \in Above(up, w) \ {Root} : up[v] # Nil /\ Root \in Above(up, v)
<1> DEFINE S == {v \in Above(up, w) : Root \in Above(up, v)}
<1>1. w \in S /\ S \subseteq Node
  BY SelfAbove
<1>2. UpClosed(up, S)
  <2> SUFFICES ASSUME NEW v \in S \ {Root}, up[v] # Nil PROVE up[v] \in S
    BY DEF UpClosed
  <2>1. v \in Worker /\ v \in Node
    BY <1>1 DEF Node
  <2>2. up[v] \in Above(up, w)
    BY AboveCloses DEF UpClosed
  <2>3. Above(up, v) = {v} \cup Above(up, up[v])
    BY <2>1, AboveStep
  <2> QED
    BY <2>2, <2>3
<1>3. Above(up, w) \subseteq S
  <2> HIDE DEF S
  <2> QED
    BY <1>1, <1>2, AboveLeast
<1>4. ASSUME NEW v \in Above(up, w) \ {Root} PROVE up[v] # Nil /\ Root \in Above(up, v)
  <2>1. v \in Node /\ Root \in Above(up, v)
    BY <1>3, SelfAbove
  <2>2. up[v] # Nil
    BY <2>1, AboveStops
  <2> QED
    BY <2>1, <2>2
<1> QED
  BY <1>4

(* Taking away whoever has one of ids over it. *)
LEMMA PrunedTyped ==
  ASSUME NEW up \in Trees, NEW ids
  PROVE  /\ Pruned(up, ids) \in Trees
         /\ \A w \in Worker : Pruned(up, ids)[w] = IF Above(up, w) \cap ids # {} THEN Nil ELSE up[w]
BY DEF Pruned, Trees

LEMMA PrunedAbove ==
  ASSUME NEW up \in Trees, NEW ids, NEW w \in Node
  PROVE  /\ Above(Pruned(up, ids), w) \subseteq Above(up, w)
         /\ Above(up, w) \cap ids = {} => Above(Pruned(up, ids), w) = Above(up, w)
         /\ w \in Worker /\ Root \in Above(Pruned(up, ids), w) =>
              Above(up, w) \cap ids = {} /\ Root \in Above(up, w)
<1> DEFINE less == Pruned(up, ids)
<1>1. less \in Trees /\ \A v \in Worker : less[v] = IF Above(up, v) \cap ids # {} THEN Nil ELSE up[v]
  BY PrunedTyped
<1> HIDE DEF less
<1>2. \A v \in Above(up, w) \ {Root} : v \in Worker /\ Above(up, v) \subseteq Above(up, w)
  BY SelfAbove, AboveGoesOn DEF Node
<1>3. Above(less, w) \subseteq Above(up, w)
  BY <1>1, <1>2, LessAbove
<1>4. ASSUME Above(up, w) \cap ids = {} PROVE Above(less, w) = Above(up, w)
  <2>1. \A v \in Above(up, w) \ {Root} : less[v] = up[v]
    BY <1>1, <1>2, <1>4
  <2> QED
    BY <1>1, <2>1, SameAbove
<1>5. ASSUME w \in Worker, Root \in Above(less, w) PROVE Above(up, w) \cap ids = {} /\ Root \in Above(up, w)
  <2>1. w # Root
    BY <1>5, SeatsAssumption
  <2>2. less[w] # Nil
    BY <1>5, <2>1, AboveStops
  <2> QED
    BY <1>1, <1>3, <1>5, <2>2
<1> QED
  BY <1>3, <1>4, <1>5 DEF less

\* Taking away one after the other is taking away all.
LEMMA PrunedTwice ==
  ASSUME NEW up \in Trees, NEW ids, NEW more
  PROVE  Pruned(Pruned(up, ids), more) = Pruned(up, ids \cup more)
<1> DEFINE less == Pruned(up, ids)
           one == Pruned(less, more)
           all == Pruned(up, ids \cup more)
<1>1. less \in Trees /\ \A v \in Worker : less[v] = IF Above(up, v) \cap ids # {} THEN Nil ELSE up[v]
  BY PrunedTyped
<1>2. \A w \in Worker : Above(up, w) \cap ids = {} => Above(less, w) = Above(up, w)
  BY PrunedAbove DEF Node
<1> HIDE DEF less
<1>3. one \in Trees /\ \A v \in Worker : one[v] = IF Above(less, v) \cap more # {} THEN Nil ELSE less[v]
  BY <1>1, PrunedTyped
<1>4. all \in Trees /\ \A v \in Worker : all[v] = IF Above(up, v) \cap (ids \cup more) # {} THEN Nil ELSE up[v]
  BY PrunedTyped
<1> HIDE DEF one, all
<1>5. ASSUME NEW w \in Worker PROVE one[w] = all[w]
  <2>1. CASE Above(up, w) \cap ids = {}
    BY <1>1, <1>2, <1>3, <1>4, <2>1
  <2>2. CASE Above(up, w) \cap ids # {}
    BY <1>1, <1>3, <1>4, <2>2
  <2> QED
    BY <2>1, <2>2
<1>6. one = all
  BY <1>3, <1>4, <1>5 DEF Trees
<1> QED
  BY <1>6 DEF one, all, less

LEMMA PrunedNone ==
  ASSUME NEW up \in Trees
  PROVE  Pruned(up, {}) = up
<1>1. Pruned(up, {}) \in Trees /\ \A w \in Worker : Pruned(up, {})[w] = up[w]
  BY PrunedTyped
<1> QED
  BY <1>1 DEF Trees

(* --------------------------------- the tape -------------------------------- *)

\* f are the trees after each of the first n lines.
ReplaysTo(lines, n, f) ==
  f = [k \in 0..n |-> IF k = 0 THEN [w \in Worker |-> Nil] ELSE Replay(f[k - 1], lines[k])]

\* There are such trees: those of a shorter tape are continued.
LEMMA ReplaysExist ==
  ASSUME NEW lines, NEW N \in Nat
  PROVE  \E f : ReplaysTo(lines, N, f)
<1> SUFFICES ASSUME ~\E f : ReplaysTo(lines, N, f)
             PROVE  FALSE
  OBVIOUS
<1> DEFINE S == {n \in 0..N : ~\E f : ReplaysTo(lines, n, f)}
<1>1. PICK n \in S : \A j \in S : n <= j
  <2>1. S \in SUBSET Nat /\ N \in S
    OBVIOUS
  <2> HIDE DEF S
  <2> QED
    BY <2>1, Smallest
<1>2. n \in 0..N /\ ~\E f : ReplaysTo(lines, n, f)
  BY <1>1
<1> DEFINE none == [w \in Worker |-> Nil]
<1>3. CASE n = 0
  <2> DEFINE f == [k \in 0..0 |-> none]
  <2>1. ReplaysTo(lines, 0, f)
    BY DEF ReplaysTo
  <2> QED
    BY <1>2, <1>3, <2>1
<1>4. CASE n # 0
  <2>1. n - 1 \in 0..N /\ n - 1 \notin S
    BY <1>1, <1>2, <1>4
  <2>2. PICK f : ReplaysTo(lines, n - 1, f)
    BY <2>1
  <2>3. PICK last : last = Replay(f[n - 1], lines[n])
    OBVIOUS
  <2> DEFINE g == [k \in 0..n |-> IF k = n THEN last ELSE f[k]]
  <2>4. \A k \in 0..n-1 : g[k] = f[k]
    BY <1>2
  <2>5. g[n] = last
    BY <1>2
  <2>6. \A j \in 0..n-1 : f[j] = IF j = 0 THEN none ELSE Replay(f[j - 1], lines[j])
    BY <2>2 DEF ReplaysTo
  <2>7. g = [k \in 0..n |-> g[k]]
    OBVIOUS
  <2> HIDE DEF g, none
  <2>8. \A k \in 0..n : g[k] = IF k = 0 THEN none ELSE Replay(g[k - 1], lines[k])
    <3> TAKE k \in 0..n
    <3>1. CASE k = n
      <4>1. n - 1 \in 0..n-1
        BY <1>2, <1>4
      <4>2. g[n - 1] = f[n - 1]
        BY <2>4, <4>1
      <4> QED
        BY <1>4, <2>3, <2>5, <3>1, <4>2
    <3>2. CASE k # n
      <4>1. k \in 0..n-1
        BY <1>2, <3>2
      <4>2. g[k] = f[k]
        BY <2>4, <4>1
      <4>3. k # 0 => g[k - 1] = f[k - 1]
        <5>1. k # 0 => k - 1 \in 0..n-1
          BY <1>2, <4>1
        <5> QED
          BY <2>4, <5>1
      <4> QED
        BY <2>6, <4>1, <4>2, <4>3
    <3> QED
      BY <3>1, <3>2
  <2>9. ReplaysTo(lines, n, g)
    BY <2>7, <2>8 DEF ReplaysTo, none
  <2> QED
    BY <1>2, <2>9
<1> QED
  BY <1>3, <1>4

LEMMA ReplayedStep ==
  ASSUME NEW lines, NEW N \in Nat, Len(lines) = N
  PROVE  /\ Replayed(lines)[0] = [w \in Worker |-> Nil]
         /\ \A k \in 1..N : Replayed(lines)[k] = Replay(Replayed(lines)[k - 1], lines[k])
         /\ TreeOf(lines) = Replayed(lines)[N]
<1> DEFINE A == Replayed(lines)
<1>1. \E f : f = [k \in 0..Len(lines) |-> IF k = 0 THEN [w \in Worker |-> Nil] ELSE Replay(f[k - 1], lines[k])]
  <2>1. PICK f : ReplaysTo(lines, N, f)
    BY ReplaysExist
  <2>2. f = [k \in 0..Len(lines) |-> IF k = 0 THEN [w \in Worker |-> Nil] ELSE Replay(f[k - 1], lines[k])]
    BY <2>1 DEF ReplaysTo
  <2> QED
    BY <2>2
<1>2. A = [k \in 0..Len(lines) |-> IF k = 0 THEN [w \in Worker |-> Nil] ELSE Replay(A[k - 1], lines[k])]
  BY <1>1 DEF Replayed
<1>3. TreeOf(lines) = A[N]
  BY DEF TreeOf
<1> HIDE DEF A
<1>4. A[0] = [w \in Worker |-> Nil] /\ \A k \in 1..N : A[k] = Replay(A[k - 1], lines[k])
  BY <1>2
<1> QED
  BY <1>3, <1>4 DEF A

LEMMA ReplayTyped ==
  ASSUME NEW up \in Trees, NEW line \in SeatLine
  PROVE  Replay(up, line) \in Trees
<1>1. CASE line.op = "spawn"
  <2>1. line.id \in Worker /\ line.parent \in Node
    BY <1>1 DEF SeatLine
  <2> QED
    BY <1>1, <2>1 DEF Replay, Trees
<1>2. CASE line.op # "spawn"
  BY <1>2, PrunedTyped DEF Replay
<1> QED
  BY <1>1, <1>2

LEMMA ReplayedTyped ==
  ASSUME NEW lines \in Seq(SeatLine)
  PROVE  /\ \A k \in 0..Len(lines) : Replayed(lines)[k] \in Trees
         /\ TreeOf(lines) \in Trees
<1>0. PICK N \in Nat : N = Len(lines)
  BY LenProperties
<1>1. PICK A : A = Replayed(lines)
  OBVIOUS
<1>2. /\ A[0] = [w \in Worker |-> Nil]
      /\ \A k \in 1..N : A[k] = Replay(A[k - 1], lines[k])
      /\ TreeOf(lines) = A[N]
  BY <1>0, <1>1, ReplayedStep
<1> DEFINE S == {k \in 0..N : A[k] \notin Trees}
<1>3. ASSUME S # {} PROVE FALSE
  <2>1. PICK m \in S : \A j \in S : m <= j
    <3>1. S \in SUBSET Nat
      OBVIOUS
    <3> HIDE DEF S
    <3> QED
      BY <1>3, <3>1, Smallest
  <2>2. m \in 0..N /\ A[m] \notin Trees
    BY <2>1
  <2>3. m # 0
    BY <1>2, <2>2 DEF Trees
  <2>4. m - 1 \in 0..N /\ m - 1 \notin S /\ m \in 1..N
    BY <2>1, <2>2, <2>3
  <2>5. A[m - 1] \in Trees
    BY <2>4
  <2>6. lines[m] \in SeatLine
    BY <1>0, <2>4, ElementOfSeq
  <2> QED
    BY <1>2, <2>2, <2>4, <2>5, <2>6, ReplayTyped
<1>4. \A k \in 0..N : A[k] \in Trees
  BY <1>3
<1> QED
  BY <1>0, <1>1, <1>2, <1>4

\* A tape and one that goes on from it.
GoesOn(lines, longer, N, M) ==
  /\ lines \in Seq(SeatLine) /\ longer \in Seq(SeatLine)
  /\ Len(lines) = N /\ Len(longer) = M /\ N <= M
  /\ \A k \in 1..N : longer[k] = lines[k]

\* A tape that goes on has the same trees first.
LEMMA SameTrees ==
  ASSUME NEW lines, NEW longer, NEW N \in Nat, NEW M \in Nat, GoesOn(lines, longer, N, M)
  PROVE  /\ Replayed(longer)[N] = TreeOf(lines)
         /\ \A k \in 0..N : Replayed(longer)[k] = Replayed(lines)[k]
<1>0. Len(lines) = N /\ Len(longer) = M /\ N <= M /\ \A k \in 1..N : longer[k] = lines[k]
  BY DEF GoesOn
<1>1. PICK A, B : A = Replayed(lines) /\ B = Replayed(longer)
  OBVIOUS
<1>2. /\ A[0] = [w \in Worker |-> Nil] /\ B[0] = A[0]
      /\ \A k \in 1..N : A[k] = Replay(A[k - 1], lines[k])
      /\ \A k \in 1..M : B[k] = Replay(B[k - 1], longer[k])
      /\ TreeOf(lines) = A[N]
  BY <1>0, <1>1, ReplayedStep
<1> DEFINE S == {k \in 0..N : A[k] # B[k]}
<1>3. ASSUME S # {} PROVE FALSE
  <2>1. PICK m \in S : \A j \in S : m <= j
    <3>1. S \in SUBSET Nat
      OBVIOUS
    <3> HIDE DEF S
    <3> QED
      BY <1>3, <3>1, Smallest
  <2>2. m \in 0..N /\ A[m] # B[m] /\ m # 0
    BY <1>2, <2>1
  <2>3. m - 1 \in 0..N /\ m - 1 \notin S /\ m \in 1..N /\ m \in 1..M
    BY <1>0, <2>1, <2>2
  <2>4. A[m - 1] = B[m - 1]
    BY <2>3
  <2> QED
    BY <1>0, <1>2, <2>2, <2>3, <2>4
<1>4. A[N] = B[N] /\ \A k \in 0..N : B[k] = A[k]
  BY <1>3
<1> QED
  BY <1>1, <1>2, <1>4

\* No spawn is among the lines that were added, and ids are whom their cancels name.
AddsCancels(longer, N, M, ids) ==
  /\ \A i \in (N + 1)..M : longer[i].op # "spawn"
  /\ \A w \in Worker : w \in ids <=> \E i \in (N + 1)..M : longer[i].op = "cancel" /\ longer[i].id = w

\* Without a spawn among the lines that are added, the cancels among them end whom they
\* name, and nobody is set adrift.
LEMMA NoSpawnAdds ==
  ASSUME NEW lines, NEW longer, NEW N \in Nat, NEW M \in Nat, GoesOn(lines, longer, N, M),
         NEW ids \in SUBSET Worker, AddsCancels(longer, N, M, ids)
  PROVE  Ended(longer) = Ended(lines) \cup ids /\ Adrift(longer) = Adrift(lines)
<1>0. /\ \A i \in (N + 1)..M : longer[i].op # "spawn"
      /\ \A w \in Worker : w \in ids <=> \E i \in (N + 1)..M : longer[i].op = "cancel" /\ longer[i].id = w
  BY DEF AddsCancels
<1>1. /\ DOMAIN lines = 1..N /\ DOMAIN longer = 1..M
      /\ \A k \in 1..N : k \in 1..M /\ longer[k] = lines[k]
  BY LenProperties DEF GoesOn
<1>2. \A i \in 1..M : i \in 1..N \/ i \in (N + 1)..M
  OBVIOUS
<1>3. ASSUME NEW w PROVE Spawns(longer, w) = Spawns(lines, w)
  <2>1. ASSUME NEW i \in Spawns(longer, w) PROVE i \in Spawns(lines, w)
    <3>1. i \in 1..M /\ longer[i].op = "spawn" /\ longer[i].id = w
      BY <1>1, <2>1 DEF Spawns
    <3>2. i \in 1..N
      BY <1>0, <1>2, <3>1
    <3> QED
      BY <1>1, <3>1, <3>2 DEF Spawns
  <2>2. ASSUME NEW i \in Spawns(lines, w) PROVE i \in Spawns(longer, w)
    BY <1>1, <2>2 DEF Spawns
  <2> QED
    BY <2>1, <2>2
<1>4. \A w : \A j \in Spawns(lines, w) : j \in 1..N
  BY <1>1 DEF Spawns
<1>5. ASSUME NEW w \in Worker PROVE w \in Ended(longer) <=> w \in Ended(lines) \cup ids
  <2>1. ASSUME w \in Ended(longer) PROVE w \in Ended(lines) \cup ids
    <3>1. PICK i \in 1..M : longer[i].op = "cancel" /\ longer[i].id = w /\ \A j \in Spawns(lines, w) : j < i
      BY <1>1, <1>3, <2>1 DEF Ended
    <3>2. CASE i \in 1..N
      BY <1>1, <3>1, <3>2 DEF Ended
    <3>3. CASE i \in (N + 1)..M
      BY <1>0, <3>1, <3>3
    <3> QED
      BY <1>2, <3>2, <3>3
  <2>2. ASSUME w \in Ended(lines) PROVE w \in Ended(longer)
    <3>1. PICK i \in 1..N : lines[i].op = "cancel" /\ lines[i].id = w /\ \A j \in Spawns(lines, w) : j < i
      BY <1>1, <2>2 DEF Ended
    <3> QED
      BY <1>1, <1>3, <3>1 DEF Ended
  <2>3. ASSUME w \in ids PROVE w \in Ended(longer)
    <3>1. PICK i \in (N + 1)..M : longer[i].op = "cancel" /\ longer[i].id = w
      BY <1>0, <2>3
    <3>2. i \in 1..M /\ \A j \in Spawns(lines, w) : j < i
      BY <1>4
    <3> QED
      BY <1>1, <1>3, <3>1, <3>2 DEF Ended
  <2> QED
    BY <2>1, <2>2, <2>3
<1>6. \A k \in 1..N : Replayed(longer)[k] = Replayed(lines)[k]
  <2>1. /\ Replayed(longer)[N] = TreeOf(lines)
        /\ \A k \in 0..N : Replayed(longer)[k] = Replayed(lines)[k]
    BY SameTrees
  <2> QED
    BY <2>1
<1>7. \A w \in Worker : w \in Adrift(longer) <=> w \in Adrift(lines)
  BY <1>3, <1>4, <1>6 DEF Adrift
<1> QED
  BY <1>5, <1>7 DEF Ended, Adrift

AddsSpawn(longer, M, w) == longer[M].op = "spawn" /\ longer[M].id = w

\* A spawn starts its worker anew, adrift when it has no way to the recorder.
LEMMA SpawnAdds ==
  ASSUME NEW lines, NEW longer, NEW N \in Nat, NEW M \in Nat, M = N + 1, GoesOn(lines, longer, N, M),
         NEW w \in Worker, AddsSpawn(longer, M, w)
  PROVE  /\ Ended(longer) = Ended(lines) \ {w}
         /\ Adrift(longer) = IF Root \in Above(TreeOf(longer), w) THEN Adrift(lines) \ {w} ELSE Adrift(lines) \cup {w}
<1>0. longer[M].op = "spawn" /\ longer[M].id = w
  BY DEF AddsSpawn
<1>1. /\ DOMAIN lines = 1..N /\ DOMAIN longer = 1..M
      /\ \A k \in 1..N : k \in 1..M /\ longer[k] = lines[k]
  BY LenProperties DEF GoesOn
<1>2. (\A i \in 1..M : i \in 1..N \/ i = M) /\ M \in 1..M /\ M \notin 1..N
  OBVIOUS
<1>3. ASSUME NEW v \in Worker, v # w PROVE Spawns(longer, v) = Spawns(lines, v)
  BY <1>0, <1>1, <1>2, <1>3 DEF Spawns
<1>4. M \in Spawns(longer, w) /\ \A j \in Spawns(longer, w) : j \in 1..M
  BY <1>0, <1>1, <1>2 DEF Spawns
<1>5. \A v : \A j \in Spawns(lines, v) : j \in 1..N
  BY <1>1 DEF Spawns
<1>6. w \notin Ended(longer)
  <2> SUFFICES ASSUME w \in Ended(longer) PROVE FALSE
    OBVIOUS
  <2>1. PICK i \in 1..M : \A j \in Spawns(longer, w) : j < i
    BY <1>1 DEF Ended
  <2>2. M < i
    BY <1>4, <2>1
  <2> QED
    BY <2>2
<1>7. ASSUME NEW v \in Worker, v # w PROVE v \in Ended(longer) <=> v \in Ended(lines)
  <2>1. ASSUME v \in Ended(longer) PROVE v \in Ended(lines)
    <3>1. PICK i \in 1..M : longer[i].op = "cancel" /\ longer[i].id = v /\ \A j \in Spawns(lines, v) : j < i
      BY <1>1, <1>3, <1>7, <2>1 DEF Ended
    <3>2. i \in 1..N
      BY <1>0, <1>2, <3>1
    <3> QED
      BY <1>1, <3>1, <3>2 DEF Ended
  <2>2. ASSUME v \in Ended(lines) PROVE v \in Ended(longer)
    <3>1. PICK i \in 1..N : lines[i].op = "cancel" /\ lines[i].id = v /\ \A j \in Spawns(lines, v) : j < i
      BY <1>1, <2>2 DEF Ended
    <3> QED
      BY <1>1, <1>3, <1>7, <3>1 DEF Ended
  <2> QED
    BY <2>1, <2>2
<1>8. \A k \in 1..N : Replayed(longer)[k] = Replayed(lines)[k]
  <2>1. /\ Replayed(longer)[N] = TreeOf(lines)
        /\ \A k \in 0..N : Replayed(longer)[k] = Replayed(lines)[k]
    BY SameTrees
  <2> QED
    BY <2>1
<1>9. \A v \in Worker : v # w => (v \in Adrift(longer) <=> v \in Adrift(lines))
  BY <1>3, <1>5, <1>8 DEF Adrift
<1>10. Replayed(longer)[M] = TreeOf(longer)
  BY DEF TreeOf, GoesOn
<1>11. w \in Adrift(longer) <=> Root \notin Above(TreeOf(longer), w)
  <2>1. ASSUME w \in Adrift(longer) PROVE Root \notin Above(TreeOf(longer), w)
    <3>1. PICK i \in Spawns(longer, w) :
            Root \notin Above(Replayed(longer)[i], w) /\ \A j \in Spawns(longer, w) : j <= i
      BY <2>1 DEF Adrift
    <3>2. i = M
      <4>1. M <= i /\ i \in 1..M
        BY <1>4, <3>1
      <4> QED
        BY <4>1
    <3> QED
      BY <1>10, <3>1, <3>2
  <2>2. ASSUME Root \notin Above(TreeOf(longer), w) PROVE w \in Adrift(longer)
    <3>1. \A j \in 1..M : j <= M
      OBVIOUS
    <3>2. \A j \in Spawns(longer, w) : j <= M
      BY <1>4, <3>1
    <3> QED
      BY <1>4, <1>10, <2>2, <3>2 DEF Adrift
  <2> QED
    BY <2>1, <2>2
<1>12. Ended(longer) = Ended(lines) \ {w}
  BY <1>6, <1>7 DEF Ended
<1>13. Adrift(longer) \subseteq Worker /\ Adrift(lines) \subseteq Worker
  BY DEF Adrift
<1> QED
  BY <1>9, <1>11, <1>12, <1>13

\* The last line that is not a cancel says what is pending.
LEMMA PendingIs ==
  ASSUME NEW lines \in Seq(SeatLine)
  PROVE  \/ PendingIn(lines) = Nil /\ \A i \in 1..Len(lines) : lines[i].op = "cancel"
         \/ \E m \in 1..Len(lines) :
              /\ lines[m].op # "cancel" /\ \A i \in 1..Len(lines) : i > m => lines[i].op = "cancel"
              /\ PendingIn(lines) = IF lines[m].op \in {"spawn", "release"} THEN Nil ELSE lines[m]
<1> DEFINE ends == Lifecycle(lines)
<1>0. DOMAIN lines = 1..Len(lines) /\ Len(lines) \in Nat
  BY LenProperties
<1>1. CASE ends = {}
  BY <1>0, <1>1 DEF Lifecycle, PendingIn
<1>2. CASE ends # {}
  <2>1. ends \in SUBSET Nat /\ \A x \in ends : x <= Len(lines)
    BY <1>0 DEF Lifecycle
  <2>2. PICK m : m = Max(ends)
    OBVIOUS
  <2>3. m \in ends /\ \A y \in ends : y <= m
    <3> HIDE DEF ends
    <3> QED
      BY <1>0, <1>2, <2>1, <2>2, MaxOf
  <2>4. m \in 1..Len(lines) /\ lines[m].op # "cancel"
    BY <1>0, <2>3 DEF Lifecycle
  <2>5. \A i \in 1..Len(lines) : i > m => lines[i].op = "cancel"
    <3> SUFFICES ASSUME NEW i \in 1..Len(lines), i > m, lines[i].op # "cancel" PROVE FALSE
      OBVIOUS
    <3>1. i \in ends
      BY <1>0 DEF Lifecycle
    <3> QED
      BY <2>3, <2>4, <3>1
  <2>6. PendingIn(lines) = IF lines[m].op \in {"spawn", "release"} THEN Nil ELSE lines[m]
    BY <1>2, <2>2 DEF PendingIn
  <2> QED
    BY <2>4, <2>5, <2>6
<1> QED
  BY <1>1, <1>2

\* What one more line does.
LEMMA LineAdds ==
  ASSUME NEW lines \in Seq(SeatLine), NEW line \in SeatLine, NEW longer, longer = Append(lines, line)
  PROVE  /\ longer \in Seq(SeatLine)
         /\ TreeOf(longer) = Replay(TreeOf(lines), line)
         /\ Ended(longer) = CASE line.op = "spawn" -> Ended(lines) \ {line.id}
                              [] line.op = "cancel" -> Ended(lines) \cup {line.id}
                              [] OTHER -> Ended(lines)
         /\ Adrift(longer) = IF line.op # "spawn" THEN Adrift(lines)
                             ELSE IF Root \in Above(TreeOf(longer), line.id) THEN Adrift(lines) \ {line.id}
                             ELSE Adrift(lines) \cup {line.id}
         /\ PendingIn(longer) =
              IF line.op = "cancel" THEN PendingIn(lines)
              ELSE IF line.op \in {"spawn", "release"} THEN Nil ELSE line
<1>0. PICK N \in Nat : N = Len(lines)
  BY LenProperties
<1>1. /\ longer \in Seq(SeatLine) /\ Len(longer) = N + 1 /\ longer[N + 1] = line
      /\ \A k \in 1..N : longer[k] = lines[k]
      /\ DOMAIN longer = 1..(N + 1) /\ DOMAIN lines = 1..N
  BY <1>0, AppendProperties, LenProperties
<1>3. GoesOn(lines, longer, N, N + 1)
  BY <1>0, <1>1 DEF GoesOn
<1>2. TreeOf(longer) = Replay(TreeOf(lines), line)
  <2>1. Replayed(longer)[N] = TreeOf(lines)
    <3>1. PICK M \in Nat : M = N + 1
      OBVIOUS
    <3>2. GoesOn(lines, longer, N, M)
      BY <1>3, <3>1
    <3> QED
      BY <3>2, SameTrees
  <2>2. N + 1 \in 1..(N + 1) /\ (N + 1) - 1 = N /\ N + 1 \in Nat
    OBVIOUS
  <2>3. /\ \A k \in 1..(N + 1) : Replayed(longer)[k] = Replay(Replayed(longer)[k - 1], longer[k])
        /\ TreeOf(longer) = Replayed(longer)[N + 1]
    BY <1>1, <2>2, ReplayedStep
  <2> QED
    BY <1>1, <2>1, <2>2, <2>3
<1>5. line.id \in Worker
  BY DEF SeatLine
<1>6. ASSUME line.op = "spawn"
      PROVE  /\ Ended(longer) = Ended(lines) \ {line.id}
             /\ Adrift(longer) = IF Root \in Above(TreeOf(longer), line.id) THEN Adrift(lines) \ {line.id}
                                 ELSE Adrift(lines) \cup {line.id}
  <2>1. PICK w \in Worker : w = line.id
    BY <1>5
  <2>4. PICK M \in Nat : M = N + 1
    OBVIOUS
  <2>2. longer[M].op = "spawn" /\ longer[M].id = w /\ GoesOn(lines, longer, N, M)
    BY <1>1, <1>3, <1>6, <2>1, <2>4
  <2>5. AddsSpawn(longer, M, w)
    BY <2>2 DEF AddsSpawn
  <2>3. /\ Ended(longer) = Ended(lines) \ {w}
        /\ Adrift(longer) = IF Root \in Above(TreeOf(longer), w) THEN Adrift(lines) \ {w} ELSE Adrift(lines) \cup {w}
    BY <2>2, <2>4, <2>5, SpawnAdds
  <2> QED
    BY <2>1, <2>3
<1>7. ASSUME line.op # "spawn"
      PROVE  /\ Ended(longer) = Ended(lines) \cup (IF line.op = "cancel" THEN {line.id} ELSE {})
             /\ Adrift(longer) = Adrift(lines)
  <2>1. PICK ids \in SUBSET Worker : ids = IF line.op = "cancel" THEN {line.id} ELSE {}
    BY <1>5
  <2>2. PICK M \in Nat : M = N + 1
    OBVIOUS
  <2>3. (N + 1)..M = {M} /\ longer[M] = line /\ GoesOn(lines, longer, N, M)
    BY <1>1, <1>3, <2>2
  <2>4. \A i \in (N + 1)..M : longer[i].op # "spawn"
    BY <1>7, <2>3
  <2>5. \A w \in Worker : w \in ids <=> \E i \in (N + 1)..M : longer[i].op = "cancel" /\ longer[i].id = w
    BY <2>1, <2>3
  <2>7. AddsCancels(longer, N, M, ids)
    BY <2>4, <2>5 DEF AddsCancels
  <2>6. Ended(longer) = Ended(lines) \cup ids /\ Adrift(longer) = Adrift(lines)
    BY <2>3, <2>7, NoSpawnAdds
  <2> QED
    BY <2>1, <2>6
<1>4. PendingIn(longer) = IF line.op = "cancel" THEN PendingIn(lines)
                          ELSE IF line.op \in {"spawn", "release"} THEN Nil ELSE line
  <2>1. CASE line.op # "cancel"
    <3>1. N + 1 \in 1..(N + 1) /\ ~(\A i \in 1..(N + 1) : longer[i].op = "cancel")
      BY <1>1, <2>1
    <3>2. PICK m \in 1..(N + 1) :
              /\ longer[m].op # "cancel" /\ \A i \in 1..(N + 1) : i > m => longer[i].op = "cancel"
              /\ PendingIn(longer) = IF longer[m].op \in {"spawn", "release"} THEN Nil ELSE longer[m]
      BY <1>1, <3>1, PendingIs
    <3>3. m = N + 1
      BY <1>1, <2>1, <3>1, <3>2
    <3> QED
      BY <1>1, <2>1, <3>2, <3>3
  <2>2. CASE line.op = "cancel"
    <3>1. CASE \A i \in 1..N : lines[i].op = "cancel"
      <4>1. \A i \in 1..(N + 1) : longer[i].op = "cancel"
        BY <1>1, <2>2, <3>1
      <4> QED
        BY <1>0, <1>1, <2>2, <3>1, <4>1, PendingIs
    <3>2. CASE ~\A i \in 1..N : lines[i].op = "cancel"
      <4>1. PICK m \in 1..N :
              /\ lines[m].op # "cancel" /\ \A i \in 1..N : i > m => lines[i].op = "cancel"
              /\ PendingIn(lines) = IF lines[m].op \in {"spawn", "release"} THEN Nil ELSE lines[m]
        BY <1>0, <3>2, PendingIs
      <4>2. m \in 1..(N + 1) /\ longer[m] = lines[m]
        BY <1>1
      <4>3. PICK l \in 1..(N + 1) :
              /\ longer[l].op # "cancel" /\ \A i \in 1..(N + 1) : i > l => longer[i].op = "cancel"
              /\ PendingIn(longer) = IF longer[l].op \in {"spawn", "release"} THEN Nil ELSE longer[l]
        <5>1. ~(\A i \in 1..(N + 1) : longer[i].op = "cancel")
          BY <4>1, <4>2
        <5> QED
          BY <1>1, <5>1, PendingIs
      <4>4. l = m
        <5>1. l \in 1..N /\ longer[l] = lines[l]
          BY <1>1, <2>2, <4>3
        <5>2. ~(l > m) /\ ~(m > l)
          BY <4>1, <4>2, <4>3, <5>1
        <5> QED
          BY <5>2
      <4> QED
        BY <2>2, <4>1, <4>2, <4>3, <4>4
    <3> QED
      BY <3>1, <3>2
  <2> QED
    BY <2>1, <2>2
<1>8. /\ Ended(longer) = CASE line.op = "spawn" -> Ended(lines) \ {line.id}
                           [] line.op = "cancel" -> Ended(lines) \cup {line.id}
                           [] OTHER -> Ended(lines)
      /\ Adrift(longer) = IF line.op # "spawn" THEN Adrift(lines)
                          ELSE IF Root \in Above(TreeOf(longer), line.id) THEN Adrift(lines) \ {line.id}
                          ELSE Adrift(lines) \cup {line.id}
  <2>1. CASE line.op = "spawn"
    BY <1>6, <2>1
  <2>2. CASE line.op # "spawn"
    BY <1>7, <2>2
  <2> QED
    BY <2>1, <2>2
<1> QED
  BY <1>1, <1>2, <1>4, <1>8

\* Cancels were written one after the other.
CancelsFollow(lines, longer, n, order, ids) ==
  /\ ids = {order[i] : i \in 1..n}
  /\ longer \in Seq(SeatLine) /\ Len(longer) = Len(lines) + n
  /\ \A i \in 1..Len(lines) : longer[i] = lines[i]
  /\ \A i \in 1..n : longer[Len(lines) + i].op = "cancel" /\ longer[Len(lines) + i].id = order[i]

LEMMA CancelLines ==
  ASSUME NEW lines \in Seq(SeatLine), NEW n \in Nat, NEW order \in [1..n -> Worker]
  PROVE  CancelsFollow(lines, lines \o [i \in 1..n |-> [op |-> "cancel", id |-> order[i]]], n, order,
                       {order[i] : i \in 1..n})
<1>0. PICK N \in Nat : N = Len(lines)
  BY LenProperties
<1> DEFINE more == [i \in 1..n |-> [op |-> "cancel", id |-> order[i]]]
           longer == lines \o more
<1>1. more \in Seq(SeatLine) /\ Len(more) = n /\ \A i \in 1..n : more[i].op = "cancel" /\ more[i].id = order[i]
  <2>1. \A i \in 1..n : [op |-> "cancel", id |-> order[i]] \in SeatLine
    BY DEF SeatLine
  <2>2. more \in [1..n -> SeatLine]
    BY <2>1
  <2>3. more \in Seq(SeatLine) /\ DOMAIN more = 1..n
    BY <2>2, SeqDef
  <2>4. Len(more) = n
    <3> HIDE DEF more
    <3> QED
      BY <2>3, LenProperties
  <2> QED
    BY <2>3, <2>4
<1> HIDE DEF more
<1>2. /\ longer \in Seq(SeatLine) /\ Len(longer) = N + n
      /\ \A i \in 1..(N + n) : longer[i] = IF i <= N THEN lines[i] ELSE more[i - N]
  BY <1>0, <1>1, ConcatProperties
<1> HIDE DEF longer
<1>3. \A i \in 1..N : longer[i] = lines[i]
  BY <1>2
<1>4. \A i \in 1..n : longer[N + i] = more[i]
  <2>1. \A i \in 1..n : N + i \in 1..(N + n) /\ ~(N + i <= N) /\ (N + i) - N = i
    OBVIOUS
  <2> QED
    BY <1>2, <2>1
<1> QED
  <2>1. CancelsFollow(lines, longer, n, order, {order[i] : i \in 1..n})
    BY <1>0, <1>1, <1>2, <1>3, <1>4 DEF CancelsFollow
  <2> QED
    BY <2>1 DEF longer, more

\* What they do.
LEMMA CancelsAdd ==
  ASSUME NEW lines \in Seq(SeatLine), NEW n \in Nat, NEW order \in [1..n -> Worker],
         NEW longer, NEW ids, CancelsFollow(lines, longer, n, order, ids)
  PROVE  /\ longer \in Seq(SeatLine)
         /\ TreeOf(longer) = Pruned(TreeOf(lines), ids)
         /\ Ended(longer) = Ended(lines) \cup ids /\ Adrift(longer) = Adrift(lines)
         /\ PendingIn(longer) = PendingIn(lines)
<1>0. PICK N \in Nat : N = Len(lines)
  BY LenProperties
<1>3. longer \in Seq(SeatLine) /\ Len(longer) = N + n /\ ids = {order[i] : i \in 1..n}
  BY <1>0 DEF CancelsFollow
<1>4. DOMAIN longer = 1..(N + n) /\ DOMAIN lines = 1..N /\ N + n \in Nat
  BY <1>0, <1>3, LenProperties
<1>5. \A i \in 1..N : i \in 1..(N + n) /\ longer[i] = lines[i]
  BY <1>0 DEF CancelsFollow
<1>6. \A i \in 1..n : N + i \in 1..(N + n) /\ longer[N + i].op = "cancel" /\ longer[N + i].id = order[i]
  <2>1. \A i \in 1..n : N + i \in 1..(N + n)
    OBVIOUS
  <2>2. \A i \in 1..n : longer[N + i].op = "cancel" /\ longer[N + i].id = order[i]
    BY <1>0 DEF CancelsFollow
  <2> QED
    BY <2>1, <2>2
<1>7. \A i \in 1..(N + n) : i \in 1..N \/ (i - N \in 1..n /\ N + (i - N) = i)
  OBVIOUS
<1>8. TreeOf(longer) = Pruned(TreeOf(lines), {order[i] : i \in 1..n})
  <2>1. PICK A, up : A = Replayed(longer) /\ up = TreeOf(lines)
    OBVIOUS
  <2>2. A[N] = up
    <3>1. PICK M \in Nat : M = N + n
      OBVIOUS
    <3>2. GoesOn(lines, longer, N, M)
      BY <1>0, <1>3, <1>5, <3>1 DEF GoesOn
    <3> QED
      BY <2>1, <3>2, SameTrees
  <2>3. /\ \A k \in 1..(N + n) : A[k] = Replay(A[k - 1], longer[k])
        /\ TreeOf(longer) = A[N + n]
    BY <1>3, <1>4, <2>1, ReplayedStep
  <2>4. up \in Trees
    BY <2>1, ReplayedTyped
  <2> DEFINE Ids(k) == {order[i] : i \in 1..k}
             S == {k \in 0..n : A[N + k] # Pruned(up, Ids(k))}
  <2>5. S \in SUBSET Nat /\ \A k \in 0..n : k \notin S => A[N + k] = Pruned(up, Ids(k))
    OBVIOUS
  <2>6. \A k \in S : k \in 0..n /\ A[N + k] # Pruned(up, Ids(k))
    OBVIOUS
  <2>7. Ids(0) = {} /\ \A k \in 1..n : Ids(k - 1) \cup {order[k]} = Ids(k)
    <3>1. Ids(0) = {}
      OBVIOUS
    <3>2. ASSUME NEW k \in 1..n PROVE Ids(k - 1) \cup {order[k]} = Ids(k)
      <4>1. \A i \in 1..k : i \in 1..(k - 1) \/ i = k
        OBVIOUS
      <4>2. \A i \in 1..(k - 1) : i \in 1..k
        OBVIOUS
      <4>3. k \in 1..k
        OBVIOUS
      <4> QED
        BY <4>1, <4>2, <4>3
    <3> QED
      BY <3>1, <3>2
  <2> HIDE DEF S
  <2>8. ASSUME S # {} PROVE FALSE
    <3>1. PICK m \in S : \A j \in S : m <= j
      BY <2>5, <2>8, Smallest
    <3>2. m \in 0..n /\ A[N + m] # Pruned(up, Ids(m))
      BY <2>6, <3>1
    <3> HIDE DEF Ids
    <3>3. m # 0
      <4>1. ASSUME m = 0 PROVE FALSE
        <5>1. A[N + 0] # Pruned(up, Ids(0)) /\ N + 0 = N
          BY <3>2, <4>1
        <5> QED
          BY <2>2, <2>4, <2>7, <5>1, PrunedNone
      <4> QED
        BY <4>1
    <3>4. m - 1 \in 0..n /\ m \in 1..n /\ ~(m <= m - 1)
      BY <3>2, <3>3
    <3>5. A[N + (m - 1)] = Pruned(up, Ids(m - 1))
      BY <2>5, <3>1, <3>4
    <3>6. A[N + m] = Replay(A[N + (m - 1)], longer[N + m])
      <4>1. N + m \in 1..(N + n) /\ (N + m) - 1 = N + (m - 1)
        BY <3>4
      <4> QED
        BY <2>3, <4>1
    <3>7. Replay(A[N + (m - 1)], longer[N + m]) = Pruned(A[N + (m - 1)], {order[m]})
      BY <1>6, <3>4 DEF Replay
    <3>8. Ids(m - 1) \cup {order[m]} = Ids(m)
      BY <2>7, <3>4
    <3>9. A[N + m] = Pruned(up, Ids(m - 1) \cup {order[m]})
      <4>1. Pruned(Pruned(up, Ids(m - 1)), {order[m]}) = Pruned(up, Ids(m - 1) \cup {order[m]})
        BY <2>4, PrunedTwice
      <4> QED
        BY <3>5, <3>6, <3>7, <4>1
    <3> QED
      BY <3>2, <3>8, <3>9
  <2>9. n \in 0..n /\ n \notin S
    BY <2>8
  <2>10. A[N + n] = Pruned(up, Ids(n))
    BY <2>5, <2>9
  <2> QED
    BY <2>1, <2>3, <2>10
<1>9. Ended(longer) = Ended(lines) \cup ids /\ Adrift(longer) = Adrift(lines)
  <2>1. GoesOn(lines, longer, N, N + n)
    BY <1>0, <1>3, <1>5 DEF GoesOn
  <2>2. \A i \in (N + 1)..(N + n) : i - N \in 1..n /\ N + (i - N) = i
    OBVIOUS
  <2>3. \A i \in (N + 1)..(N + n) : longer[i].op = "cancel" /\ longer[i].id = order[i - N]
    <3> TAKE i \in (N + 1)..(N + n)
    <3>1. PICK j \in 1..n : j = i - N /\ N + j = i
      BY <2>2
    <3> QED
      BY <1>6, <3>1
  <2>4. ids \in SUBSET Worker
    BY <1>3
  <2>5. ASSUME NEW w \in Worker
        PROVE  w \in ids <=> \E i \in (N + 1)..(N + n) : longer[i].op = "cancel" /\ longer[i].id = w
    <3>1. ASSUME w \in ids PROVE \E i \in (N + 1)..(N + n) : longer[i].op = "cancel" /\ longer[i].id = w
      <4>1. PICK i \in 1..n : order[i] = w
        BY <1>3, <3>1
      <4>2. N + i \in (N + 1)..(N + n) /\ longer[N + i].op = "cancel" /\ longer[N + i].id = w
        BY <1>6, <4>1
      <4> QED
        BY <4>2
    <3>2. ASSUME NEW i \in (N + 1)..(N + n), longer[i].id = w PROVE w \in ids
      BY <1>3, <2>2, <2>3, <3>2
    <3> QED
      BY <3>1, <3>2
  <2>6. \A i \in (N + 1)..(N + n) : longer[i].op # "spawn"
    BY <2>3
  <2> QED
    <3>1. PICK M \in Nat : M = N + n
      OBVIOUS
    <3>2. GoesOn(lines, longer, N, M) /\ AddsCancels(longer, N, M, ids)
      BY <2>1, <2>5, <2>6, <3>1 DEF AddsCancels
    <3> QED
      BY <2>4, <3>1, <3>2, NoSpawnAdds
<1>11. PendingIn(longer) = PendingIn(lines)
  <2>1. CASE \A i \in 1..N : lines[i].op = "cancel"
    <3>1. \A i \in 1..(N + n) : longer[i].op = "cancel"
      <4> TAKE i \in 1..(N + n)
      <4>1. CASE i \in 1..N
        BY <1>5, <2>1, <4>1
      <4>2. CASE i - N \in 1..n /\ N + (i - N) = i
        BY <1>6, <4>2
      <4> QED
        BY <1>7, <4>1, <4>2
    <3>2. PendingIn(longer) = Nil
      BY <1>3, <3>1, PendingIs
    <3>3. PendingIn(lines) = Nil
      BY <1>0, <2>1, PendingIs
    <3> QED
      BY <3>2, <3>3
  <2>2. CASE ~\A i \in 1..N : lines[i].op = "cancel"
    <3>1. PICK m \in 1..N :
            /\ lines[m].op # "cancel" /\ \A i \in 1..N : i > m => lines[i].op = "cancel"
            /\ PendingIn(lines) = IF lines[m].op \in {"spawn", "release"} THEN Nil ELSE lines[m]
      BY <1>0, <2>2, PendingIs
    <3>2. m \in 1..(N + n) /\ longer[m] = lines[m]
      BY <1>5
    <3>3. ~(\A i \in 1..(N + n) : longer[i].op = "cancel")
      BY <3>1, <3>2
    <3>4. PICK l \in 1..(N + n) :
            /\ longer[l].op # "cancel" /\ \A i \in 1..(N + n) : i > l => longer[i].op = "cancel"
            /\ PendingIn(longer) = IF longer[l].op \in {"spawn", "release"} THEN Nil ELSE longer[l]
      BY <1>3, <3>3, PendingIs
    <3>5. l \in 1..N
      <4>1. ASSUME l - N \in 1..n PROVE longer[N + (l - N)].op = "cancel"
        BY <1>6, <4>1
      <4> QED
        BY <1>7, <3>4, <4>1
    <3>6. ~(l > m) /\ ~(m > l)
      BY <1>5, <3>1, <3>2, <3>4, <3>5
    <3>7. l = m
      BY <3>1, <3>5, <3>6
    <3> QED
      BY <3>1, <3>2, <3>4, <3>7
  <2> QED
    BY <2>1, <2>2
<1> QED
  BY <1>3, <1>8, <1>9, <1>11

(* --------------------------- the tree and the tape --------------------------- *)

\* Whoever is in the tree hangs, over others that are, on the recorder; what hangs
\* under somebody that retires, retires.
Leads(up, leaving) ==
  /\ \A w \in Worker : up[w] # Nil => Root \in Above(up, w) /\ (up[w] # Root => up[up[w]] # Nil)
  /\ \A w \in Worker : up[w] # Nil /\ Above(up, w) \cap leaving # {} => w \in leaving

\* The tree of the tape: a worker of the recorder's tree hangs there where it does or was
\* taken away, and whoever else a chain leads to the recorder from came adrift or is
\* unsure.  Who was not set adrift has a way to the recorder, over workers of its tree.
Hangs(tree, up, ended, adrift, leaving, unsure) ==
  /\ ended \subseteq Worker
  /\ \A w \in Worker : w \in leaving /\ up[w] # Nil => Root \notin Above(tree, w)
  /\ \A w \in Worker : up[w] # Nil => tree[w] \in {Nil, up[w]}
  /\ \A w \in Worker : up[w] = Nil /\ Root \in Above(tree, w) => w \in unsure \/ w \in adrift
  /\ \A w \in Worker : up[w] # Nil /\ Above(up, w) \cap ended # {} => Root \notin Above(tree, w)
  /\ \A w \in Worker : up[w] # Nil /\ tree[w] = Nil => Above(up, w) \cap ended # {} \/ w \in leaving
  /\ \A w \in Worker : w \notin adrift /\ tree[w] \in Worker => up[tree[w]] # Nil /\ tree[w] \notin leaving
  /\ \A w \in Worker : w \notin adrift /\ tree[w] # Nil => Root \in Above(tree, w)

\* Everybody over a worker of the tree is in the tree.
LEMMA OverIsIn ==
  ASSUME NEW up \in Trees, NEW leaving, Leads(up, leaving), NEW w \in Worker, up[w] # Nil
  PROVE  /\ Root \in Above(up, w)
         /\ \A v \in Above(up, w) \ {Root} : v \in Worker /\ up[v] # Nil
<1>1. w \in Node /\ Root \in Above(up, w)
  BY DEF Leads, Node
<1>2. Above(up, w) \subseteq Node
  BY <1>1, SelfAbove
<1> QED
  BY <1>1, <1>2, AllRooted DEF Node

\* The chain on the tape is part of the chain of the tree, and all of it when it still
\* leads to the recorder.
LEMMA ChainsAgree ==
  ASSUME NEW tree \in Trees, NEW up \in Trees, NEW ended, NEW adrift, NEW leaving, NEW unsure,
         Leads(up, leaving), Hangs(tree, up, ended, adrift, leaving, unsure),
         NEW w \in Worker, up[w] # Nil
  PROVE  /\ Above(tree, w) \subseteq Above(up, w)
         /\ Root \in Above(tree, w) => Above(tree, w) = Above(up, w)
<1>1. w \in Node
  BY DEF Node
<1>2. \A v \in Above(up, w) \ {Root} : v \in Worker /\ up[v] # Nil /\ tree[v] \in {Nil, up[v]}
  BY OverIsIn DEF Hangs
<1>3. Above(tree, w) \subseteq Above(up, w)
  BY <1>1, <1>2, LessAbove
<1>4. ASSUME Root \in Above(tree, w) PROVE Above(tree, w) = Above(up, w)
  <2>1. \A v \in Above(tree, w) \ {Root} : tree[v] # Nil
    BY <1>1, <1>4, AllRooted
  <2>2. \A v \in Above(tree, w) \ {Root} : up[v] = tree[v]
    BY <1>2, <1>3, <2>1
  <2> QED
    BY <1>1, <2>2, SameAbove
<1> QED
  BY <1>3, <1>4

\* Somebody who is not in the tree is over nobody who is.
LEMMA OutIsNotOver ==
  ASSUME NEW up \in Trees, NEW leaving, Leads(up, leaving), NEW w \in Worker, up[w] # Nil,
         NEW v \in Worker, up[v] = Nil
  PROVE  v \notin Above(up, w)
BY OverIsIn, SeatsAssumption

\* Nobody who is not in the tree is over a worker on the tape, when that one is in the
\* tree or was not set adrift.
LEMMA OutIsNotOverTape ==
  ASSUME NEW tree \in Trees, NEW up \in Trees, NEW ended, NEW adrift, NEW leaving, NEW unsure,
         Leads(up, leaving), Hangs(tree, up, ended, adrift, leaving, unsure),
         NEW w \in Worker, up[w] # Nil \/ (w \notin adrift /\ tree[w] # Nil),
         NEW v \in Worker, up[v] = Nil, v # w
  PROVE  v \notin Above(tree, w)
<1>0. v # Root
  BY SeatsAssumption
<1>1. ASSUME NEW u \in Worker, up[u] # Nil PROVE v \notin Above(tree, u)
  BY <1>1, ChainsAgree, OutIsNotOver
<1>2. CASE up[w] # Nil
  BY <1>1, <1>2
<1>3. CASE w \notin adrift /\ tree[w] # Nil
  <2>1. Above(tree, w) = {w} \cup Above(tree, tree[w])
    BY <1>3, AboveStep
  <2>2. tree[w] \in Node
    BY <1>3 DEF Trees
  <2>3. CASE tree[w] = Root
    <3>1. Above(tree, tree[w]) = {Root}
      BY <2>2, <2>3, AboveStops
    <3> QED
      BY <1>0, <2>1, <3>1
  <2>4. CASE tree[w] # Root
    <3>1. tree[w] \in Worker
      BY <2>2, <2>4 DEF Node
    <3>2. up[tree[w]] # Nil
      BY <1>3, <3>1 DEF Hangs
    <3> QED
      BY <1>1, <2>1, <3>1, <3>2
  <2> QED
    BY <2>3, <2>4
<1> QED
  BY <1>2, <1>3

\* Somebody may be left out of the unsure who is in the tree or has no way to the recorder.
LEMMA SurerFits ==
  ASSUME NEW tree, NEW up, NEW ended, NEW adrift, NEW leaving, NEW unsure, NEW others,
         Hangs(tree, up, ended, adrift, leaving, unsure),
         \A w \in Worker : w \in unsure => w \in others \/ up[w] # Nil \/ Root \notin Above(tree, w)
  PROVE  Hangs(tree, up, ended, adrift, leaving, others)
BY DEF Hangs

\* next is the tree of the tape after the line that spawns w under p, and drifting who came
\* adrift by then.
SpawnsUnder(tree, next, w, p) == next = [tree EXCEPT ![w] = p]
Drifts(adrift, drifting, next, w) ==
  drifting = IF Root \in Above(next, w) THEN adrift \ {w} ELSE adrift \cup {w}

\* The line of a spawn: its worker is not in the tree yet.
LEMMA SpawnLineFits ==
  ASSUME NEW tree \in Trees, NEW up \in Trees, NEW ended, NEW adrift, NEW leaving, NEW unsure,
         Leads(up, leaving), Hangs(tree, up, ended, adrift, leaving, unsure),
         NEW w \in Worker, up[w] = Nil, leaving \subseteq {w},
         NEW p \in Node, p # Root => up[p] # Nil,
         NEW next, SpawnsUnder(tree, next, w, p),
         NEW drifting, Drifts(adrift, drifting, next, w)
  PROVE  /\ next \in Trees /\ next[w] = p
         /\ Leads(up, {}) /\ Hangs(next, up, ended \ {w}, drifting, {}, unsure \cup {w})
<1>1. next \in Trees /\ next[w] = p /\ \A v \in Worker : v # w => next[v] = tree[v]
  BY DEF SpawnsUnder, Trees
<1>2. w \in Node /\ w # Root /\ p # Nil /\ p # w
  BY SeatsAssumption DEF Node
<1>3. Leads(up, {})
  BY DEF Leads
<1>4. ASSUME NEW v \in Worker, up[v] # Nil \/ (v \notin adrift /\ tree[v] # Nil), v # w
      PROVE  w \notin Above(tree, v) /\ Above(next, v) = Above(tree, v)
  <2>1. w \notin Above(tree, v) /\ v \in Node
    BY <1>4, OutIsNotOverTape DEF Node
  <2>2. \A u \in Above(tree, v) \ {Root} : u \in Worker /\ u # w
    BY <2>1, SelfAbove DEF Node
  <2>3. \A u \in Above(tree, v) \ {Root} : next[u] = tree[u]
    BY <1>1, <2>2
  <2> QED
    BY <1>1, <2>1, <2>3, SameAbove
<1>5. \A v \in Worker : up[v] # Nil => v # w /\ w \notin Above(up, v)
  BY OutIsNotOver
<1>6. \A v \in Worker : v # w => (v \in drifting <=> v \in adrift)
  BY DEF Drifts
<1>7. \A v \in Worker : up[v] # Nil => next[v] \in {Nil, up[v]}
  BY <1>1, <1>5 DEF Hangs
<1>8. ASSUME NEW v \in Worker, up[v] = Nil, Root \in Above(next, v) PROVE v \in unsure \cup {w} \/ v \in drifting
  <2>1. CASE v = w
    BY <2>1
  <2>2. CASE v # w /\ v \notin adrift /\ tree[v] # Nil
    <3>1. Root \in Above(tree, v)
      BY <1>4, <1>8, <2>2
    <3> QED
      BY <1>6, <1>8, <2>2, <3>1 DEF Hangs
  <2>3. CASE v # w /\ tree[v] = Nil
    <3>1. next[v] = Nil /\ v \in Node /\ v # Root
      BY <1>1, <2>3, SeatsAssumption DEF Node
    <3>2. Above(next, v) = {v}
      BY <3>1, AboveStops
    <3> QED
      BY <1>8, <3>1, <3>2
  <2> QED
    BY <1>6, <2>1, <2>2, <2>3
<1>9. ASSUME NEW v \in Worker, up[v] # Nil, Above(up, v) \cap (ended \ {w}) # {} PROVE Root \notin Above(next, v)
  <2>1. Root \notin Above(tree, v)
    BY <1>9 DEF Hangs
  <2> QED
    BY <1>4, <1>5, <1>9, <2>1
<1>10. ASSUME NEW v \in Worker, up[v] # Nil, next[v] = Nil PROVE Above(up, v) \cap (ended \ {w}) # {}
  <2>1. v # w /\ v \notin leaving /\ tree[v] = Nil
    BY <1>1, <1>5, <1>10
  <2>2. Above(up, v) \cap ended # {}
    BY <1>10, <2>1 DEF Hangs
  <2> QED
    BY <1>5, <1>10, <2>2
<1>11. ASSUME NEW v \in Worker, v \notin drifting, next[v] \in Worker PROVE up[next[v]] # Nil
  <2>1. CASE v = w
    BY <1>1, <1>11, <2>1, SeatsAssumption
  <2>2. CASE v # w
    BY <1>1, <1>6, <1>11, <2>2 DEF Hangs
  <2> QED
    BY <2>1, <2>2
<1>12. ASSUME NEW v \in Worker, v \notin drifting, next[v] # Nil PROVE Root \in Above(next, v)
  <2>1. CASE v = w
    BY <1>12, <2>1 DEF Drifts
  <2>2. CASE v # w
    <3>1. v \notin adrift /\ tree[v] # Nil
      BY <1>1, <1>6, <1>12, <2>2
    <3>2. Root \in Above(tree, v)
      BY <3>1 DEF Hangs
    <3> QED
      BY <1>4, <2>2, <3>1, <3>2
  <2> QED
    BY <2>1, <2>2
<1>13. ended \ {w} \subseteq Worker
  BY DEF Hangs
<1> QED
  BY <1>1, <1>3, <1>7, <1>8, <1>9, <1>10, <1>11, <1>12, <1>13 DEF Hangs

\* more is the tree up with w mounted under p.
Mounts(up, more, w, p) ==
  more \in Trees /\ more[w] = p /\ \A v \in Worker : v # w => more[v] = up[v]

\* A worker whose spawn is on the tape is in the tree.
LEMMA MountFits ==
  ASSUME NEW tree \in Trees, NEW up \in Trees, NEW ended, NEW adrift, NEW unsure,
         NEW w \in Worker, up[w] = Nil, w \notin ended,
         Leads(up, {}), Hangs(tree, up, ended, adrift, {}, unsure \cup {w}),
         NEW p \in Node, p # Root => up[p] # Nil, tree[w] = p,
         NEW more, Mounts(up, more, w, p)
  PROVE  Leads(more, {}) /\ Hangs(tree, more, ended, adrift, {}, unsure)
<1>1. more \in Trees /\ more[w] = p /\ \A v \in Worker : v # w => more[v] = up[v]
  BY DEF Mounts
<1>2. p # Nil /\ p # w /\ w # Root
  BY SeatsAssumption DEF Node
<1>3. ASSUME NEW v \in Worker, v # w, up[v] # Nil
      PROVE  w \notin Above(up, v) /\ Above(more, v) = Above(up, v)
  <2>1. w \notin Above(up, v)
    BY <1>3, OutIsNotOver
  <2>2. \A u \in Above(up, v) \ {Root} : more[u] = up[u]
    BY <1>1, <1>3, <2>1, OverIsIn
  <2> QED
    BY <1>1, <2>1, <2>2, SameAbove DEF Node
<1>4. Above(more, p) = Above(up, p) /\ Root \in Above(more, p)
  <2>1. CASE p = Root
    <3>1. Above(more, p) = {p} /\ Above(up, p) = {p}
      BY <2>1, AboveStops
    <3> QED
      BY <2>1, <3>1
  <2>2. CASE p # Root
    <3>1. p \in Worker /\ up[p] # Nil
      BY <2>2 DEF Node
    <3> QED
      BY <1>2, <1>3, <3>1, OverIsIn
  <2> QED
    BY <2>1, <2>2
<1>5. Above(more, w) = {w} \cup Above(up, p) /\ Above(tree, w) = {w} \cup Above(tree, p)
  BY <1>1, <1>2, <1>4, AboveStep
<1>6. Leads(more, {})
  <2>1. ASSUME NEW v \in Worker, more[v] # Nil
        PROVE  Root \in Above(more, v) /\ (more[v] # Root => more[more[v]] # Nil)
    <3>1. CASE v = w
      BY <1>1, <1>2, <1>4, <1>5, <3>1 DEF Node
    <3>2. CASE v # w
      <4>1. up[v] # Nil /\ more[v] = up[v]
        BY <1>1, <2>1, <3>2
      <4>2. Root \in Above(up, v) /\ (up[v] # Root => up[up[v]] # Nil /\ up[v] \in Worker)
        BY <4>1 DEF Leads, Trees, Node
      <4> QED
        BY <1>1, <1>2, <1>3, <3>2, <4>1, <4>2
    <3> QED
      BY <3>1, <3>2
  <2> QED
    BY <2>1 DEF Leads
<1>7. \A v \in Worker : more[v] # Nil => tree[v] \in {Nil, more[v]}
  BY <1>1 DEF Hangs
<1>8. \A v \in Worker : more[v] = Nil /\ Root \in Above(tree, v) => v \in unsure \/ v \in adrift
  BY <1>1, <1>2 DEF Hangs
<1>9. ASSUME NEW v \in Worker, more[v] # Nil, Above(more, v) \cap ended # {} PROVE Root \notin Above(tree, v)
  <2>1. CASE v # w
    BY <1>1, <1>3, <1>9, <2>1 DEF Hangs
  <2>2. CASE v = w
    <3>1. Above(up, p) \cap ended # {}
      BY <1>5, <1>9, <2>2
    <3>2. p # Root
      <4>1. ASSUME p = Root PROVE FALSE
        <5>1. Above(up, p) = {Root}
          BY <4>1, AboveStops
        <5>2. Root \in Worker
          BY <3>1, <5>1 DEF Hangs
        <5> QED
          BY <5>2, SeatsAssumption
      <4> QED
        BY <4>1
    <3>3. p \in Worker /\ up[p] # Nil
      BY <3>2 DEF Node
    <3>4. Root \notin Above(tree, p)
      BY <3>1, <3>3 DEF Hangs
    <3> QED
      BY <1>2, <1>5, <2>2, <3>4
  <2> QED
    BY <2>1, <2>2
<1>10. ASSUME NEW v \in Worker, more[v] # Nil, tree[v] = Nil PROVE Above(more, v) \cap ended # {}
  BY <1>1, <1>2, <1>3, <1>10 DEF Hangs
<1>11. \A v \in Worker : v \notin adrift /\ tree[v] \in Worker => more[tree[v]] # Nil
  BY <1>1, <1>2 DEF Hangs
<1>12. Hangs(tree, more, ended, adrift, {}, unsure)
  BY <1>7, <1>8, <1>9, <1>10, <1>11 DEF Hangs
<1> QED
  BY <1>6, <1>12

\* Seats are dropped, with what hangs under them, that retire.
LEMMA UnmountFits ==
  ASSUME NEW tree \in Trees, NEW up \in Trees, NEW ended, NEW adrift, NEW leaving, NEW unsure,
         Leads(up, leaving), Hangs(tree, up, ended, adrift, leaving, unsure),
         NEW ids,
         \A w \in Worker : up[w] # Nil /\ Above(up, w) \cap ids # {} => w \in leaving
  PROVE  LET less == Pruned(up, ids) IN
         /\ less \in Trees
         /\ Leads(less, leaving) /\ Hangs(tree, less, ended, adrift, leaving, unsure)
<1> DEFINE less == Pruned(up, ids)
<1>1. less \in Trees /\ \A v \in Worker : less[v] = IF Above(up, v) \cap ids # {} THEN Nil ELSE up[v]
  BY PrunedTyped
<1>2. ASSUME NEW v \in Worker, less[v] # Nil
      PROVE  less[v] = up[v] /\ up[v] # Nil /\ Above(up, v) \cap ids = {} /\ Above(less, v) = Above(up, v)
  <2>1. less[v] = up[v] /\ up[v] # Nil /\ Above(up, v) \cap ids = {}
    BY <1>1, <1>2
  <2> QED
    BY <2>1, PrunedAbove DEF Node
<1> HIDE DEF less
<1>3. Leads(less, leaving)
  <2>1. ASSUME NEW v \in Worker, less[v] # Nil, less[v] # Root PROVE less[less[v]] # Nil
    <3>1. up[v] \in Worker /\ up[up[v]] # Nil /\ Above(up, v) \cap ids = {}
      BY <1>2, <2>1 DEF Leads, Trees, Node
    <3>2. Above(up, up[v]) \subseteq Above(up, v)
      BY <1>2, <2>1, AboveStep
    <3> QED
      BY <1>1, <1>2, <2>1, <3>1, <3>2
  <2> QED
    BY <1>2, <2>1 DEF Leads
<1>4. Hangs(tree, less, ended, adrift, leaving, unsure)
  <2>1. ASSUME NEW w \in Worker, less[w] = Nil, Root \in Above(tree, w) PROVE w \in unsure \/ w \in adrift
    BY <1>1, <2>1 DEF Hangs
  <2>2. ASSUME NEW w \in Worker, w \notin adrift, tree[w] \in Worker
        PROVE  less[tree[w]] # Nil /\ tree[w] \notin leaving
    BY <1>1, <2>2 DEF Hangs
  <2>3. \A w \in Worker : less[w] # Nil => tree[w] \in {Nil, less[w]}
    BY <1>2 DEF Hangs
  <2>4. \A w \in Worker : w \in leaving /\ less[w] # Nil => Root \notin Above(tree, w)
    BY <1>2 DEF Hangs
  <2>5. \A w \in Worker : less[w] # Nil /\ Above(less, w) \cap ended # {} => Root \notin Above(tree, w)
    BY <1>2 DEF Hangs
  <2>6. \A w \in Worker : less[w] # Nil /\ tree[w] = Nil => Above(less, w) \cap ended # {} \/ w \in leaving
    BY <1>2 DEF Hangs
  <2> QED
    BY <2>1, <2>2, <2>3, <2>4, <2>5, <2>6 DEF Hangs
<1> QED
  BY <1>1, <1>3, <1>4 DEF less

\* A line that takes ids off the tape.
LEMMA TakeOffFits ==
  ASSUME NEW tree \in Trees, NEW up \in Trees, NEW ended, NEW adrift, NEW leaving, NEW unsure,
         Leads(up, leaving), Hangs(tree, up, ended, adrift, leaving, unsure),
         NEW ids, NEW ends \in SUBSET Worker, NEW retire,
         ended \subseteq ends, ends \subseteq ended \cup ids,
         \A w \in Worker : up[w] # Nil /\ Above(up, w) \cap ids # {} =>
           Above(up, w) \cap ends # {} \/ w \in retire,
         \A w \in Worker : up[w] # Nil /\ w \in leaving => w \in retire,
         \A w \in Worker : up[w] # Nil /\ w \in retire => w \in leaving \/ Above(up, w) \cap ids # {}
  PROVE  LET next == Pruned(tree, ids) IN
         /\ next \in Trees
         /\ Hangs(next, up, ends, adrift, retire, unsure)
<1> DEFINE next == Pruned(tree, ids)
<1>1. next \in Trees /\ \A v \in Worker : next[v] = IF Above(tree, v) \cap ids # {} THEN Nil ELSE tree[v]
  BY PrunedTyped
<1>2. \A w \in Worker : Root \in Above(next, w) => Above(tree, w) \cap ids = {} /\ Root \in Above(tree, w)
  BY PrunedAbove DEF Node
<1>3. \A w \in Worker : Above(tree, w) \cap ids = {} => Above(next, w) = Above(tree, w)
  BY PrunedAbove DEF Node
<1> HIDE DEF next
<1>4. ASSUME NEW w \in Worker, up[w] # Nil, Above(up, w) \cap ids # {} PROVE Root \notin Above(next, w)
  <2>1. ASSUME Root \in Above(next, w) PROVE FALSE
    <3>1. Above(tree, w) = Above(up, w)
      BY <1>2, <1>4, <2>1, ChainsAgree
    <3> QED
      BY <1>2, <1>4, <2>1, <3>1
  <2> QED
    BY <2>1
<1>5. \A w \in Worker : next[w] # Nil => next[w] = tree[w] /\ Above(tree, w) \cap ids = {}
  BY <1>1
<1>6. ASSUME NEW w \in Worker, w \in retire, up[w] # Nil PROVE Root \notin Above(next, w)
  <2>1. CASE w \in leaving
    BY <1>2, <1>6, <2>1 DEF Hangs
  <2>2. CASE Above(up, w) \cap ids # {}
    BY <1>4, <1>6, <2>2
  <2> QED
    BY <1>6, <2>1, <2>2
<1>7. \A w \in Worker : up[w] = Nil /\ Root \in Above(next, w) => w \in unsure \/ w \in adrift
  BY <1>2 DEF Hangs
<1>8. ASSUME NEW w \in Worker, up[w] # Nil, Above(up, w) \cap ends # {} PROVE Root \notin Above(next, w)
  <2>1. CASE Above(up, w) \cap ended # {}
    BY <1>2, <1>8, <2>1 DEF Hangs
  <2>2. CASE Above(up, w) \cap ids # {}
    BY <1>4, <1>8, <2>2
  <2> QED
    BY <1>8, <2>1, <2>2
<1>9. ASSUME NEW w \in Worker, up[w] # Nil, next[w] = Nil
      PROVE  Above(up, w) \cap ends # {} \/ w \in retire
  <2>1. CASE tree[w] = Nil
    BY <1>9, <2>1 DEF Hangs
  <2>2. CASE tree[w] # Nil
    <3>1. Above(tree, w) \cap ids # {}
      BY <1>1, <1>9, <2>2
    <3>2. Above(tree, w) \subseteq Above(up, w)
      BY <1>9, ChainsAgree
    <3> QED
      BY <1>9, <3>1, <3>2
  <2> QED
    BY <2>1, <2>2
<1>10. \A w \in Worker : up[w] # Nil => next[w] \in {Nil, up[w]}
  BY <1>5 DEF Hangs
<1>11. ASSUME NEW w \in Worker, w \notin adrift, next[w] # Nil
       PROVE  Root \in Above(next, w) /\ Root \in Above(tree, w) /\ Above(tree, w) \cap ids = {}
  <2>1. tree[w] # Nil /\ Above(tree, w) \cap ids = {}
    BY <1>5, <1>11
  <2>2. Root \in Above(tree, w)
    BY <1>11, <2>1 DEF Hangs
  <2> QED
    BY <1>3, <2>1, <2>2
<1>12. ASSUME NEW w \in Worker, w \notin adrift, next[w] \in Worker
       PROVE  up[next[w]] # Nil /\ next[w] \notin retire
  <2>0. next[w] # Nil
    BY <1>12, SeatsAssumption DEF Node
  <2>1. PICK u \in Worker : u = tree[w] /\ next[w] = u
    BY <1>5, <1>12, <2>0
  <2>2. up[u] # Nil /\ u \notin leaving
    BY <1>12, <2>1 DEF Hangs
  <2>3. Above(tree, w) = {w} \cup Above(tree, u)
    BY <1>5, <2>0, <2>1, AboveStep
  <2>4. w # Root
    BY SeatsAssumption
  <2>5. Root \in Above(tree, u) /\ Above(tree, u) \cap ids = {}
    BY <1>11, <1>12, <2>0, <2>3, <2>4
  <2>6. Above(up, u) \cap ids = {}
    BY <2>2, <2>5, ChainsAgree
  <2>7. u \notin retire
    BY <2>2, <2>6
  <2> QED
    BY <2>1, <2>2, <2>7
<1>13. Hangs(next, up, ends, adrift, retire, unsure)
  BY <1>6, <1>7, <1>8, <1>9, <1>10, <1>11, <1>12 DEF Hangs
<1> QED
  BY <1>1, <1>13 DEF next

(* ------------------------- the inductive invariant ------------------------ *)

EndedNow == Ended(journal)
AdriftNow == Adrift(journal)

Spawning == call # Nil /\ call.op = "spawn"
Releasing == call # Nil /\ call.op = "release"

\* The worker that is being spawned: from the start, until the tape has it, once it is
\* announced, and while its spawn is taken back.
Starting == IF Spawning THEN {call.id} ELSE {}
Early == IF Spawning /\ call.at \in {"announce", "register", "record", "unwind", "unwound"} THEN {call.id} ELSE {}
Late == IF Spawning /\ call.at # "announce" THEN {call.id} ELSE {}
Unwinding == IF Spawning /\ call.at \in {"unwind", "unwound"} THEN {call.id} ELSE {}

\* Those whose rights a release has revoked.
Revoked == IF Releasing /\ call.at # "revoke" THEN call.ids ELSE {}

\* The recorder's tree without the worker the tape has no spawn of yet.
Hung == [w \in Worker |-> IF w \in Early THEN Nil ELSE parent[w]]

\* Whose last line on the tape their caller knows nothing of.
Unsure == owed \cup Unwinding

TapeFits ==
  /\ Pending # Nil => Pending.id \in Pending.workers
  /\ Leads(Hung, Retiring)
  /\ Hangs(Rebuilt, Hung, EndedNow, AdriftNow, Retiring, Unsure)

\* The tree: the seats are in it, and who is being spawned.
SeatsFit ==
  /\ \A w \in seats : parent[w] # Nil
  /\ \A w \in Worker : parent[w] # Nil => w \in seats \cup Starting

\* What the recorder keeps of its workers.
RightsFit ==
  /\ \A w \in seats \ Revoked : w \in flagged /\ bound[w] # Nil
  /\ flagged \subseteq seats \cup Starting
  /\ \A w \in Worker : bound[w] # Nil => w \in seats \cup Starting
  /\ \A w \in Worker : parent[w] \in Worker /\ bound[w] # Nil =>
       bound[parent[w]] # Nil /\ bound[w] \subseteq bound[parent[w]]

LeasesFit == \A w \in Worker : lease[w] # {} => w \in lease[w] /\ w \in flagged \cup raised

WorkspacesFit == wp \subseteq seats \cup Retiring \cup owed \cup Late

\* How far a spawn is.
SpawnFits ==
  Spawning =>
    /\ parent[call.id] = call.parent /\ call.parent \in Node /\ call.id \notin seats
    /\ \A w \in Worker : parent[w] # call.id
    /\ call.parent # Root => bound[call.parent] # Nil /\ call.charter \subseteq bound[call.parent]
    /\ Retiring \subseteq {call.id}
    /\ call.at \in {"announce", "charter", "flag", "seat"} => Pending = Nil
    /\ call.at = "unwound" => call.id \notin wp
    /\ call.at \in {"announce", "register", "record", "unwind", "unwound"} =>
         bound[call.id] = Nil /\ call.id \notin flagged
    /\ call.at \in {"flag", "seat"} => bound[call.id] # Nil
    /\ call.at = "seat" => call.id \in flagged

\* How far a release is.
ReleaseFits ==
  Releasing =>
    /\ Pending # Nil /\ call.ids = Pending.workers /\ call.id \in call.ids
    /\ call.at = "unseat" => call.ids \cap flagged = {} /\ \A w \in call.ids : bound[w] = Nil
    /\ call.at \in {"abandon", "done"} => \A w \in call.ids : parent[w] = Nil
    /\ call.at = "done" => call.ids \cap wp = {}

SeatsInv ==
  /\ SeatsTypeOK /\ TapeFits /\ SeatsFit /\ RightsFit /\ LeasesFit /\ WorkspacesFit
  /\ SpawnFits /\ ReleaseFits

LEMMA PendingTyped ==
  ASSUME NEW lines \in Seq(SeatLine), PendingIn(lines) # Nil
  PROVE  PendingIn(lines).id \in Worker /\ PendingIn(lines).workers \in SUBSET Worker
<1>1. PICK m \in 1..Len(lines) : lines[m].op # "cancel"
        /\ PendingIn(lines) = IF lines[m].op \in {"spawn", "release"} THEN Nil ELSE lines[m]
  BY PendingIs
<1>2. PICK line \in SeatLine : line = lines[m]
  BY ElementOfSeq
<1>3. line.op \notin {"spawn", "release", "cancel"} /\ PendingIn(lines) = line
  BY <1>1, <1>2
<1>4. line \in [op : {"spawn_pending", "release_pending"}, id : Worker, workers : SUBSET Worker]
  BY <1>3 DEF SeatLine
<1> QED
  BY <1>3, <1>4

\* What the types of the variables say of what is read off them.
LEMMA ReadsTyped ==
  ASSUME SeatsTypeOK
  PROVE  /\ parent \in Trees /\ Rebuilt \in Trees /\ Hung \in Trees
         /\ \A w \in Worker : Hung[w] = IF w \in Early THEN Nil ELSE parent[w]
         /\ EndedNow \subseteq Worker /\ Retiring \subseteq Worker
         /\ Pending # Nil => Pending.id \in Worker /\ Pending.workers \in SUBSET Worker
         /\ call # Nil => call \in Call
<1>1. journal \in Seq(SeatLine) /\ parent \in Trees /\ (call # Nil => call \in Call)
  BY DEF SeatsTypeOK, Trees
<1>2. Pending # Nil => Pending.id \in Worker /\ Pending.workers \in SUBSET Worker
  BY <1>1, PendingTyped DEF Pending
<1>3. Rebuilt \in Trees
  BY <1>1, ReplayedTyped DEF Rebuilt
<1>4. Hung \in Trees /\ \A w \in Worker : Hung[w] = IF w \in Early THEN Nil ELSE parent[w]
  BY <1>1 DEF Hung, Trees
<1>5. EndedNow \subseteq Worker
  BY DEF EndedNow, Ended
<1> QED
  BY <1>1, <1>2, <1>3, <1>4, <1>5 DEF Retiring

\* A step that leaves the tape alone.
LEMMA TapeKept ==
  ASSUME journal' = journal
  PROVE  /\ EndedNow' = EndedNow /\ AdriftNow' = AdriftNow /\ Rebuilt' = Rebuilt /\ Pending' = Pending
         /\ Retiring' = Retiring
BY DEF EndedNow, AdriftNow, Rebuilt, Pending, Retiring

LEMMA TapeStays ==
  ASSUME SeatsTypeOK, TapeFits, journal' = journal, Hung' = Hung,
         \A w \in Worker : w \in Unsure => w \in Unsure' \/ Hung[w] # Nil \/ Root \notin Above(Rebuilt, w)
  PROVE  Pending' = Pending /\ Retiring' = Retiring /\ TapeFits'
<1>1. /\ EndedNow' = EndedNow /\ AdriftNow' = AdriftNow /\ Rebuilt' = Rebuilt /\ Pending' = Pending
      /\ Retiring' = Retiring
  BY TapeKept
<1>2. PICK others : others = Unsure'
  OBVIOUS
<1>3. Leads(Hung, Retiring) /\ Hangs(Rebuilt, Hung, EndedNow, AdriftNow, Retiring, Unsure)
  BY DEF TapeFits
<1>4. Hangs(Rebuilt, Hung, EndedNow, AdriftNow, Retiring, others)
  BY <1>2, <1>3, SurerFits
<1>5. Hangs(Rebuilt', Hung', EndedNow', AdriftNow', Retiring', Unsure') /\ Leads(Hung', Retiring')
  BY <1>1, <1>2, <1>3, <1>4
<1> QED
  BY <1>1, <1>5 DEF TapeFits

\* A line more on the tape.
LEMMA TapeGrows ==
  ASSUME SeatsTypeOK, NEW line \in SeatLine, journal' = Append(journal, line)
  PROVE  /\ Rebuilt' = Replay(Rebuilt, line)
         /\ line.op = "spawn" => EndedNow' = EndedNow \ {line.id}
         /\ line.op = "cancel" => EndedNow' = EndedNow \cup {line.id}
         /\ line.op \notin {"spawn", "cancel"} => EndedNow' = EndedNow
         /\ AdriftNow' = IF line.op # "spawn" THEN AdriftNow
                         ELSE IF Root \in Above(Rebuilt', line.id) THEN AdriftNow \ {line.id}
                         ELSE AdriftNow \cup {line.id}
         /\ Pending' = IF line.op = "cancel" THEN Pending
                       ELSE IF line.op \in {"spawn", "release"} THEN Nil ELSE line
<1>1. journal \in Seq(SeatLine)
  BY DEF SeatsTypeOK
<1>2. PICK lines : lines = journal' /\ lines = Append(journal, line)
  OBVIOUS
<1>3. /\ TreeOf(lines) = Replay(TreeOf(journal), line)
      /\ Ended(lines) = CASE line.op = "spawn" -> Ended(journal) \ {line.id}
                          [] line.op = "cancel" -> Ended(journal) \cup {line.id}
                          [] OTHER -> Ended(journal)
      /\ Adrift(lines) = IF line.op # "spawn" THEN Adrift(journal)
                         ELSE IF Root \in Above(TreeOf(lines), line.id) THEN Adrift(journal) \ {line.id}
                         ELSE Adrift(journal) \cup {line.id}
      /\ PendingIn(lines) =
           IF line.op = "cancel" THEN PendingIn(journal)
           ELSE IF line.op \in {"spawn", "release"} THEN Nil ELSE line
  BY <1>1, <1>2, LineAdds
<1>4. /\ line.op = "spawn" => Ended(lines) = Ended(journal) \ {line.id}
      /\ line.op = "cancel" => Ended(lines) = Ended(journal) \cup {line.id}
      /\ line.op \notin {"spawn", "cancel"} => Ended(lines) = Ended(journal)
  BY <1>3
<1> QED
  BY <1>2, <1>3, <1>4 DEF Rebuilt, EndedNow, AdriftNow, Pending

\* A step that takes ids off the tape.
LEMMA TakenOff ==
  ASSUME SeatsTypeOK, TapeFits, Hung' = Hung, NEW ids, NEW ends \in SUBSET Worker, NEW retire,
         Rebuilt' = Pruned(Rebuilt, ids), EndedNow' = ends, AdriftNow' = AdriftNow, Retiring' = retire,
         EndedNow \subseteq ends, ends \subseteq EndedNow \cup ids,
         \A w \in Worker : Hung[w] # Nil /\ Above(Hung, w) \cap ids # {} =>
           Above(Hung, w) \cap ends # {} \/ w \in retire,
         \A w \in Worker : Hung[w] # Nil /\ w \in Retiring => w \in retire,
         \A w \in Worker : Hung[w] # Nil /\ w \in retire => w \in Retiring \/ Above(Hung, w) \cap ids # {},
         \A w \in Worker : w \in Unsure => w \in Unsure' \/ w \in ids,
         Leads(Hung, retire), Pending' # Nil => Pending'.id \in Pending'.workers
  PROVE  TapeFits'
<1>1. Rebuilt \in Trees /\ Hung \in Trees
  BY ReadsTyped
<1>2. Leads(Hung, Retiring) /\ Hangs(Rebuilt, Hung, EndedNow, AdriftNow, Retiring, Unsure)
  BY DEF TapeFits
<1>3. PICK next, others : next = Pruned(Rebuilt, ids) /\ others = Unsure'
  OBVIOUS
<1>4. Hangs(next, Hung, ends, AdriftNow, retire, Unsure)
  BY <1>1, <1>2, <1>3, TakeOffFits
<1>5. ASSUME NEW w \in Worker, w \in ids PROVE Root \notin Above(next, w)
  <2>1. w \in Node /\ w \in Above(Rebuilt, w)
    BY SelfAbove DEF Node
  <2> QED
    BY <1>1, <1>3, <1>5, <2>1, PrunedAbove
<1>6. \A w \in Worker : w \in Unsure => w \in others \/ Hung[w] # Nil \/ Root \notin Above(next, w)
  BY <1>3, <1>5
<1>7. Hangs(next, Hung, ends, AdriftNow, retire, others)
  BY <1>4, <1>6, SurerFits
<1>8. Hangs(Rebuilt', Hung', EndedNow', AdriftNow', Retiring', Unsure') /\ Leads(Hung', Retiring')
  BY <1>3, <1>7
<1> QED
  BY <1>8 DEF TapeFits

(* ----------------------------------- types ---------------------------------- *)

LEMMA FailuresTyped ==
  ASSUME failures \in 0..MaxFailures, LineFails
  PROVE  failures' \in 0..MaxFailures
BY SeatsAssumption DEF LineFails

\* A line that was appended, or lost.
LEMMA LineTyped ==
  ASSUME SeatsTypeOK, NEW line \in SeatLine, Taped(line) \/ TapedOrLost(line)
  PROVE  /\ journal' \in Seq(SeatLine) /\ failures' \in 0..MaxFailures
         /\ journal' = journal \/ journal' = Append(journal, line)
<1>1. journal \in Seq(SeatLine) /\ failures \in 0..MaxFailures
  BY DEF SeatsTypeOK
<1>2. Append(journal, line) \in Seq(SeatLine)
  BY <1>1, LineAdds
<1> QED
  BY <1>1, <1>2, FailuresTyped DEF Taped, TapedOrLost

LEMMA CallTyped ==
  ASSUME SeatsTypeOK, call # Nil
  PROVE  /\ call \in Call /\ call.id \in Worker /\ call.ids \in SUBSET Worker
         /\ call.parent \in Node \cup {Nil} /\ call.charter \in Charter
BY DEF SeatsTypeOK, Call

LEMMA CallGoesOn ==
  ASSUME SeatsTypeOK, call # Nil,
         NEW at \in {"register", "record", "unwind", "unwound", "charter", "flag", "seat",
                     "revoke", "unseat", "abandon", "done"}, Goto(at)
  PROVE  /\ call' \in Call /\ call' # Nil
         /\ call'.op = call.op /\ call'.at = at /\ call'.id = call.id /\ call'.ids = call.ids
         /\ call'.parent = call.parent /\ call'.charter = call.charter
BY CallTyped, SeatsAssumption DEF Goto, Call

LEMMA UnmountTyped ==
  ASSUME SeatsTypeOK, NEW ids, Unmount(ids)
  PROVE  parent' \in [Worker -> Node \cup {Nil}]
BY ReadsTyped, PrunedTyped DEF Unmount, Trees

LEMMA LeftTyped ==
  ASSUME SeatsTypeOK, call # Nil, LeftToRelease
  PROVE  parent' \in [Worker -> Node \cup {Nil}] /\ call' = Nil /\ owed' \subseteq Worker
BY CallTyped, UnmountTyped DEF LeftToRelease, SeatsTypeOK

LEMMA TypedSpawnBegins ==
  ASSUME SeatsTypeOK, NEW w \in Worker, NEW up \in Worker \cup {Root}, NEW charter \in Charter, NEW lite \in BOOLEAN,
         SpawnBegins(w, up, charter, lite)
  PROVE  SeatsTypeOK'
<1>1. call' \in Call
  <2>1. [op |-> "spawn", at |-> "announce", id |-> w, ids |-> {w}, parent |-> up, charter |-> charter, lite |-> lite] \in Call
    BY DEF Call, Node
  <2> QED
    BY <2>1 DEF SpawnBegins
<1>2. UNCHANGED <<journal, seats, bound, flagged, raised, lease, wp, owed, cancelling, failures>>
  BY DEF SpawnBegins
<1>3. parent' \in [Worker -> Node \cup {Nil}]
  BY DEF SpawnBegins, SeatsTypeOK, Node
<1> QED
  BY <1>1, <1>2, <1>3 DEF SeatsTypeOK

LEMMA TypedSpawn ==
  ASSUME SeatsTypeOK, SpawnFits,
         SpawnAnnounces \/ SpawnRegisters \/ SpawnRecords \/ SpawnUnwinds \/ SpawnUnwound
         \/ SpawnCharters \/ SpawnFlags \/ SpawnSeats
  PROVE  SeatsTypeOK'
<1>1. call # Nil /\ call.op = "spawn"
  BY DEF SpawnAnnounces, SpawnRegisters, SpawnRecords, SpawnUnwinds, SpawnUnwound, SpawnCharters, SpawnFlags,
         SpawnSeats, Doing
<1>2. call \in Call /\ call.id \in Worker /\ call.charter \in Charter /\ call.parent \in Node
  BY <1>1, CallTyped DEF SpawnFits, Spawning
<1> DEFINE announced == [op |-> "spawn_pending", id |-> call.id, workers |-> {call.id}]
           released == [op |-> "release", id |-> call.id]
           begun == [op |-> "spawn", id |-> call.id, parent |-> call.parent]
<1>3. announced \in SeatLine /\ released \in SeatLine /\ begun \in SeatLine
  BY <1>2 DEF SeatLine
<1>4. CASE SpawnAnnounces
  <2>1. Taped(announced) \/ TapedOrLost(announced)
    BY <1>4 DEF SpawnAnnounces
  <2>2. journal' \in Seq(SeatLine) /\ failures' \in 0..MaxFailures
    BY <1>3, <2>1, LineTyped
  <2>3. call' \in Call \cup {Nil}
    BY <1>1, <1>4, CallGoesOn DEF SpawnAnnounces
  <2>4. parent' \in [Worker -> Node \cup {Nil}]
    BY <1>4, UnmountTyped DEF SpawnAnnounces, SeatsTypeOK
  <2> QED
    BY <1>4, <2>2, <2>3, <2>4 DEF SpawnAnnounces, SeatsTypeOK
<1>5. CASE SpawnRegisters
  <2>1. call' \in Call \cup {Nil} /\ parent' \in [Worker -> Node \cup {Nil}] /\ owed' \subseteq Worker
    BY <1>1, <1>5, CallGoesOn, LeftTyped DEF SpawnRegisters, SeatsTypeOK
  <2>2. failures' \in 0..MaxFailures
    BY <1>5, FailuresTyped DEF SpawnRegisters, SeatsTypeOK
  <2> QED
    BY <1>2, <1>5, <2>1, <2>2 DEF SpawnRegisters, SeatsTypeOK
<1>6. CASE SpawnUnwinds
  <2>1. call' \in Call \cup {Nil} /\ parent' \in [Worker -> Node \cup {Nil}] /\ owed' \subseteq Worker
    BY <1>1, <1>6, CallGoesOn, LeftTyped DEF SpawnUnwinds, SeatsTypeOK
  <2>2. failures' \in 0..MaxFailures
    BY <1>6, FailuresTyped DEF SpawnUnwinds, SeatsTypeOK
  <2> QED
    BY <1>2, <1>6, <2>1, <2>2 DEF SpawnUnwinds, SeatsTypeOK
<1>7. CASE SpawnUnwound
  <2>1. Taped(released) \/ TapedOrLost(released)
    BY <1>7 DEF SpawnUnwound
  <2>2. journal' \in Seq(SeatLine) /\ failures' \in 0..MaxFailures
    BY <1>3, <2>1, LineTyped
  <2>3. call' = Nil /\ parent' \in [Worker -> Node \cup {Nil}] /\ owed' \subseteq Worker
    BY <1>1, <1>7, UnmountTyped, LeftTyped DEF SpawnUnwound, SeatsTypeOK
  <2> QED
    BY <1>7, <2>2, <2>3 DEF SpawnUnwound, SeatsTypeOK
<1>8. CASE SpawnCharters
  <2>1. call' \in Call
    BY <1>1, <1>8, CallGoesOn DEF SpawnCharters
  <2> QED
    BY <1>2, <1>8, <2>1 DEF SpawnCharters, SeatsTypeOK
<1>9. CASE SpawnFlags
  <2>1. call' \in Call
    BY <1>1, <1>9, CallGoesOn DEF SpawnFlags
  <2>2. lease' \in [Worker -> SUBSET Node]
    BY <1>9 DEF SpawnFlags, SeatsTypeOK
  <2> QED
    BY <1>2, <1>9, <2>1, <2>2 DEF SpawnFlags, SeatsTypeOK
<1>10. CASE SpawnSeats
  BY <1>2, <1>10 DEF SpawnSeats, SeatsTypeOK
<1>11. CASE SpawnRecords
  <2>1. call' \in Call
    BY <1>1, <1>11, CallGoesOn DEF SpawnRecords
  <2>2. Taped(begun) \/ TapedOrLost(begun)
    BY <1>11 DEF SpawnRecords
  <2>3. journal' \in Seq(SeatLine) /\ failures' \in 0..MaxFailures
    BY <1>3, <2>2, LineTyped
  <2> QED
    BY <1>11, <2>1, <2>3 DEF SpawnRecords, SeatsTypeOK
<1> QED
  BY <1>4, <1>5, <1>6, <1>7, <1>8, <1>9, <1>10, <1>11

LEMMA ReleaseCallTyped ==
  ASSUME NEW w \in Worker, NEW ids \in SUBSET Worker, NEW c, c = ReleaseCall(w, ids)
  PROVE  /\ c \in Call /\ c # Nil
         /\ c.op = "release" /\ c.at = "revoke" /\ c.id = w /\ c.ids = ids
<1>1. {} \in Charter
  BY DEF Charter
<1>2. c \in Call
  BY <1>1 DEF ReleaseCall, Call
<1>3. c # Nil
  BY <1>2, SeatsAssumption
<1> QED
  BY <1>2, <1>3 DEF ReleaseCall

LEMMA TypedReleaseBegins ==
  ASSUME SeatsTypeOK, NEW w \in Worker, ReleaseResumes(w) \/ ReleaseBegins(w)
  PROVE  SeatsTypeOK'
<1>1. CASE ReleaseResumes(w)
  <2>1. call' \in Call
    BY <1>1, ReadsTyped, ReleaseCallTyped DEF ReleaseResumes
  <2> QED
    BY <1>1, <2>1 DEF ReleaseResumes, SeatsTypeOK
<1>2. CASE ReleaseBegins(w)
  <2> DEFINE line == [op |-> "release_pending", id |-> w, workers |-> Descendants(w)]
  <2>1. Descendants(w) \in SUBSET Worker
    BY DEF Descendants
  <2>2. line \in SeatLine
    BY <2>1 DEF SeatLine
  <2>3. Taped(line) \/ TapedOrLost(line)
    BY <1>2 DEF ReleaseBegins
  <2>4. journal' \in Seq(SeatLine) /\ failures' \in 0..MaxFailures
    BY <2>2, <2>3, LineTyped
  <2>5. call' \in Call \cup {Nil}
    BY <1>2, <2>1, ReleaseCallTyped DEF ReleaseBegins, SeatsTypeOK
  <2> QED
    BY <1>2, <2>4, <2>5 DEF ReleaseBegins, SeatsTypeOK
<1> QED
  BY <1>1, <1>2

LEMMA TypedRelease ==
  ASSUME SeatsTypeOK, ReleaseRevokes \/ ReleaseUnseats \/ ReleaseAbandons \/ ReleaseRecords
  PROVE  SeatsTypeOK'
<1>1. call # Nil
  BY DEF ReleaseRevokes, ReleaseUnseats, ReleaseAbandons, ReleaseRecords, Doing
<1>2. call \in Call /\ call.id \in Worker /\ call.ids \in SUBSET Worker
  BY <1>1, CallTyped
<1>3. CASE ReleaseRevokes
  <2>1. call' \in Call
    BY <1>1, <1>3, CallGoesOn DEF ReleaseRevokes
  <2>2. bound' \in [Worker -> Charter \cup {Nil}]
    BY <1>3 DEF ReleaseRevokes, SeatsTypeOK
  <2>3. flagged' \subseteq Worker /\ raised' \subseteq Node
    BY <1>2, <1>3 DEF ReleaseRevokes, SeatsTypeOK, Node
  <2> QED
    BY <1>3, <2>1, <2>2, <2>3 DEF ReleaseRevokes, SeatsTypeOK
<1>4. CASE ReleaseUnseats
  <2>1. call' \in Call
    BY <1>1, <1>4, CallGoesOn DEF ReleaseUnseats
  <2>2. parent' \in [Worker -> Node \cup {Nil}]
    BY <1>4, UnmountTyped DEF ReleaseUnseats
  <2> QED
    BY <1>4, <2>1, <2>2 DEF ReleaseUnseats, SeatsTypeOK
<1>5. CASE ReleaseAbandons
  <2>1. call' \in Call \cup {Nil}
    BY <1>1, <1>5, CallGoesOn DEF ReleaseAbandons
  <2>2. failures' \in 0..MaxFailures /\ wp' \subseteq Worker
    BY <1>5, FailuresTyped DEF ReleaseAbandons, SeatsTypeOK
  <2> QED
    BY <1>5, <2>1, <2>2 DEF ReleaseAbandons, SeatsTypeOK
<1>6. CASE ReleaseRecords
  <2> DEFINE released == [op |-> "release", id |-> call.id]
  <2>1. call' = Nil /\ owed' \subseteq Worker
    BY <1>6 DEF ReleaseRecords, SeatsTypeOK
  <2>2. released \in SeatLine
    BY <1>2 DEF SeatLine
  <2>3. Taped(released) \/ TapedOrLost(released)
    BY <1>6 DEF ReleaseRecords
  <2>4. journal' \in Seq(SeatLine) /\ failures' \in 0..MaxFailures
    BY <2>2, <2>3, LineTyped
  <2> QED
    BY <1>6, <2>1, <2>4 DEF ReleaseRecords, SeatsTypeOK
<1> QED
  BY <1>3, <1>4, <1>5, <1>6

(* ---------------------------------- signals --------------------------------- *)

\* Cancels on the tape end whoever they name and what hangs under them.
LEMMA CancelledFits ==
  ASSUME SeatsTypeOK, TapeFits, UNCHANGED <<parent, call, owed>>,
         NEW ids \in SUBSET Worker,
         Rebuilt' = Pruned(Rebuilt, ids), EndedNow' = EndedNow \cup ids, AdriftNow' = AdriftNow, Pending' = Pending
  PROVE  Retiring' = Retiring /\ TapeFits'
<1>1. Retiring' = Retiring /\ Unsure' = Unsure /\ Early' = Early
  BY DEF Retiring, Unsure, Unwinding, Early, Spawning
<1>2. Hung' = Hung
  BY <1>1 DEF Hung
<1>3. PICK ends : ends = EndedNow \cup ids
  OBVIOUS
<1>4. /\ ends \in SUBSET Worker /\ EndedNow \subseteq ends /\ ends \subseteq EndedNow \cup ids /\ EndedNow' = ends
      /\ \A w \in Worker : Hung[w] # Nil /\ Above(Hung, w) \cap ids # {} =>
           Above(Hung, w) \cap ends # {} \/ w \in Retiring
  BY <1>3, ReadsTyped
<1>5. Leads(Hung, Retiring) /\ (Pending' # Nil => Pending'.id \in Pending'.workers)
  BY DEF TapeFits
<1> QED
  BY <1>1, <1>2, <1>4, <1>5, TakenOff

\* Those that hang on the recorder itself have their cancels taped.
LEMMA CancelsFit ==
  ASSUME SeatsTypeOK, TapeFits, UNCHANGED <<parent, call, owed>>,
         NEW ids \in SUBSET Worker, Cancels(ids)
  PROVE  journal' \in Seq(SeatLine) /\ Pending' = Pending /\ Retiring' = Retiring /\ TapeFits'
<1> DEFINE own == {v \in ids : parent[v] = Root}
           n == Cardinality(own)
<1>1. IsFiniteSet(own) /\ n \in Nat
  BY SeatsAssumption, FS_Subset, FS_CardinalityType
<1>2. PICK order \in Bijection(1..n, own) :
        journal' = journal \o [i \in 1..n |-> [op |-> "cancel", id |-> order[i]]]
  BY DEF Cancels
<1>3. own \in SUBSET Worker
  OBVIOUS
<1> HIDE DEF own, n
<1>4. order \in [1..n -> Worker] /\ {order[i] : i \in 1..n} \subseteq own
  BY <1>2, <1>3 DEF Bijection, Injection, Surjection, IsInjective
<1>5. journal \in Seq(SeatLine)
  BY DEF SeatsTypeOK
<1>6. PICK who, lines : who = {order[i] : i \in 1..n} /\ lines = journal'
  OBVIOUS
<1>7. CancelsFollow(journal, lines, n, order, who)
  BY <1>1, <1>2, <1>4, <1>5, <1>6, CancelLines
<1>8. who \in SUBSET Worker
  BY <1>3, <1>4, <1>6
<1>9. /\ lines \in Seq(SeatLine)
      /\ TreeOf(lines) = Pruned(TreeOf(journal), who)
      /\ Ended(lines) = Ended(journal) \cup who /\ Adrift(lines) = Adrift(journal)
      /\ PendingIn(lines) = PendingIn(journal)
  BY <1>1, <1>4, <1>5, <1>6, <1>7, CancelsAdd
<1>10. /\ journal' \in Seq(SeatLine) /\ Rebuilt' = Pruned(Rebuilt, who)
       /\ EndedNow' = EndedNow \cup who /\ AdriftNow' = AdriftNow /\ Pending' = Pending
  BY <1>6, <1>9 DEF Rebuilt, EndedNow, AdriftNow, Pending
<1> QED
  BY <1>8, <1>10, CancelledFits

LEMMA CancelFits ==
  ASSUME SeatsTypeOK, TapeFits, NEW w \in Worker, CancelEnds(w)
  PROVE  /\ journal' \in Seq(SeatLine) /\ failures' \in 0..MaxFailures
         /\ Pending' = Pending /\ Retiring' = Retiring /\ TapeFits'
<1> DEFINE line == [op |-> "cancel", id |-> w]
<1>1. line \in SeatLine /\ line.op = "cancel" /\ line.id = w
  BY DEF SeatLine
<1>2. UNCHANGED <<parent, call, owed>>
  BY DEF CancelEnds
<1>3. Taped(line) \/ TapedOrLost(line)
  BY DEF CancelEnds
<1> HIDE DEF line
<1>4. /\ journal' \in Seq(SeatLine) /\ failures' \in 0..MaxFailures
      /\ journal' = journal \/ journal' = Append(journal, line)
  BY <1>1, <1>3, LineTyped
<1>5. CASE journal' = Append(journal, line)
  <2>1. /\ Rebuilt' = Replay(Rebuilt, line) /\ EndedNow' = EndedNow \cup {w} /\ AdriftNow' = AdriftNow
        /\ Pending' = Pending
    BY <1>1, <1>5, TapeGrows
  <2>2. Replay(Rebuilt, line) = Pruned(Rebuilt, {w})
    BY <1>1 DEF Replay
  <2> QED
    BY <1>2, <1>4, <2>1, <2>2, CancelledFits
<1>6. CASE journal' = journal
  <2>1. Unsure' = Unsure /\ Early' = Early
    BY <1>2 DEF Unsure, Unwinding, Early, Spawning
  <2>2. Hung' = Hung
    BY <1>2, <2>1 DEF Hung
  <2> QED
    BY <1>4, <1>6, <2>1, <2>2, TapeStays
<1> QED
  BY <1>4, <1>5, <1>6

\* What a signal leaves alone fits as before.
LEMMA SignalKeeps ==
  ASSUME SeatsInv, UNCHANGED <<parent, seats, bound, flagged, wp, call, owed>>,
         Pending' = Pending, Retiring' = Retiring
  PROVE  SeatsFit' /\ RightsFit' /\ WorkspacesFit' /\ SpawnFits' /\ ReleaseFits'
<1>1. Starting' = Starting /\ Revoked' = Revoked /\ Late' = Late /\ Spawning' = Spawning /\ Releasing' = Releasing
  BY DEF Starting, Revoked, Late, Spawning, Releasing
<1>2. SeatsFit'
  BY <1>1 DEF SeatsInv, SeatsFit
<1>3. RightsFit'
  BY <1>1 DEF SeatsInv, RightsFit
<1>4. WorkspacesFit'
  BY <1>1 DEF SeatsInv, WorkspacesFit
<1>5. SpawnFits'
  BY <1>1 DEF SeatsInv, SpawnFits
<1>6. ReleaseFits'
  BY <1>1 DEF SeatsInv, ReleaseFits
<1> QED
  BY <1>2, <1>3, <1>4, <1>5, <1>6

\* A step that leaves the tree, the tape and the calls alone.
LEMMA TapeRests ==
  ASSUME SeatsTypeOK, TapeFits, UNCHANGED <<journal, parent, call, owed>>
  PROVE  Pending' = Pending /\ Retiring' = Retiring /\ TapeFits'
<1>1. Unsure' = Unsure /\ Early' = Early
  BY DEF Unsure, Unwinding, Early, Spawning
<1>2. Hung' = Hung
  BY <1>1 DEF Hung
<1> QED
  BY <1>1, <1>2, TapeStays

LEMMA InvSignal ==
  ASSUME SeatsInv, Signal
  PROVE  SeatsInv'
<1>0. SeatsTypeOK /\ TapeFits /\ SeatsFit /\ RightsFit /\ LeasesFit
  BY DEF SeatsInv
<1>1. ASSUME NEW w \in Worker, CancelBegins(w) PROVE SeatsInv'
  <2>1. UNCHANGED <<journal, parent, seats, bound, flagged, raised, lease, wp, call, owed, failures>>
    BY <1>1 DEF CancelBegins
  <2>2. Pending' = Pending /\ Retiring' = Retiring /\ TapeFits'
    BY <1>0, <2>1, TapeRests
  <2>3. SeatsTypeOK'
    BY <1>0, <1>1, <2>1 DEF SeatsTypeOK, CancelBegins
  <2>4. LeasesFit'
    BY <1>0, <2>1 DEF LeasesFit
  <2> QED
    BY <2>1, <2>2, <2>3, <2>4, SignalKeeps DEF SeatsInv
<1>2. ASSUME NEW w \in Worker, CancelEnds(w) PROVE SeatsInv'
  <2>1. /\ journal' \in Seq(SeatLine) /\ failures' \in 0..MaxFailures
        /\ Pending' = Pending /\ Retiring' = Retiring /\ TapeFits'
    BY <1>0, <1>2, CancelFits
  <2>2. UNCHANGED <<parent, seats, bound, flagged, raised, lease, wp, call, owed>> /\ cancelling' \subseteq cancelling
    BY <1>2 DEF CancelEnds
  <2>3. SeatsTypeOK'
    BY <1>0, <2>1, <2>2 DEF SeatsTypeOK
  <2>4. LeasesFit'
    BY <1>0, <2>2 DEF LeasesFit
  <2> QED
    BY <2>1, <2>2, <2>3, <2>4, SignalKeeps DEF SeatsInv
<1>3. ASSUME NEW w \in Worker, Lease(w) PROVE SeatsInv'
  <2>1. UNCHANGED <<journal, parent, seats, bound, flagged, raised, wp, call, owed, cancelling, failures>>
    BY <1>3 DEF Lease
  <2>2. Chain(w) \ {Root} \subseteq flagged /\ lease' = [lease EXCEPT ![w] = Chain(w)]
    BY <1>3 DEF Lease
  <2>3. lease \in [Worker -> SUBSET Node] /\ Chain(w) \in SUBSET Node /\ w \in Chain(w) /\ w # Root
    BY <1>0, SelfAbove, SeatsAssumption DEF SeatsTypeOK, Chain, Node
  <2>4. lease'[w] = Chain(w) /\ \A v \in Worker : v # w => lease'[v] = lease[v]
    BY <2>2, <2>3
  <2>5. lease' \in [Worker -> SUBSET Node]
    BY <2>2, <2>3
  <2>6. SeatsTypeOK'
    BY <1>0, <2>1, <2>5 DEF SeatsTypeOK
  <2>7. TapeFits' /\ Pending' = Pending /\ Retiring' = Retiring
    BY <1>0, <2>1, TapeRests
  <2>8. LeasesFit'
    <3>1. w \in flagged
      BY <2>2, <2>3
    <3>2. ASSUME NEW v \in Worker, lease'[v] # {}
          PROVE  v \in lease'[v] /\ v \in flagged \cup raised
      BY <1>0, <2>3, <2>4, <3>1, <3>2 DEF LeasesFit
    <3> QED
      BY <2>1, <3>2 DEF LeasesFit
  <2> QED
    BY <2>1, <2>6, <2>7, <2>8, SignalKeeps DEF SeatsInv
\* A propagation tapes cancels and raises flags.
<1>4. ASSUME NEW ids \in SUBSET Worker, Cancels(ids),
             UNCHANGED <<parent, seats, bound, flagged, lease, wp, call, owed, cancelling>>,
             raised \subseteq raised', raised' \subseteq Node, failures' \in 0..MaxFailures
      PROVE  SeatsInv'
  <2>1. journal' \in Seq(SeatLine) /\ Pending' = Pending /\ Retiring' = Retiring /\ TapeFits'
    BY <1>0, <1>4, CancelsFit
  <2>2. SeatsTypeOK'
    BY <1>0, <1>4, <2>1 DEF SeatsTypeOK
  <2>3. LeasesFit'
    BY <1>0, <1>4 DEF LeasesFit
  <2> QED
    BY <1>4, <2>1, <2>2, <2>3, SignalKeeps DEF SeatsInv
<1>5. raised \subseteq Node /\ failures \in 0..MaxFailures
  BY <1>0 DEF SeatsTypeOK
<1>6. \A v \in Node : Descendants(v) \subseteq Worker /\ Chain(v) \subseteq Node
  BY SelfAbove DEF Descendants, Chain
<1>7. ASSUME NEW w \in Node, Propagate(w) PROVE SeatsInv'
  <2>1. Descendants(w) \in SUBSET Worker /\ Cancels(Descendants(w))
    BY <1>6, <1>7 DEF Propagate
  <2>2. raised \subseteq raised' /\ raised' \subseteq Node
    BY <1>5, <1>6, <1>7 DEF Propagate, Node
  <2>3. UNCHANGED <<parent, seats, bound, flagged, lease, wp, call, owed, cancelling, failures>>
    BY <1>7 DEF Propagate
  <2> QED
    BY <1>4, <1>5, <2>1, <2>2, <2>3
<1>8. ASSUME NEW w \in Node, PropagateStops(w) PROVE SeatsInv'
  <2>1. UNCHANGED <<parent, seats, bound, flagged, lease, wp, call, owed, cancelling>>
    BY <1>8 DEF PropagateStops
  <2> DEFINE onto(at) == {w} \cup ((Chain(at) \ {at}) \cap Descendants(w))
  <2>2. PICK at \in Descendants(w) :
          \E before \in SUBSET ((Descendants(w) \cap flagged) \ (onto(at) \cup Descendants(at))) :
            \/ /\ at \notin flagged
               /\ raised' = raised \cup onto(at) \cup before
               /\ Cancels(before) /\ UNCHANGED failures
            \/ /\ Descendants(at) \subseteq flagged
               /\ raised' = raised \cup onto(at) \cup before \cup Descendants(at)
               /\ Cancels(before) \/ Cancels(before \cup {at})
               /\ LineFails
    BY <1>8 DEF PropagateStops
  <2>3. PICK before \in SUBSET ((Descendants(w) \cap flagged) \ (onto(at) \cup Descendants(at))) :
            \/ /\ at \notin flagged
               /\ raised' = raised \cup onto(at) \cup before
               /\ Cancels(before) /\ UNCHANGED failures
            \/ /\ Descendants(at) \subseteq flagged
               /\ raised' = raised \cup onto(at) \cup before \cup Descendants(at)
               /\ Cancels(before) \/ Cancels(before \cup {at})
               /\ LineFails
    BY <2>2
  <2>4. at \in Worker /\ at \in Node /\ onto(at) \subseteq Node /\ before \in SUBSET Worker
    BY <1>6, <2>3 DEF Node
  <2>5. Descendants(at) \subseteq Node
    BY <1>6, <2>4 DEF Node
  <2>6. raised \subseteq raised' /\ raised' \subseteq Node
    <3>1. before \subseteq Node
      BY <2>4 DEF Node
    <3> HIDE DEF onto
    <3> QED
      BY <1>5, <2>3, <2>4, <2>5, <3>1
  <2>7. failures' \in 0..MaxFailures
    BY <1>5, <2>3, FailuresTyped
  <2>8. CASE Cancels(before)
    BY <1>4, <2>1, <2>4, <2>6, <2>7, <2>8
  <2>9. CASE Cancels(before \cup {at})
    <3>1. before \cup {at} \in SUBSET Worker
      BY <2>4
    <3> QED
      BY <1>4, <2>1, <2>6, <2>7, <2>9, <3>1
  <2> QED
    BY <2>3, <2>8, <2>9
<1> QED
  BY <1>1, <1>2, <1>3, <1>7, <1>8 DEF Signal, Node

(* ----------------------------------- spawn ---------------------------------- *)

LEMMA InvSpawnBegins ==
  ASSUME SeatsInv, NEW w \in Worker, NEW up \in Worker \cup {Root}, NEW charter \in Charter, NEW lite \in BOOLEAN,
         SpawnBegins(w, up, charter, lite)
  PROVE  SeatsInv'
<1>0. SeatsTypeOK /\ TapeFits /\ SeatsFit /\ RightsFit /\ LeasesFit /\ WorkspacesFit
  BY DEF SeatsInv
<1>1. call = Nil /\ Pending = Nil /\ parent[w] = Nil /\ InTree(up)
      /\ (up # Root => bound[up] # Nil /\ charter \subseteq bound[up])
      /\ parent' = [parent EXCEPT ![w] = up]
  BY DEF SpawnBegins
<1>2. UNCHANGED <<journal, seats, bound, flagged, raised, lease, wp, owed>>
  BY DEF SpawnBegins
<1>3. SeatsTypeOK'
  BY <1>0, TypedSpawnBegins
<1>4. /\ call' # Nil /\ call'.op = "spawn" /\ call'.at = "announce"
      /\ call'.id = w /\ call'.parent = up /\ call'.charter = charter
  <2>1. call' = [op |-> "spawn", at |-> "announce", id |-> w, ids |-> {w}, parent |-> up, charter |-> charter,
                 lite |-> lite]
    BY DEF SpawnBegins
  <2>2. call' \in Call
    BY <2>1 DEF Call, Node
  <2> QED
    BY <2>1, <2>2, SeatsAssumption
<1>5. Early = {} /\ Starting = {} /\ Revoked = {} /\ Unwinding = {} /\ Late = {}
  BY <1>1 DEF Early, Starting, Revoked, Unwinding, Late, Spawning, Releasing
<1>6. Early' = {w} /\ Starting' = {w} /\ Revoked' = {} /\ Unwinding' = {} /\ Late' = {} /\ Spawning' /\ ~Releasing'
  BY <1>4 DEF Early, Starting, Revoked, Unwinding, Late, Spawning, Releasing
<1>7. parent'[w] = up /\ \A v \in Worker : v # w => parent'[v] = parent[v]
  BY <1>0, <1>1 DEF SeatsTypeOK
<1>8. Hung' = Hung
  <2>1. \A v \in Worker : (IF v \in Early' THEN Nil ELSE parent'[v]) = (IF v \in Early THEN Nil ELSE parent[v])
    BY <1>1, <1>5, <1>6, <1>7
  <2> QED
    BY <2>1 DEF Hung
<1>9. Pending' = Pending /\ Retiring' = Retiring /\ TapeFits' /\ Retiring = {}
  <2>1. Unsure' = Unsure
    BY <1>2, <1>5, <1>6 DEF Unsure
  <2>2. Pending' = Pending /\ Retiring' = Retiring /\ TapeFits'
    BY <1>0, <1>2, <1>8, <2>1, TapeStays
  <2> QED
    BY <1>1, <2>2 DEF Retiring
<1>10. w \notin seats /\ bound[w] = Nil /\ w \notin flagged
  BY <1>0, <1>1, <1>5 DEF SeatsFit, RightsFit
<1>11. up \in Node /\ up # Nil /\ up # w
  BY <1>1, SeatsAssumption DEF Node, InTree
\* Nobody hangs under somebody who is not in the tree.
<1>12. ASSUME NEW v \in Worker PROVE parent'[v] # w
  <2>1. CASE v = w
    BY <1>7, <1>11, <2>1
  <2>2. CASE v # w
    <3>1. \A u \in Worker : Hung[u] = parent[u]
      BY <1>5 DEF Hung
    <3>2. ASSUME parent[v] = w PROVE FALSE
      <4>1. Hung[v] = w /\ w # Root /\ w # Nil
        BY <3>1, <3>2, SeatsAssumption DEF Node
      <4>2. Hung[w] # Nil
        BY <1>0, <4>1 DEF TapeFits, Leads
      <4> QED
        BY <1>1, <3>1, <4>2
    <3> QED
      BY <1>7, <2>2, <3>2
  <2> QED
    BY <2>1, <2>2
<1>13. SeatsFit'
  <2>1. \A v \in seats : parent'[v] # Nil
    BY <1>0, <1>7, <1>10 DEF SeatsFit, SeatsTypeOK
  <2>2. \A v \in Worker : parent'[v] # Nil => v \in seats \cup {w}
    BY <1>0, <1>5, <1>7 DEF SeatsFit
  <2> QED
    BY <1>2, <1>6, <2>1, <2>2 DEF SeatsFit
<1>14. RightsFit'
  <2>1. ASSUME NEW v \in Worker, parent'[v] \in Worker, bound[v] # Nil
        PROVE  bound[parent'[v]] # Nil /\ bound[v] \subseteq bound[parent'[v]]
    BY <1>0, <1>7, <1>10, <2>1 DEF RightsFit
  <2>2. /\ \A v \in seats : v \in flagged /\ bound[v] # Nil
        /\ flagged \subseteq seats /\ \A v \in Worker : bound[v] # Nil => v \in seats
    BY <1>0, <1>5 DEF RightsFit
  <2> QED
    BY <1>2, <1>6, <2>1, <2>2 DEF RightsFit
<1>15. LeasesFit' /\ WorkspacesFit'
  BY <1>0, <1>2, <1>5, <1>6, <1>9 DEF LeasesFit, WorkspacesFit
<1>16. SpawnFits'
  BY <1>1, <1>2, <1>4, <1>7, <1>9, <1>10, <1>11, <1>12 DEF SpawnFits
<1>17. ReleaseFits'
  BY <1>6 DEF ReleaseFits
<1> QED
  BY <1>3, <1>9, <1>13, <1>14, <1>15, <1>16, <1>17 DEF SeatsInv

\* Nobody hangs under a worker that is being spawned, so only its own seat drops.
LEMMA LeafDrops ==
  ASSUME NEW up \in Trees, NEW id \in Worker, \A w \in Worker : up[w] # id
  PROVE  /\ Pruned(up, {id})[id] = Nil
         /\ \A w \in Worker : w # id => Pruned(up, {id})[w] = up[w]
<1>1. ASSUME NEW w \in Worker, w # id PROVE id \notin Above(up, w)
  <2> DEFINE S == Node \ {id}
  <2>1. w \in S /\ S \in SUBSET Node
    BY <1>1 DEF Node
  <2>2. UpClosed(up, S)
    BY DEF UpClosed, Trees, Node
  <2> HIDE DEF S
  <2>3. Above(up, w) \subseteq S
    BY <2>1, <2>2, AboveLeast
  <2> QED
    BY <2>3 DEF S
<1>2. id \in Above(up, id)
  BY SelfAbove DEF Node
<1>3. \A w \in Worker : Pruned(up, {id})[w] = IF Above(up, w) \cap {id} # {} THEN Nil ELSE up[w]
  BY PrunedTyped
<1> QED
  BY <1>1, <1>2, <1>3

\* A spawn that is given up before the worker has rights: but for the tape and the
\* workspaces, what is left is as before it.
LEMMA SpawnGivenUp ==
  ASSUME SeatsInv, Spawning, call.at \in {"announce", "register", "record", "unwind", "unwound"},
         Unmount({call.id}), call' = Nil, UNCHANGED <<seats, bound, flagged, raised, lease>>
  PROVE  /\ Hung' = Hung /\ Unwinding' = {} /\ Late' = {}
         /\ SeatsFit' /\ RightsFit' /\ LeasesFit' /\ SpawnFits' /\ ReleaseFits'
<1>0. SeatsTypeOK /\ SeatsFit /\ RightsFit /\ LeasesFit /\ SpawnFits
  BY DEF SeatsInv
<1>1. PICK id \in Worker : id = call.id
  BY <1>0, CallTyped DEF Spawning
<1>2. parent \in Trees /\ \A w \in Worker : parent[w] # id
  BY <1>0, <1>1, ReadsTyped DEF SpawnFits
<1>3. parent'[id] = Nil /\ \A w \in Worker : w # id => parent'[w] = parent[w]
  <2>1. PICK less : less = parent'
    OBVIOUS
  <2>2. less = Pruned(parent, {id})
    BY <1>1, <2>1 DEF Unmount
  <2>3. less[id] = Nil /\ \A w \in Worker : w # id => less[w] = parent[w]
    BY <1>2, <2>2, LeafDrops
  <2> QED
    BY <2>1, <2>3
<1>4. Early = {id} /\ Starting = {id} /\ Revoked = {}
  BY <1>1 DEF Early, Starting, Revoked, Spawning, Releasing
<1>5. Early' = {} /\ Starting' = {} /\ Revoked' = {} /\ Unwinding' = {} /\ Late' = {} /\ ~Spawning' /\ ~Releasing'
  BY DEF Early, Starting, Revoked, Unwinding, Late, Spawning, Releasing
<1>6. Hung' = Hung
  <2>1. \A v \in Worker : (IF v \in Early' THEN Nil ELSE parent'[v]) = (IF v \in Early THEN Nil ELSE parent[v])
    BY <1>3, <1>4, <1>5
  <2> QED
    BY <2>1 DEF Hung
<1>7. id \notin seats /\ bound[id] = Nil /\ id \notin flagged
  BY <1>0, <1>1 DEF SpawnFits
<1>8. SeatsFit'
  <2>1. \A w \in seats : parent'[w] # Nil
    BY <1>0, <1>3, <1>7 DEF SeatsFit, SeatsTypeOK
  <2>2. \A w \in Worker : parent'[w] # Nil => w \in seats
    BY <1>0, <1>3, <1>4 DEF SeatsFit
  <2> QED
    BY <1>5, <2>1, <2>2 DEF SeatsFit
<1>9. RightsFit'
  <2>1. ASSUME NEW w \in Worker, parent'[w] \in Worker, bound[w] # Nil
        PROVE  bound[parent'[w]] # Nil /\ bound[w] \subseteq bound[parent'[w]]
    BY <1>0, <1>3, <1>7, <2>1 DEF RightsFit
  <2>2. /\ \A w \in seats : w \in flagged /\ bound[w] # Nil
        /\ flagged \subseteq seats /\ \A w \in Worker : bound[w] # Nil => w \in seats
    BY <1>0, <1>4, <1>7 DEF RightsFit
  <2> QED
    BY <1>5, <2>1, <2>2 DEF RightsFit
<1>10. LeasesFit'
  BY <1>0 DEF LeasesFit
<1> QED
  BY <1>5, <1>6, <1>8, <1>9, <1>10 DEF SpawnFits, ReleaseFits

\* The answer that a retirement is pending.
LEMMA InvLeftToRelease ==
  ASSUME SeatsInv, SeatsTypeOK', Spawning, call.at \in {"register", "record", "unwind", "unwound"}, LeftToRelease,
         UNCHANGED <<journal, seats, bound, flagged, raised, lease, wp>>
  PROVE  SeatsInv'
<1>0. SeatsTypeOK /\ TapeFits /\ WorkspacesFit /\ call.id \in Worker
  BY CallTyped DEF SeatsInv, Spawning
<1>1. Unmount({call.id}) /\ call' = Nil /\ owed' = owed \cup {call.id}
  BY DEF LeftToRelease
<1>2. /\ Hung' = Hung /\ Unwinding' = {} /\ Late' = {}
      /\ SeatsFit' /\ RightsFit' /\ LeasesFit' /\ SpawnFits' /\ ReleaseFits'
  BY <1>1, SpawnGivenUp
<1>3. Unsure \subseteq Unsure'
  BY <1>1, <1>2 DEF Unsure, Unwinding
<1>4. Pending' = Pending /\ Retiring' = Retiring /\ TapeFits'
  BY <1>0, <1>2, <1>3, TapeStays
<1>5. WorkspacesFit'
  BY <1>0, <1>1, <1>2, <1>4 DEF WorkspacesFit, Late, Spawning
<1> QED
  BY <1>2, <1>4, <1>5 DEF SeatsInv

\* Somebody who is not in the tree may be on the tape as leaving it.
LEMMA LeftPending ==
  ASSUME NEW tree \in Trees, NEW up \in Trees, NEW ended, NEW adrift, NEW unsure,
         Leads(up, {}), Hangs(tree, up, ended, adrift, {}, unsure),
         NEW w \in Worker, up[w] = Nil
  PROVE  Leads(up, {w}) /\ Hangs(tree, up, ended, adrift, {w}, unsure)
<1>1. \A v \in Worker : up[v] # Nil => w \notin Above(up, v)
  BY OutIsNotOver
<1>2. Leads(up, {w})
  BY <1>1 DEF Leads
<1> QED
  BY <1>2 DEF Hangs

LEMMA InvSpawnAnnounces ==
  ASSUME SeatsInv, SpawnAnnounces
  PROVE  SeatsInv'
<1>0. SeatsTypeOK /\ TapeFits /\ SeatsFit /\ RightsFit /\ LeasesFit /\ WorkspacesFit /\ SpawnFits
  BY DEF SeatsInv
<1>1. Spawning /\ call.at = "announce" /\ UNCHANGED <<seats, bound, flagged, raised, lease, wp, owed>>
  BY DEF SpawnAnnounces, Doing, Spawning
<1>2. PICK id \in Worker : id = call.id
  BY <1>0, <1>1, CallTyped DEF Spawning
<1>3. SeatsTypeOK' /\ Hung \in Trees /\ Rebuilt \in Trees
  BY <1>0, TypedSpawn, ReadsTyped
<1>4. Pending = Nil /\ Retiring = {}
  BY <1>0, <1>1 DEF SpawnFits, Retiring
<1>5. Early = {id} /\ Starting = {id} /\ Revoked = {} /\ Unwinding = {} /\ Late = {}
  BY <1>1, <1>2 DEF Early, Starting, Revoked, Unwinding, Late, Spawning, Releasing
<1>6. Hung[id] = Nil
  BY <1>5 DEF Hung
<1> DEFINE line == [op |-> "spawn_pending", id |-> id, workers |-> {id}]
<1>7. line \in SeatLine /\ line.op = "spawn_pending" /\ line.id = id /\ line.workers = {id} /\ line # Nil
  BY SeatsAssumption DEF SeatLine
<1>8. \/ Taped(line) /\ Goto(IF call.lite THEN "record" ELSE "register") /\ UNCHANGED parent
      \/ TapedOrLost(line) /\ Unmount({id}) /\ call' = Nil
  BY <1>2 DEF SpawnAnnounces
<1> HIDE DEF line
<1>9. Leads(Hung, {}) /\ Hangs(Rebuilt, Hung, EndedNow, AdriftNow, {}, Unsure)
  BY <1>0, <1>4 DEF TapeFits
\* The tape with the line, whether the caller is told of it or not.
<1>10. ASSUME journal' = Append(journal, line), Hung' = Hung, Unsure' = Unsure
       PROVE  Retiring' = {id} /\ TapeFits'
  <2>1. Rebuilt' = Replay(Rebuilt, line) /\ EndedNow' = EndedNow /\ AdriftNow' = AdriftNow /\ Pending' = line
    BY <1>0, <1>7, <1>10, TapeGrows
  <2>2. Rebuilt' = Rebuilt
    BY <1>7, <2>1 DEF Replay
  <2>3. Retiring' = {id}
    BY <1>7, <2>1 DEF Retiring
  <2>4. Leads(Hung, {id}) /\ Hangs(Rebuilt, Hung, EndedNow, AdriftNow, {id}, Unsure)
    BY <1>3, <1>6, <1>9, LeftPending
  <2>5. Leads(Hung', Retiring') /\ Hangs(Rebuilt', Hung', EndedNow', AdriftNow', Retiring', Unsure')
    BY <1>10, <2>1, <2>2, <2>3, <2>4
  <2>6. Pending'.id \in Pending'.workers
    BY <1>7, <2>1
  <2> QED
    BY <2>3, <2>5, <2>6 DEF TapeFits
<1>11. CASE Taped(line) /\ Goto(IF call.lite THEN "record" ELSE "register") /\ UNCHANGED parent
  <2>1. PICK at \in {"record", "register"} : Goto(at)
    BY <1>11
  <2>2. /\ call' # Nil /\ call'.op = "spawn" /\ call'.at = at /\ call'.id = id
        /\ call'.parent = call.parent /\ call'.charter = call.charter
    BY <1>0, <1>1, <1>2, <2>1, CallGoesOn DEF Spawning
  <2>3. Early' = {id} /\ Starting' = {id} /\ Revoked' = {} /\ Unwinding' = {} /\ Late' = {id} /\ Spawning' /\ ~Releasing'
    BY <2>1, <2>2 DEF Early, Starting, Revoked, Unwinding, Late, Spawning, Releasing
  <2>4. Hung' = Hung /\ Unsure' = Unsure
    BY <1>1, <1>5, <1>11, <2>3 DEF Hung, Unsure
  <2>5. Retiring' = {id} /\ TapeFits'
    BY <1>10, <1>11, <2>4 DEF Taped
  <2>6. SeatsFit' /\ RightsFit' /\ LeasesFit'
    BY <1>0, <1>1, <1>5, <1>11, <2>3 DEF SeatsFit, RightsFit, LeasesFit
  <2>7. WorkspacesFit'
    BY <1>0, <1>1, <1>4, <1>5 DEF WorkspacesFit
  <2>8. SpawnFits'
    BY <1>0, <1>1, <1>2, <1>11, <2>1, <2>2, <2>5 DEF SpawnFits
  <2>9. ReleaseFits'
    BY <2>3 DEF ReleaseFits
  <2> QED
    BY <1>3, <2>5, <2>6, <2>7, <2>8, <2>9 DEF SeatsInv
<1>12. CASE TapedOrLost(line) /\ Unmount({id}) /\ call' = Nil
  <2>1. /\ Hung' = Hung /\ Unwinding' = {} /\ Late' = {}
        /\ SeatsFit' /\ RightsFit' /\ LeasesFit' /\ SpawnFits' /\ ReleaseFits'
    BY <1>1, <1>2, <1>12, SpawnGivenUp
  <2>2. Unsure' = Unsure
    BY <1>1, <1>5, <2>1 DEF Unsure
  <2>3. TapeFits'
    <3>1. CASE journal' = journal
      BY <1>0, <2>1, <2>2, <3>1, TapeStays
    <3>2. CASE journal' = Append(journal, line)
      BY <1>10, <2>1, <2>2, <3>2
    <3> QED
      BY <1>12, <3>1, <3>2 DEF TapedOrLost
  <2>4. WorkspacesFit'
    BY <1>0, <1>1, <1>4, <1>5 DEF WorkspacesFit
  <2> QED
    BY <1>3, <2>1, <2>3, <2>4 DEF SeatsInv
<1> QED
  BY <1>8, <1>11, <1>12

\* What a spawn's step that leaves the tree and the rights alone keeps, while the
\* workspaces and the tape may change.
LEMMA SpawnGoesOn ==
  ASSUME SeatsInv, Spawning, NEW at \in {"register", "record", "unwind", "unwound", "charter", "flag", "seat"}, Goto(at),
         UNCHANGED <<parent, seats>>
  PROVE  /\ call.id \in Worker /\ call' # Nil /\ call'.op = "spawn" /\ call'.at = at /\ call'.id = call.id
         /\ call'.parent = call.parent /\ call'.charter = call.charter
         /\ Starting = {call.id} /\ Starting' = {call.id} /\ Revoked = {} /\ Revoked' = {}
         /\ Late' = {call.id} /\ Spawning' /\ ~Releasing'
         /\ Early' = IF at \in {"register", "record", "unwind", "unwound"} THEN {call.id} ELSE {}
         /\ Unwinding' = IF at \in {"unwind", "unwound"} THEN {call.id} ELSE {}
         /\ SeatsFit' /\ ReleaseFits'
<1>0. SeatsTypeOK /\ SeatsFit
  BY DEF SeatsInv
<1>1. /\ call.id \in Worker /\ call' # Nil /\ call'.op = "spawn" /\ call'.at = at /\ call'.id = call.id
      /\ call'.parent = call.parent /\ call'.charter = call.charter
  BY <1>0, CallGoesOn, CallTyped DEF Spawning
<1>2. Starting = {call.id} /\ Starting' = {call.id} /\ Revoked = {} /\ Revoked' = {} /\ Spawning' /\ ~Releasing'
  BY <1>1 DEF Starting, Revoked, Spawning, Releasing
<1>3. /\ Late' = {call.id}
      /\ Early' = IF at \in {"register", "record", "unwind", "unwound"} THEN {call.id} ELSE {}
      /\ Unwinding' = IF at \in {"unwind", "unwound"} THEN {call.id} ELSE {}
  BY <1>1, <1>2 DEF Late, Early, Unwinding
<1>4. SeatsFit' /\ ReleaseFits'
  BY <1>0, <1>2 DEF SeatsFit, ReleaseFits
<1> QED
  BY <1>1, <1>2, <1>3, <1>4

\* A step of the workspace, from a phase of a spawn to the next.
LEMMA InvSpawnWorkspace ==
  ASSUME SeatsInv, SeatsTypeOK', Spawning,
         NEW at, Goto(at),
         (call.at = "register" /\ at = "record") \/ (call.at = "unwind" /\ at = "unwound" /\ call.id \notin wp'),
         wp' \subseteq wp \cup {call.id},
         UNCHANGED <<journal, parent, seats, bound, flagged, raised, lease, owed>>
  PROVE  SeatsInv'
<1>0. SeatsTypeOK /\ TapeFits /\ RightsFit /\ LeasesFit /\ WorkspacesFit /\ SpawnFits
  BY DEF SeatsInv
<1>1. PICK id \in Worker : id = call.id
  BY <1>0, CallTyped DEF Spawning
<1>2. /\ call'.at = at /\ call'.id = id /\ call'.parent = call.parent /\ call'.charter = call.charter
      /\ Starting = {id} /\ Starting' = {id} /\ Revoked = {} /\ Revoked' = {} /\ Late' = {id} /\ Early' = {id}
      /\ Unwinding' = IF at = "unwound" THEN {id} ELSE {}
      /\ SeatsFit' /\ ReleaseFits'
  BY <1>1, SpawnGoesOn
<1>3. Early = {id} /\ Late = {id} /\ Unwinding' = Unwinding
  BY <1>1, <1>2 DEF Early, Late, Unwinding
<1>4. Hung' = Hung /\ Unsure' = Unsure
  BY <1>2, <1>3 DEF Hung, Unsure
<1>5. Pending' = Pending /\ Retiring' = Retiring /\ TapeFits'
  BY <1>0, <1>4, TapeStays
<1>6. RightsFit' /\ LeasesFit' /\ WorkspacesFit'
  BY <1>0, <1>1, <1>2, <1>3, <1>5 DEF RightsFit, LeasesFit, WorkspacesFit
<1>7. SpawnFits'
  BY <1>0, <1>1, <1>2, <1>5 DEF SpawnFits
<1> QED
  BY <1>2, <1>5, <1>6, <1>7 DEF SeatsInv

LEMMA InvSpawnRegisters ==
  ASSUME SeatsInv, SpawnRegisters
  PROVE  SeatsInv'
<1>1. Spawning /\ call.at = "register" /\ UNCHANGED <<journal, seats, bound, flagged, raised, lease>>
  BY DEF SpawnRegisters, Doing, Spawning
<1>2. SeatsTypeOK'
  BY TypedSpawn DEF SeatsInv
<1>3. CASE wp' = wp \cup {call.id} /\ Goto("record") /\ UNCHANGED <<parent, owed>>
  BY <1>1, <1>2, <1>3, InvSpawnWorkspace
<1>4. CASE LeftToRelease /\ UNCHANGED wp
  BY <1>1, <1>2, <1>4, InvLeftToRelease
<1> QED
  BY <1>3, <1>4 DEF SpawnRegisters

LEMMA InvSpawnUnwinds ==
  ASSUME SeatsInv, SpawnUnwinds
  PROVE  SeatsInv'
<1>1. Spawning /\ call.at = "unwind" /\ UNCHANGED <<journal, seats, bound, flagged, raised, lease>>
  BY DEF SpawnUnwinds, Doing, Spawning
<1>2. SeatsTypeOK'
  BY TypedSpawn DEF SeatsInv
<1>3. CASE wp' = wp \ {call.id} /\ Goto("unwound") /\ UNCHANGED <<parent, owed>>
  BY <1>1, <1>2, <1>3, InvSpawnWorkspace
<1>4. CASE LeftToRelease /\ UNCHANGED wp
  BY <1>1, <1>2, <1>4, InvLeftToRelease
<1> QED
  BY <1>3, <1>4 DEF SpawnUnwinds

LEMMA InvSpawnRecords ==
  ASSUME SeatsInv, SpawnRecords
  PROVE  SeatsInv'
<1>0. SeatsTypeOK /\ TapeFits /\ SeatsFit /\ RightsFit /\ LeasesFit /\ WorkspacesFit /\ SpawnFits
  BY DEF SeatsInv
<1>1. Spawning /\ call.at = "record" /\ UNCHANGED <<parent, seats, bound, flagged, raised, lease, wp, owed>>
  BY DEF SpawnRecords, Doing, Spawning
<1>2. PICK id \in Worker, p \in Node : id = call.id /\ p = call.parent
  BY <1>0, <1>1, CallTyped DEF SpawnFits, Spawning
<1>3. SeatsTypeOK' /\ Hung \in Trees /\ Rebuilt \in Trees /\ parent \in Trees
      /\ \A w \in Worker : Hung[w] = IF w \in Early THEN Nil ELSE parent[w]
  BY <1>0, TypedSpawn, ReadsTyped
<1> DEFINE line == [op |-> "spawn", id |-> id, parent |-> p]
<1>4. line \in SeatLine /\ line.op = "spawn" /\ line.id = id /\ line.parent = p
  BY DEF SeatLine
<1>5. PICK at \in {"charter", "unwind"} :
        /\ Goto(at) /\ (Taped(line) \/ TapedOrLost(line)) /\ (at = "charter" => Taped(line))
  BY <1>2 DEF SpawnRecords
<1> HIDE DEF line
<1>6. /\ call'.at = at /\ call'.id = id /\ call'.parent = p /\ call'.charter = call.charter
      /\ Starting = {id} /\ Starting' = {id} /\ Revoked = {} /\ Revoked' = {} /\ Late' = {id}
      /\ Early' = (IF at = "unwind" THEN {id} ELSE {}) /\ Unwinding' = (IF at = "unwind" THEN {id} ELSE {})
      /\ SeatsFit' /\ ReleaseFits'
  BY <1>1, <1>2, <1>5, SpawnGoesOn
<1>7. Early = {id} /\ Late = {id} /\ Unwinding = {}
  BY <1>1, <1>2 DEF Early, Late, Unwinding
<1>8. /\ parent[id] = p /\ id \notin seats /\ (\A w \in Worker : parent[w] # id)
      /\ (p # Root => bound[p] # Nil /\ call.charter \subseteq bound[p])
      /\ Retiring \subseteq {id} /\ bound[id] = Nil /\ id \notin flagged
  BY <1>0, <1>1, <1>2 DEF SpawnFits
<1>9. Hung[id] = Nil /\ (p # Root => Hung[p] # Nil)
  <2>1. ASSUME p # Root PROVE Hung[p] # Nil
    <3>1. p \in Worker /\ p # id
      BY <1>8, <2>1, SeatsAssumption DEF Node
    <3>2. p \in seats
      BY <1>0, <1>6, <1>8, <2>1, <3>1 DEF RightsFit
    <3> QED
      BY <1>0, <1>3, <1>7, <3>1, <3>2 DEF SeatsFit
  <2> QED
    BY <1>3, <1>7, <2>1
<1>10. Leads(Hung, Retiring) /\ Hangs(Rebuilt, Hung, EndedNow, AdriftNow, Retiring, Unsure)
  BY <1>0 DEF TapeFits
\* The tape with the line: the worker is on it, whatever the caller hears.
<1>11. ASSUME journal' = Append(journal, line) PROVE TapeFits' /\ Pending' = Nil /\ Retiring' = {}
  <2>1. Rebuilt' = Replay(Rebuilt, line) /\ EndedNow' = EndedNow \ {id} /\ Pending' = Nil
        /\ AdriftNow' = IF Root \in Above(Rebuilt', id) THEN AdriftNow \ {id} ELSE AdriftNow \cup {id}
    BY <1>0, <1>4, <1>11, TapeGrows
  <2>2. Retiring' = {}
    BY <2>1 DEF Retiring
  <2>3. PICK next, drifting, ends : next = Rebuilt' /\ drifting = AdriftNow' /\ ends = EndedNow \ {id}
    OBVIOUS
  <2>4. SpawnsUnder(Rebuilt, next, id, p)
    BY <1>4, <2>1, <2>3 DEF Replay, SpawnsUnder
  <2>5. Drifts(AdriftNow, drifting, next, id)
    BY <2>1, <2>3 DEF Drifts
  <2>6. /\ next \in Trees /\ next[id] = p
        /\ Leads(Hung, {}) /\ Hangs(next, Hung, EndedNow \ {id}, drifting, {}, Unsure \cup {id})
    <3>1. Retiring \subseteq {id} /\ Hung[id] = Nil /\ (p # Root => Hung[p] # Nil) /\ Hung \in Trees /\ Rebuilt \in Trees
      BY <1>3, <1>8, <1>9
    <3> QED
      BY <1>10, <2>4, <2>5, <3>1, SpawnLineFits
  <2>7. Hangs(next, Hung, ends, drifting, {}, Unsure \cup {id}) /\ id \notin ends
    BY <2>3, <2>6
  <2>8. CASE at = "charter"
    <3>1. PICK more : more = Hung'
      OBVIOUS
    <3>2. Mounts(Hung, more, id, p)
      <4>1. Early' = {}
        BY <1>6, <2>8
      <4>2. Hung' = [w \in Worker |-> parent[w]]
        BY <1>1, <4>1 DEF Hung
      <4>3. more \in Trees /\ \A w \in Worker : more[w] = parent[w]
        BY <1>3, <3>1, <4>2 DEF Trees
      <4> QED
        BY <1>3, <1>7, <1>8, <4>3 DEF Mounts
    <3>3. Leads(more, {}) /\ Hangs(next, more, ends, drifting, {}, Unsure)
      BY <1>3, <1>9, <2>6, <2>7, <3>2, MountFits
    <3>4. Unsure' = Unsure
      BY <1>1, <1>6, <1>7, <2>8 DEF Unsure
    <3>5. Leads(Hung', Retiring') /\ Hangs(Rebuilt', Hung', EndedNow', AdriftNow', Retiring', Unsure')
      BY <2>1, <2>2, <2>3, <3>1, <3>3, <3>4
    <3> QED
      BY <2>1, <2>2, <3>5 DEF TapeFits
  <2>9. CASE at = "unwind"
    <3>1. Hung' = Hung
      BY <1>1, <1>6, <1>7, <2>9 DEF Hung
    <3>2. Unsure' = Unsure \cup {id}
      BY <1>1, <1>6, <1>7, <2>9 DEF Unsure
    <3>3. Leads(Hung', Retiring') /\ Hangs(Rebuilt', Hung', EndedNow', AdriftNow', Retiring', Unsure')
      BY <2>1, <2>2, <2>3, <2>6, <2>7, <3>1, <3>2
    <3> QED
      BY <2>1, <2>2, <3>3 DEF TapeFits
  <2> QED
    BY <2>8, <2>9
<1>12. ASSUME journal' = journal PROVE at = "unwind" /\ TapeFits' /\ Retiring' \subseteq {id}
  <2>1. at = "unwind"
    <3>1. journal \in Seq(SeatLine)
      BY <1>0 DEF SeatsTypeOK
    <3>2. Append(journal, line) # journal
      BY <1>4, <3>1, AppendProperties, LenProperties
    <3> QED
      BY <1>5, <1>12, <3>2 DEF Taped
  <2>2. Hung' = Hung
    BY <1>1, <1>6, <1>7, <2>1 DEF Hung
  <2>3. Unsure \subseteq Unsure'
    BY <1>1, <1>7 DEF Unsure
  <2> QED
    BY <1>0, <1>8, <1>12, <2>1, <2>2, <2>3, TapeStays
<1>13. TapeFits' /\ Retiring' \subseteq {id} /\ (at = "charter" => Pending' = Nil)
  BY <1>5, <1>11, <1>12 DEF Taped, TapedOrLost
<1>14. RightsFit' /\ LeasesFit'
  BY <1>0, <1>1, <1>6 DEF RightsFit, LeasesFit
<1>15. WorkspacesFit'
  BY <1>0, <1>1, <1>6, <1>7, <1>8 DEF WorkspacesFit
<1>16. SpawnFits'
  BY <1>1, <1>2, <1>5, <1>6, <1>8, <1>13 DEF SpawnFits
<1> QED
  BY <1>3, <1>6, <1>13, <1>14, <1>15, <1>16 DEF SeatsInv

LEMMA InvSpawnUnwound ==
  ASSUME SeatsInv, SpawnUnwound
  PROVE  SeatsInv'
<1>0. SeatsTypeOK /\ TapeFits /\ WorkspacesFit /\ SpawnFits
  BY DEF SeatsInv
<1>1. Spawning /\ call.at = "unwound" /\ UNCHANGED <<seats, bound, flagged, raised, lease, wp>>
  BY DEF SpawnUnwound, Doing, Spawning
<1>2. PICK id \in Worker : id = call.id
  BY <1>0, <1>1, CallTyped DEF Spawning
<1>3. SeatsTypeOK' /\ Hung \in Trees /\ \A w \in Worker : Hung[w] = IF w \in Early THEN Nil ELSE parent[w]
  BY <1>0, TypedSpawn, ReadsTyped
<1> DEFINE line == [op |-> "release", id |-> id]
<1>4. line \in SeatLine /\ line.op = "release" /\ line.id = id
  BY DEF SeatLine
<1>5. /\ Unmount({id}) /\ call' = Nil
      /\ (Taped(line) /\ owed' = owed \ {id}) \/ (TapedOrLost(line) /\ owed' = owed \cup {id})
  BY <1>2 DEF SpawnUnwound, LeftToRelease
<1> HIDE DEF line
<1>6. /\ Hung' = Hung /\ Unwinding' = {} /\ Late' = {}
      /\ SeatsFit' /\ RightsFit' /\ LeasesFit' /\ SpawnFits' /\ ReleaseFits'
  BY <1>1, <1>2, <1>5, SpawnGivenUp
<1>7. Early = {id} /\ Late = {id} /\ Unwinding = {id} /\ Hung[id] = Nil
  BY <1>1, <1>2, <1>3 DEF Early, Late, Unwinding
<1>8. Retiring \subseteq {id} /\ id \notin wp
  BY <1>0, <1>1, <1>2 DEF SpawnFits
<1>9. ASSUME journal' = Append(journal, line) PROVE TapeFits'
  <2>1. Rebuilt' = Replay(Rebuilt, line) /\ EndedNow' = EndedNow /\ AdriftNow' = AdriftNow /\ Pending' = Nil
    BY <1>0, <1>4, <1>9, TapeGrows
  <2>2. Rebuilt' = Pruned(Rebuilt, {id})
    BY <1>4, <2>1 DEF Replay
  <2>3. Retiring' = {}
    BY <2>1 DEF Retiring
  <2>4. Leads(Hung, Retiring)
    BY <1>0 DEF TapeFits
  <2>5. Leads(Hung, {})
    BY <2>4 DEF Leads
  <2>6. \A w \in Worker : Hung[w] # Nil => w \notin Retiring /\ Above(Hung, w) \cap {id} = {}
    BY <1>3, <1>7, <1>8, <2>4, OutIsNotOver
  <2>7. \A w \in Worker : w \in Unsure => w \in Unsure' \/ w \in {id}
    BY <1>5, <1>7 DEF Unsure
  <2>8. EndedNow \in SUBSET Worker
    BY <1>0, ReadsTyped
  <2> QED
    BY <1>0, <1>6, <2>1, <2>2, <2>3, <2>5, <2>6, <2>7, <2>8, TakenOff
<1>10. ASSUME journal' = journal, owed' = owed \cup {id} PROVE TapeFits'
  <2>1. Unsure' = Unsure
    BY <1>6, <1>7, <1>10 DEF Unsure
  <2> QED
    BY <1>0, <1>6, <1>10, <2>1, TapeStays
<1>11. TapeFits'
  BY <1>5, <1>9, <1>10 DEF Taped, TapedOrLost
<1>12. WorkspacesFit'
  <2>1. wp \subseteq seats \cup owed
    BY <1>0, <1>7, <1>8 DEF WorkspacesFit
  <2>2. wp \subseteq seats \cup owed'
    BY <1>5, <1>8, <2>1
  <2> QED
    BY <1>1, <2>2 DEF WorkspacesFit
<1> QED
  BY <1>3, <1>6, <1>11, <1>12 DEF SeatsInv

\* A spawn's step that leaves the tape and the tree alone, once the worker is on both.
LEMMA SpawnTaped ==
  ASSUME SeatsInv, Spawning, call.at \in {"charter", "flag"}, NEW at \in {"flag", "seat"}, Goto(at),
         UNCHANGED <<journal, parent, seats, wp, owed>>
  PROVE  /\ Pending' = Pending /\ Retiring' = Retiring /\ TapeFits' /\ WorkspacesFit'
<1>0. SeatsTypeOK /\ TapeFits /\ WorkspacesFit
  BY DEF SeatsInv
<1>1. Late' = {call.id} /\ Early' = {} /\ Unwinding' = {}
  BY SpawnGoesOn
<1>2. Late = {call.id} /\ Early = {} /\ Unwinding = {}
  BY DEF Late, Early, Unwinding
<1>3. Hung' = Hung /\ Unsure' = Unsure
  BY <1>1, <1>2 DEF Hung, Unsure
<1>4. Pending' = Pending /\ Retiring' = Retiring /\ TapeFits'
  BY <1>0, <1>3, TapeStays
<1> QED
  BY <1>0, <1>1, <1>2, <1>4 DEF WorkspacesFit

LEMMA InvSpawnCharters ==
  ASSUME SeatsInv, SpawnCharters
  PROVE  SeatsInv'
<1>0. SeatsTypeOK /\ SeatsFit /\ RightsFit /\ LeasesFit /\ SpawnFits
  BY DEF SeatsInv
<1>1. Spawning /\ call.at = "charter" /\ Goto("flag")
      /\ bound' = [bound EXCEPT ![call.id] = call.charter]
      /\ UNCHANGED <<journal, parent, seats, flagged, raised, lease, wp, owed>>
  BY DEF SpawnCharters, Doing, Spawning
<1>2. SeatsTypeOK' /\ call.id \in Worker /\ call.charter \in Charter
  BY <1>0, <1>1, TypedSpawn, CallTyped DEF Spawning
<1>3. Pending' = Pending /\ Retiring' = Retiring /\ TapeFits' /\ WorkspacesFit'
  BY <1>1, SpawnTaped
<1>4. /\ call'.at = "flag" /\ call'.id = call.id /\ call'.parent = call.parent /\ call'.charter = call.charter
      /\ Starting = {call.id} /\ Starting' = {call.id} /\ Revoked = {} /\ Revoked' = {}
      /\ SeatsFit' /\ ReleaseFits'
  BY <1>1, SpawnGoesOn
<1>5. bound'[call.id] = call.charter /\ \A w \in Worker : w # call.id => bound'[w] = bound[w]
  BY <1>0, <1>1, <1>2 DEF SeatsTypeOK
<1>6. /\ parent[call.id] = call.parent /\ call.parent \in Node /\ call.id \notin seats
      /\ \A w \in Worker : parent[w] # call.id
      /\ (call.parent # Root => bound[call.parent] # Nil /\ call.charter \subseteq bound[call.parent])
      /\ Retiring \subseteq {call.id} /\ Pending = Nil
  BY <1>0, <1>1 DEF SpawnFits
<1>7. call.charter # Nil /\ call.parent # call.id /\ Root \notin Worker
  BY <1>2, <1>6, SeatsAssumption
<1>8. RightsFit'
  <2>1. \A w \in seats : w \in flagged /\ bound'[w] # Nil
    <3>1. \A w \in seats : w \in Worker
      BY <1>0 DEF SeatsTypeOK
    <3> QED
      BY <1>0, <1>4, <1>5, <1>7, <3>1 DEF RightsFit
  <2>2. \A w \in Worker : bound'[w] # Nil => w \in seats \cup {call.id}
    BY <1>0, <1>4, <1>5 DEF RightsFit
  <2>3. ASSUME NEW w \in Worker, parent[w] \in Worker, bound'[w] # Nil
        PROVE  bound'[parent[w]] # Nil /\ bound'[w] \subseteq bound'[parent[w]]
    <3>1. bound'[parent[w]] = bound[parent[w]]
      BY <1>5, <1>6, <2>3
    <3>2. CASE w = call.id
      BY <1>5, <1>6, <1>7, <2>3, <3>1, <3>2
    <3>3. CASE w # call.id
      BY <1>0, <1>5, <2>3, <3>1, <3>3 DEF RightsFit
    <3> QED
      BY <3>2, <3>3
  <2>4. flagged \subseteq seats \cup {call.id}
    BY <1>0, <1>4 DEF RightsFit
  <2> QED
    BY <1>1, <1>4, <2>1, <2>2, <2>3, <2>4 DEF RightsFit
<1>9. LeasesFit'
  BY <1>0, <1>1 DEF LeasesFit
<1>10. SpawnFits'
  <2>1. call.parent # Root => bound'[call.parent] = bound[call.parent]
    BY <1>5, <1>6, <1>7 DEF Node
  <2> QED
    BY <1>1, <1>3, <1>4, <1>5, <1>6, <1>7, <2>1 DEF SpawnFits
<1> QED
  BY <1>2, <1>3, <1>4, <1>8, <1>9, <1>10 DEF SeatsInv

LEMMA InvSpawnFlags ==
  ASSUME SeatsInv, SpawnFlags
  PROVE  SeatsInv'
<1>0. SeatsTypeOK /\ SeatsFit /\ RightsFit /\ LeasesFit /\ SpawnFits
  BY DEF SeatsInv
<1>1. Spawning /\ call.at = "flag" /\ Goto("seat")
      /\ flagged' = flagged \cup {call.id} /\ raised' = raised \ {call.id}
      /\ lease' = [w \in Worker |-> IF call.id \in lease[w] THEN {} ELSE lease[w]]
      /\ UNCHANGED <<journal, parent, seats, bound, wp, owed>>
  BY DEF SpawnFlags, Doing, Spawning
<1>2. SeatsTypeOK'
  BY <1>0, TypedSpawn
<1>3. Pending' = Pending /\ Retiring' = Retiring /\ TapeFits' /\ WorkspacesFit'
  BY <1>1, SpawnTaped
<1>4. /\ call'.at = "seat" /\ call'.id = call.id /\ call'.parent = call.parent /\ call'.charter = call.charter
      /\ Starting = {call.id} /\ Starting' = {call.id} /\ Revoked = {} /\ Revoked' = {}
      /\ SeatsFit' /\ ReleaseFits'
  BY <1>1, SpawnGoesOn
<1>5. RightsFit'
  BY <1>0, <1>1, <1>4 DEF RightsFit
<1>6. LeasesFit'
  <2>1. \A w \in Worker : lease'[w] = IF call.id \in lease[w] THEN {} ELSE lease[w]
    BY <1>1
  <2>2. ASSUME NEW w \in Worker, lease'[w] # {} PROVE w \in lease'[w] /\ w \in flagged' \cup raised'
    <3>1. lease'[w] = lease[w] /\ call.id \notin lease[w] /\ w \in lease[w] /\ w \in flagged \cup raised
      BY <1>0, <2>1, <2>2 DEF LeasesFit
    <3> QED
      BY <1>1, <3>1
  <2> QED
    BY <2>2 DEF LeasesFit
<1>7. SpawnFits'
  BY <1>0, <1>1, <1>3, <1>4 DEF SpawnFits
<1> QED
  BY <1>2, <1>3, <1>4, <1>5, <1>6, <1>7 DEF SeatsInv

LEMMA InvSpawnSeats ==
  ASSUME SeatsInv, SpawnSeats
  PROVE  SeatsInv'
<1>0. SeatsTypeOK /\ TapeFits /\ SeatsFit /\ RightsFit /\ LeasesFit /\ WorkspacesFit /\ SpawnFits
  BY DEF SeatsInv
<1>1. Spawning /\ call.at = "seat" /\ call' = Nil
      /\ seats' = seats \cup {call.id} /\ owed' = owed \ {call.id}
      /\ UNCHANGED <<journal, parent, bound, flagged, raised, lease, wp>>
  BY DEF SpawnSeats, Doing, Spawning
<1>2. SeatsTypeOK' /\ call.id \in Worker /\ \A w \in Worker : Hung[w] = IF w \in Early THEN Nil ELSE parent[w]
  BY <1>0, <1>1, TypedSpawn, CallTyped, ReadsTyped DEF Spawning
<1>3. /\ parent[call.id] = call.parent /\ call.parent \in Node
      /\ Pending = Nil /\ bound[call.id] # Nil /\ call.id \in flagged
  BY <1>0, <1>1 DEF SpawnFits
<1>4. Starting = {call.id} /\ Revoked = {} /\ Early = {} /\ Late = {call.id} /\ Unwinding = {}
  BY <1>1 DEF Starting, Revoked, Early, Late, Unwinding, Spawning, Releasing
<1>5. Starting' = {} /\ Revoked' = {} /\ Early' = {} /\ Late' = {} /\ Unwinding' = {} /\ ~Spawning' /\ ~Releasing'
  BY <1>1 DEF Starting, Revoked, Early, Late, Unwinding, Spawning, Releasing
<1>6. Pending' = Pending /\ Retiring' = Retiring /\ TapeFits'
  <2>1. Hung' = Hung
    BY <1>1, <1>4, <1>5 DEF Hung
  <2>2. \A w \in Worker : w \in Unsure => w \in Unsure' \/ Hung[w] # Nil
    BY <1>1, <1>2, <1>3, <1>4, SeatsAssumption DEF Unsure
  <2> QED
    BY <1>0, <1>1, <2>1, <2>2, TapeStays
<1>7. SeatsFit'
  <2>1. \A w \in seats' : parent[w] # Nil
    BY <1>0, <1>1, <1>3, SeatsAssumption DEF SeatsFit
  <2>2. \A w \in Worker : parent[w] # Nil => w \in seats'
    BY <1>0, <1>1, <1>4 DEF SeatsFit
  <2> QED
    BY <1>1, <1>5, <2>1, <2>2 DEF SeatsFit
<1>8. RightsFit'
  BY <1>0, <1>1, <1>3, <1>4, <1>5 DEF RightsFit
<1>9. LeasesFit' /\ WorkspacesFit'
  BY <1>0, <1>1, <1>4, <1>5, <1>6 DEF LeasesFit, WorkspacesFit
<1> QED
  BY <1>2, <1>5, <1>6, <1>7, <1>8, <1>9 DEF SeatsInv, SpawnFits, ReleaseFits

(* ---------------------------------- release --------------------------------- *)

\* What every step of a release starts from.
LEMMA ReleaseHolds ==
  ASSUME SeatsInv, Releasing
  PROVE  /\ call.id \in Worker /\ call.ids \in SUBSET Worker /\ call.id \in call.ids
         /\ Pending # Nil /\ call.ids = Pending.workers /\ Retiring = call.ids
         /\ Starting = {} /\ Early = {} /\ Late = {} /\ Unwinding = {}
         /\ Revoked = IF call.at = "revoke" THEN {} ELSE call.ids
         /\ Hung = parent
         /\ \A w \in Worker : parent[w] # Nil => w \in seats
         /\ \A w \in Worker : parent[w] # Nil /\ Above(parent, w) \cap call.ids # {} => w \in call.ids
<1>0. SeatsTypeOK /\ TapeFits /\ SeatsFit /\ ReleaseFits
  BY DEF SeatsInv
<1>1. call.id \in Worker /\ call.ids \in SUBSET Worker
  BY <1>0, CallTyped DEF Releasing
<1>2. Pending # Nil /\ call.ids = Pending.workers /\ call.id \in call.ids
  BY <1>0 DEF ReleaseFits
<1>3. /\ Retiring = call.ids /\ Revoked = IF call.at = "revoke" THEN {} ELSE call.ids
      /\ Starting = {} /\ Early = {} /\ Late = {} /\ Unwinding = {}
  BY <1>2 DEF Retiring, Revoked, Starting, Early, Late, Unwinding, Spawning, Releasing
<1>4. Hung = parent
  <2>1. Hung \in Trees /\ parent \in Trees /\ \A w \in Worker : Hung[w] = parent[w]
    BY <1>0, <1>3, ReadsTyped
  <2> QED
    BY <2>1 DEF Trees
<1>5. \A w \in Worker : parent[w] # Nil => w \in seats
  BY <1>0, <1>3 DEF SeatsFit
<1>6. \A w \in Worker : parent[w] # Nil /\ Above(parent, w) \cap call.ids # {} => w \in call.ids
  BY <1>0, <1>3, <1>4 DEF TapeFits, Leads
<1> QED
  BY <1>1, <1>2, <1>3, <1>4, <1>5, <1>6

\* Outside a spawn the tree is the recorder's, and nothing of it is uncertain but what the
\* callers were told of.
LEMMA NoSpawn ==
  ASSUME SeatsTypeOK', ~Spawning'
  PROVE  Hung' = parent' /\ Unsure' = owed' /\ Starting' = {} /\ Late' = {} /\ SpawnFits'
<1>1. Early' = {} /\ Unwinding' = {} /\ Starting' = {} /\ Late' = {}
  BY DEF Early, Unwinding, Starting, Late
<1>2. Hung' = [w \in Worker |-> parent'[w]] /\ parent' = [w \in Worker |-> parent'[w]]
  BY <1>1 DEF Hung, SeatsTypeOK
<1> QED
  BY <1>1, <1>2 DEF Unsure, SpawnFits

\* Between calls.
LEMMA NoCall ==
  ASSUME SeatsTypeOK, call = Nil
  PROVE  /\ Hung = parent /\ Unsure = owed /\ Starting = {} /\ Late = {} /\ Revoked = {}
         /\ ~Spawning /\ ~Releasing
<1>1. Early = {} /\ Unwinding = {} /\ Starting = {} /\ Late = {} /\ Revoked = {} /\ ~Spawning /\ ~Releasing
  BY DEF Early, Unwinding, Starting, Late, Revoked, Spawning, Releasing
<1>2. Hung = [w \in Worker |-> parent[w]] /\ parent = [w \in Worker |-> parent[w]]
  BY <1>1 DEF Hung, SeatsTypeOK
<1> QED
  BY <1>1, <1>2 DEF Unsure

LEMMA InvReleaseResumes ==
  ASSUME SeatsInv, NEW w \in Worker, ReleaseResumes(w)
  PROVE  SeatsInv'
<1>0. SeatsTypeOK /\ TapeFits /\ SeatsFit /\ RightsFit /\ LeasesFit /\ WorkspacesFit
  BY DEF SeatsInv
<1>1. call = Nil /\ Pending # Nil /\ Pending.id = w /\ call' = ReleaseCall(w, Pending.workers)
      /\ UNCHANGED <<journal, parent, seats, bound, flagged, raised, lease, wp, owed>>
  BY DEF ReleaseResumes
<1>2. SeatsTypeOK' /\ Pending.workers \in SUBSET Worker
  BY <1>0, <1>1, TypedReleaseBegins, ReadsTyped
<1>3. call' # Nil /\ call'.op = "release" /\ call'.at = "revoke" /\ call'.id = w /\ call'.ids = Pending.workers
  BY <1>1, <1>2, ReleaseCallTyped
<1>4. ~Spawning' /\ Releasing' /\ Revoked' = {}
  BY <1>3 DEF Spawning, Releasing, Revoked
<1>5. Hung = parent /\ Unsure = owed /\ Starting = {} /\ Late = {} /\ Revoked = {}
  BY <1>0, <1>1, NoCall
<1>6. Hung' = parent' /\ Unsure' = owed' /\ Starting' = {} /\ Late' = {} /\ SpawnFits'
  BY <1>2, <1>4, NoSpawn
<1>7. Pending' = Pending /\ Retiring' = Retiring /\ TapeFits'
  BY <1>0, <1>1, <1>5, <1>6, TapeStays
<1>8. SeatsFit' /\ RightsFit' /\ LeasesFit' /\ WorkspacesFit'
  BY <1>0, <1>1, <1>4, <1>5, <1>6, <1>7 DEF SeatsFit, RightsFit, LeasesFit, WorkspacesFit
<1>9. ReleaseFits'
  <2>1. Pending.id \in Pending.workers
    BY <1>0, <1>1 DEF TapeFits
  <2> QED
    BY <1>1, <1>3, <1>7, <2>1 DEF ReleaseFits
<1> QED
  BY <1>2, <1>6, <1>7, <1>8, <1>9 DEF SeatsInv

LEMMA InvReleaseBegins ==
  ASSUME SeatsInv, NEW w \in Worker, ReleaseBegins(w)
  PROVE  SeatsInv'
<1>0. SeatsTypeOK /\ TapeFits /\ SeatsFit /\ RightsFit /\ LeasesFit /\ WorkspacesFit
  BY DEF SeatsInv
<1>1. call = Nil /\ Pending = Nil /\ InTree(w) /\ UNCHANGED <<parent, seats, bound, flagged, raised, lease, wp, owed>>
  BY DEF ReleaseBegins
<1>2. SeatsTypeOK' /\ w # Root /\ parent \in Trees
  BY <1>0, TypedReleaseBegins, ReadsTyped, SeatsAssumption
<1>3. /\ parent[w] # Nil /\ Retiring = {}
      /\ Hung = parent /\ Unsure = owed /\ Starting = {} /\ Late = {} /\ Revoked = {} /\ ~Spawning /\ ~Releasing
  BY <1>0, <1>1, <1>2, NoCall DEF InTree, Retiring
<1>4. PICK ids : ids = Descendants(w)
  OBVIOUS
<1>5. /\ ids \in SUBSET Worker /\ w \in ids
      /\ \A v \in Worker : v \in ids <=> parent[v] # Nil /\ w \in Above(parent, v)
  BY <1>1, <1>4, SelfAbove, SeatsAssumption DEF Descendants, InTree, Chain, Node
<1> DEFINE line == [op |-> "release_pending", id |-> w, workers |-> ids]
<1>6. line \in SeatLine /\ line.op = "release_pending" /\ line.id = w /\ line.workers = ids /\ line # Nil
  BY <1>5, SeatsAssumption DEF SeatLine
<1>7. \/ Taped(line) /\ call' = ReleaseCall(w, ids)
      \/ TapedOrLost(line) /\ UNCHANGED call
  BY <1>4 DEF ReleaseBegins
<1> HIDE DEF line
<1>8. ~Spawning' /\ Revoked' = {}
      /\ (Releasing' => Taped(line) /\ call'.op = "release" /\ call'.at = "revoke" /\ call'.id = w /\ call'.ids = ids)
  <2>1. CASE Taped(line) /\ call' = ReleaseCall(w, ids)
    <3>1. call' # Nil /\ call'.op = "release" /\ call'.at = "revoke" /\ call'.id = w /\ call'.ids = ids
      BY <1>5, <2>1, ReleaseCallTyped
    <3> QED
      BY <2>1, <3>1 DEF Spawning, Releasing, Revoked
  <2>2. CASE UNCHANGED call
    BY <1>1, <2>2 DEF Spawning, Releasing, Revoked
  <2> QED
    BY <1>7, <2>1, <2>2
<1>9. Hung' = Hung /\ Unsure' = Unsure /\ Starting' = {} /\ Late' = {} /\ SpawnFits'
  BY <1>1, <1>2, <1>3, <1>8, NoSpawn
<1>10. Leads(parent, {})
  BY <1>0, <1>3 DEF TapeFits
<1>11. ASSUME journal' = Append(journal, line)
       PROVE  Pending' = line /\ TapeFits'
  <2>1. Rebuilt' = Replay(Rebuilt, line) /\ EndedNow' = EndedNow /\ AdriftNow' = AdriftNow /\ Pending' = line
    BY <1>0, <1>6, <1>11, TapeGrows
  <2>2. Rebuilt' = Pruned(Rebuilt, {w})
    BY <1>6, <2>1 DEF Replay
  <2>3. Retiring' = ids
    BY <1>6, <2>1 DEF Retiring
  <2>4. Leads(parent, ids)
    <3>1. ASSUME NEW v \in Worker, parent[v] # Nil, NEW u \in Above(parent, v), u \in ids PROVE v \in ids
      <4>1. w \in Above(parent, u)
        BY <1>5, <3>1
      <4>2. Above(parent, u) \subseteq Above(parent, v)
        BY <1>2, <3>1, AboveGoesOn DEF Node
      <4> QED
        BY <1>5, <3>1, <4>1, <4>2
    <3> QED
      BY <1>10, <3>1 DEF Leads
  <2>5. /\ \A v \in Worker : Hung[v] # Nil /\ Above(Hung, v) \cap {w} # {} => v \in ids
        /\ \A v \in Worker : Hung[v] # Nil /\ v \in ids => Above(Hung, v) \cap {w} # {}
    BY <1>3, <1>5
  <2>6. EndedNow \in SUBSET Worker
    BY <1>0, ReadsTyped
  <2>7. Pending'.id \in Pending'.workers
    BY <1>5, <1>6, <2>1
  <2>8. TapeFits'
    BY <1>0, <1>3, <1>9, <2>1, <2>2, <2>3, <2>4, <2>5, <2>6, <2>7, TakenOff
  <2> QED
    BY <2>1, <2>8
<1>12. ASSUME journal' = journal PROVE TapeFits'
  BY <1>0, <1>9, <1>12, TapeStays
<1>13. TapeFits'
  BY <1>7, <1>11, <1>12 DEF Taped, TapedOrLost
<1>14. ReleaseFits'
  <2>1. Releasing' => Pending' = line
    BY <1>8, <1>11 DEF Taped
  <2> QED
    BY <1>5, <1>6, <1>8, <2>1 DEF ReleaseFits
<1>15. SeatsFit' /\ RightsFit' /\ LeasesFit'
  BY <1>0, <1>1, <1>3, <1>8, <1>9 DEF SeatsFit, RightsFit, LeasesFit
<1>16. WorkspacesFit'
  BY <1>0, <1>1, <1>3 DEF WorkspacesFit
<1> QED
  BY <1>2, <1>9, <1>13, <1>14, <1>15, <1>16 DEF SeatsInv

\* A release's step to its next phase.
LEMMA ReleaseGoesOn ==
  ASSUME SeatsInv, SeatsTypeOK', Releasing, NEW at \in {"unseat", "abandon", "done"}, Goto(at), UNCHANGED owed
  PROVE  /\ call'.at = at /\ call'.id = call.id /\ call'.ids = call.ids
         /\ Revoked' = call.ids /\ ~Spawning' /\ Releasing'
         /\ Hung' = parent' /\ Unsure' = Unsure /\ Starting' = {} /\ Late' = {} /\ SpawnFits'
<1>1. call' # Nil /\ call'.op = "release" /\ call'.at = at /\ call'.id = call.id /\ call'.ids = call.ids
  BY CallGoesOn DEF SeatsInv, Releasing
<1>2. ~Spawning' /\ Releasing' /\ Revoked' = call.ids
  BY <1>1 DEF Spawning, Releasing, Revoked
<1>3. Hung' = parent' /\ Unsure' = owed' /\ Starting' = {} /\ Late' = {} /\ SpawnFits'
  BY <1>2, NoSpawn
<1>4. Unsure = owed
  BY ReleaseHolds DEF Unsure
<1> QED
  BY <1>1, <1>2, <1>3, <1>4

LEMMA InvReleaseRevokes ==
  ASSUME SeatsInv, ReleaseRevokes
  PROVE  SeatsInv'
<1>0. SeatsTypeOK /\ TapeFits /\ SeatsFit /\ RightsFit /\ LeasesFit /\ WorkspacesFit /\ ReleaseFits
  BY DEF SeatsInv
<1>1. Releasing /\ call.at = "revoke" /\ Goto("unseat")
      /\ bound' = [w \in Worker |-> IF w \in call.ids THEN Nil ELSE bound[w]]
      /\ flagged' = flagged \ call.ids
      /\ raised' = raised \cup (flagged \cap call.ids)
      /\ UNCHANGED <<journal, parent, seats, lease, wp, owed>>
  BY DEF ReleaseRevokes, Doing, Releasing
<1>2. SeatsTypeOK'
  BY <1>0, TypedRelease
<1>3. /\ call'.at = "unseat" /\ call'.id = call.id /\ call'.ids = call.ids /\ Revoked' = call.ids
      /\ Hung' = parent' /\ Unsure' = Unsure /\ Starting' = {} /\ Late' = {} /\ SpawnFits'
  BY <1>1, <1>2, ReleaseGoesOn
<1>4. /\ call.ids \in SUBSET Worker /\ Starting = {} /\ Late = {} /\ Revoked = {} /\ Hung = parent
      /\ \A w \in Worker : parent[w] # Nil /\ Above(parent, w) \cap call.ids # {} => w \in call.ids
  BY <1>1, ReleaseHolds
<1>5. Pending' = Pending /\ Retiring' = Retiring /\ TapeFits'
  BY <1>0, <1>1, <1>3, <1>4, TapeStays
<1>6. SeatsFit' /\ WorkspacesFit'
  BY <1>0, <1>1, <1>3, <1>4, <1>5 DEF SeatsFit, WorkspacesFit
<1>7. \A w \in Worker : bound'[w] = IF w \in call.ids THEN Nil ELSE bound[w]
  BY <1>1
<1>8. RightsFit'
  <2>1. \A w \in seats \ call.ids : w \in flagged' /\ bound'[w] # Nil
    BY <1>0, <1>1, <1>4, <1>7 DEF RightsFit, SeatsTypeOK
  <2>2. flagged' \subseteq seats /\ \A w \in Worker : bound'[w] # Nil => w \in seats
    BY <1>0, <1>1, <1>4, <1>7 DEF RightsFit
  \* Who hangs under one that retires retires with it.
  <2>3. ASSUME NEW w \in Worker, parent[w] \in Worker, bound'[w] # Nil
        PROVE  bound'[parent[w]] # Nil /\ bound'[w] \subseteq bound'[parent[w]]
    <3>1. w \notin call.ids /\ bound'[w] = bound[w]
      BY <1>7, <2>3
    <3>2. parent[w] # Nil /\ parent \in Trees
      BY <1>0, <2>3, ReadsTyped, SeatsAssumption DEF Node
    <3>3. Above(parent, w) = {w} \cup Above(parent, parent[w])
      BY <3>2, AboveStep
    <3>4. parent[w] \in Above(parent, parent[w])
      BY <2>3, SelfAbove DEF Node
    <3>5. parent[w] \notin call.ids
      BY <1>4, <3>1, <3>2, <3>3, <3>4
    <3>6. bound'[parent[w]] = bound[parent[w]]
      BY <1>7, <2>3, <3>5
    <3> QED
      BY <1>0, <2>3, <3>1, <3>6 DEF RightsFit
  <2> QED
    BY <1>1, <1>3, <2>1, <2>2, <2>3 DEF RightsFit
<1>9. LeasesFit'
  BY <1>0, <1>1 DEF LeasesFit
<1>10. ReleaseFits'
  BY <1>0, <1>1, <1>3, <1>4, <1>5, <1>7 DEF ReleaseFits
<1> QED
  BY <1>2, <1>3, <1>5, <1>6, <1>8, <1>9, <1>10 DEF SeatsInv

LEMMA InvReleaseUnseats ==
  ASSUME SeatsInv, ReleaseUnseats
  PROVE  SeatsInv'
<1>0. SeatsTypeOK /\ TapeFits /\ SeatsFit /\ RightsFit /\ LeasesFit /\ WorkspacesFit /\ ReleaseFits
  BY DEF SeatsInv
<1>1. Releasing /\ call.at = "unseat" /\ Goto("abandon")
      /\ seats' = seats \ call.ids /\ Unmount(seats \cap call.ids)
      /\ UNCHANGED <<journal, bound, flagged, raised, lease, wp, owed>>
  BY DEF ReleaseUnseats, Doing, Releasing
<1>2. SeatsTypeOK' /\ parent \in Trees /\ Rebuilt \in Trees
  BY <1>0, TypedRelease, ReadsTyped
<1>3. /\ call'.at = "abandon" /\ call'.id = call.id /\ call'.ids = call.ids /\ Revoked' = call.ids
      /\ Hung' = parent' /\ Unsure' = Unsure /\ Starting' = {} /\ Late' = {} /\ SpawnFits'
  BY <1>1, <1>2, ReleaseGoesOn
<1>4. /\ call.ids \in SUBSET Worker /\ call.id \in call.ids /\ Pending # Nil /\ call.ids = Pending.workers
      /\ Retiring = call.ids /\ Hung = parent
      /\ Starting = {} /\ Late = {} /\ Revoked = call.ids
      /\ \A w \in Worker : parent[w] # Nil => w \in seats
      /\ \A w \in Worker : parent[w] # Nil /\ Above(parent, w) \cap call.ids # {} => w \in call.ids
  BY <1>1, ReleaseHolds
<1>5. EndedNow' = EndedNow /\ AdriftNow' = AdriftNow /\ Rebuilt' = Rebuilt /\ Pending' = Pending /\ Retiring' = Retiring
  BY <1>1, TapeKept
<1>6. PICK less, ids : less = parent' /\ ids = seats \cap call.ids
  OBVIOUS
<1>7. less = Pruned(parent, ids)
  BY <1>1, <1>6 DEF Unmount
<1>8. less \in Trees /\ \A w \in Worker : less[w] = IF Above(parent, w) \cap ids # {} THEN Nil ELSE parent[w]
  BY <1>2, <1>7, PrunedTyped
\* What is left is what does not retire.
<1>9. \A w \in Worker : less[w] = IF w \in call.ids THEN Nil ELSE parent[w]
  <2>1. ASSUME NEW w \in Worker, w \in call.ids PROVE less[w] = Nil
    BY <1>4, <1>6, <1>8, <2>1, SelfAbove DEF Node
  <2>2. ASSUME NEW w \in Worker, w \notin call.ids PROVE less[w] = parent[w]
    BY <1>4, <1>6, <1>8, <2>2
  <2> QED
    BY <2>1, <2>2
<1>10. TapeFits'
  <2>1. Leads(parent, Retiring) /\ Hangs(Rebuilt, parent, EndedNow, AdriftNow, Retiring, Unsure)
    BY <1>0, <1>4 DEF TapeFits
  <2>2. \A w \in Worker : parent[w] # Nil /\ Above(parent, w) \cap ids # {} => w \in Retiring
    BY <1>4, <1>6
  <2>3. Leads(less, Retiring) /\ Hangs(Rebuilt, less, EndedNow, AdriftNow, Retiring, Unsure)
    BY <1>2, <1>7, <2>1, <2>2, UnmountFits
  <2>4. Leads(Hung', Retiring') /\ Hangs(Rebuilt', Hung', EndedNow', AdriftNow', Retiring', Unsure')
    BY <1>3, <1>5, <1>6, <2>3
  <2> QED
    BY <1>0, <1>5, <2>4 DEF TapeFits
<1>11. SeatsFit'
  <2>1. \A w \in seats' : less[w] # Nil
    BY <1>0, <1>1, <1>9 DEF SeatsFit, SeatsTypeOK
  <2>2. \A w \in Worker : less[w] # Nil => w \in seats'
    BY <1>1, <1>4, <1>9
  <2> QED
    BY <1>3, <1>6, <2>1, <2>2 DEF SeatsFit
<1>12. call.ids \cap flagged = {} /\ \A w \in call.ids : bound[w] = Nil
  BY <1>0, <1>1 DEF ReleaseFits
<1>13. RightsFit'
  <2>1. ASSUME NEW w \in Worker, less[w] \in Worker, bound[w] # Nil
        PROVE  bound[less[w]] # Nil /\ bound[w] \subseteq bound[less[w]]
    BY <1>0, <1>9, <2>1, SeatsAssumption DEF RightsFit, Node
  <2>2. \A w \in seats' \ call.ids : w \in flagged /\ bound[w] # Nil
    BY <1>0, <1>1, <1>4 DEF RightsFit
  <2>3. flagged \subseteq seats' /\ \A w \in Worker : bound[w] # Nil => w \in seats'
    BY <1>0, <1>1, <1>4, <1>12 DEF RightsFit
  <2> QED
    BY <1>1, <1>3, <1>6, <2>1, <2>2, <2>3 DEF RightsFit
<1>14. LeasesFit'
  BY <1>0, <1>1 DEF LeasesFit
<1>15. WorkspacesFit'
  BY <1>0, <1>1, <1>3, <1>4, <1>5 DEF WorkspacesFit
<1>16. ReleaseFits'
  <2>1. \A w \in call.ids : less[w] = Nil
    BY <1>4, <1>9
  <2> QED
    BY <1>3, <1>4, <1>5, <1>6, <2>1 DEF ReleaseFits
<1> QED
  BY <1>2, <1>3, <1>10, <1>11, <1>13, <1>14, <1>15, <1>16 DEF SeatsInv

\* A release that answers, with what it retires gone from the tree.
LEMMA ReleaseEnds ==
  ASSUME SeatsInv, SeatsTypeOK', Releasing, call.at \in {"abandon", "done"}, call' = Nil,
         UNCHANGED <<parent, seats, bound, flagged, raised, lease>>
  PROVE  /\ Hung' = Hung /\ Unsure = owed /\ Unsure' = owed' /\ Late' = {}
         /\ SeatsFit' /\ RightsFit' /\ LeasesFit' /\ SpawnFits' /\ ReleaseFits'
<1>0. SeatsFit /\ RightsFit /\ LeasesFit /\ ReleaseFits
  BY DEF SeatsInv
<1>1. /\ call.ids \in SUBSET Worker /\ Starting = {} /\ Revoked = call.ids /\ Hung = parent /\ Unwinding = {}
      /\ \A w \in call.ids : parent[w] = Nil
  BY <1>0, ReleaseHolds DEF ReleaseFits
<1>2. ~Spawning' /\ ~Releasing' /\ Revoked' = {}
  BY DEF Spawning, Releasing, Revoked
<1>3. Hung' = parent' /\ Unsure' = owed' /\ Starting' = {} /\ Late' = {} /\ SpawnFits'
  BY <1>2, NoSpawn
<1>4. \A w \in call.ids : w \notin seats
  BY <1>0, <1>1 DEF SeatsFit
<1>5. SeatsFit' /\ RightsFit' /\ LeasesFit'
  BY <1>0, <1>1, <1>2, <1>3, <1>4 DEF SeatsFit, RightsFit, LeasesFit
<1> QED
  BY <1>1, <1>2, <1>3, <1>5 DEF ReleaseFits, Unsure

LEMMA InvReleaseAbandons ==
  ASSUME SeatsInv, ReleaseAbandons
  PROVE  SeatsInv'
<1>0. SeatsTypeOK /\ TapeFits /\ SeatsFit /\ RightsFit /\ LeasesFit /\ WorkspacesFit /\ ReleaseFits
  BY DEF SeatsInv
<1>1. Releasing /\ call.at = "abandon"
      /\ UNCHANGED <<journal, parent, seats, bound, flagged, raised, lease, owed>> /\ wp' \subseteq wp
  BY DEF ReleaseAbandons, Doing, Releasing
<1>2. SeatsTypeOK'
  BY <1>0, TypedRelease
<1>3. /\ call.id \in call.ids /\ Pending # Nil /\ call.ids = Pending.workers
      /\ Starting = {} /\ Late = {} /\ Revoked = call.ids /\ Hung = parent
  BY <1>1, ReleaseHolds
<1>4. CASE wp' = wp \ call.ids /\ Goto("done")
  <2>1. /\ call'.at = "done" /\ call'.id = call.id /\ call'.ids = call.ids /\ Revoked' = call.ids
        /\ Hung' = parent' /\ Unsure' = Unsure /\ Starting' = {} /\ Late' = {} /\ SpawnFits'
    BY <1>1, <1>2, <1>4, ReleaseGoesOn
  <2>2. Pending' = Pending /\ Retiring' = Retiring /\ TapeFits'
    BY <1>0, <1>1, <1>3, <2>1, TapeStays
  <2>3. SeatsFit' /\ RightsFit' /\ LeasesFit' /\ WorkspacesFit'
    BY <1>0, <1>1, <1>3, <2>1, <2>2 DEF SeatsFit, RightsFit, LeasesFit, WorkspacesFit
  <2>4. ReleaseFits'
    BY <1>0, <1>1, <1>3, <1>4, <2>1, <2>2 DEF ReleaseFits
  <2> QED
    BY <1>2, <2>1, <2>2, <2>3, <2>4 DEF SeatsInv
<1>5. CASE call' = Nil
  <2>1. /\ Hung' = Hung /\ Unsure = owed /\ Unsure' = owed' /\ Late' = {}
        /\ SeatsFit' /\ RightsFit' /\ LeasesFit' /\ SpawnFits' /\ ReleaseFits'
    BY <1>1, <1>2, <1>5, ReleaseEnds
  <2>2. Pending' = Pending /\ Retiring' = Retiring /\ TapeFits'
    BY <1>0, <1>1, <2>1, TapeStays
  <2>3. WorkspacesFit'
    BY <1>0, <1>1, <1>3, <2>1, <2>2 DEF WorkspacesFit
  <2> QED
    BY <1>2, <2>1, <2>2, <2>3 DEF SeatsInv
<1> QED
  BY <1>4, <1>5 DEF ReleaseAbandons

LEMMA InvReleaseRecords ==
  ASSUME SeatsInv, ReleaseRecords
  PROVE  SeatsInv'
<1>0. SeatsTypeOK /\ TapeFits /\ SeatsFit /\ WorkspacesFit /\ ReleaseFits
  BY DEF SeatsInv
<1>1. Releasing /\ call.at = "done" /\ call' = Nil
      /\ UNCHANGED <<parent, seats, bound, flagged, raised, lease, wp>>
  BY DEF ReleaseRecords, Doing, Releasing
<1>2. SeatsTypeOK' /\ parent \in Trees
  BY <1>0, TypedRelease, ReadsTyped
<1>3. /\ call.id \in Worker /\ call.id \in call.ids /\ call.ids \in SUBSET Worker /\ Retiring = call.ids
      /\ Late = {} /\ Hung = parent
  BY <1>1, ReleaseHolds
<1>4. PICK id \in Worker : id = call.id
  BY <1>3
<1>5. (\A w \in call.ids : parent[w] = Nil) /\ call.ids \cap wp = {}
  BY <1>0, <1>1 DEF ReleaseFits
<1>6. /\ Hung' = Hung /\ Unsure = owed /\ Unsure' = owed' /\ Late' = {}
      /\ SeatsFit' /\ RightsFit' /\ LeasesFit' /\ SpawnFits' /\ ReleaseFits'
  BY <1>1, <1>2, ReleaseEnds
<1> DEFINE line == [op |-> "release", id |-> id]
<1>7. line \in SeatLine /\ line.op = "release" /\ line.id = id
  BY DEF SeatLine
<1>8. (Taped(line) /\ owed' = owed \ {id}) \/ (TapedOrLost(line) /\ owed' = owed)
  BY <1>4 DEF ReleaseRecords
<1> HIDE DEF line
<1>9. ASSUME journal' = Append(journal, line) PROVE TapeFits'
  <2>1. Rebuilt' = Replay(Rebuilt, line) /\ EndedNow' = EndedNow /\ AdriftNow' = AdriftNow /\ Pending' = Nil
    BY <1>0, <1>7, <1>9, TapeGrows
  <2>2. Rebuilt' = Pruned(Rebuilt, {id})
    BY <1>7, <2>1 DEF Replay
  <2>3. Retiring' = {}
    BY <2>1 DEF Retiring
  <2>4. Leads(parent, Retiring)
    BY <1>0, <1>3 DEF TapeFits
  <2>5. Leads(Hung, {})
    BY <1>3, <2>4 DEF Leads
  <2>6. parent[id] = Nil
    BY <1>3, <1>4, <1>5
  <2>7. \A w \in Worker : Hung[w] # Nil => w \notin Retiring /\ Above(Hung, w) \cap {id} = {}
    BY <1>2, <1>3, <1>5, <2>4, <2>6, OutIsNotOver
  <2>8. \A w \in Worker : w \in Unsure => w \in Unsure' \/ w \in {id}
    BY <1>6, <1>8
  <2>9. EndedNow \in SUBSET Worker
    BY <1>0, ReadsTyped
  <2> QED
    BY <1>0, <1>6, <2>1, <2>2, <2>3, <2>5, <2>7, <2>8, <2>9, TakenOff
<1>10. ASSUME journal' = journal, owed' = owed PROVE TapeFits'
  BY <1>0, <1>6, <1>10, TapeStays
<1>11. TapeFits'
  BY <1>8, <1>9, <1>10 DEF Taped, TapedOrLost
<1>12. WorkspacesFit'
  <2>1. wp \subseteq seats \cup owed /\ id \notin wp
    BY <1>0, <1>3, <1>4, <1>5 DEF WorkspacesFit
  <2> QED
    BY <1>1, <1>8, <2>1 DEF WorkspacesFit
<1> QED
  BY <1>2, <1>6, <1>11, <1>12 DEF SeatsInv

(* --------------------------------- the seats -------------------------------- *)

LEMMA SeatsInvInit ==
  ASSUME SeatsInit
  PROVE  SeatsInv
<1>1. /\ journal = <<>> /\ parent = [w \in Worker |-> Nil] /\ bound = [w \in Worker |-> Nil]
      /\ seats = {} /\ flagged = {} /\ raised = {} /\ wp = {} /\ lease = [w \in Worker |-> {}]
      /\ call = Nil /\ owed = {} /\ cancelling = {} /\ failures = 0
  BY DEF SeatsInit
<1>2. journal \in Seq(SeatLine) /\ Len(journal) = 0 /\ DOMAIN journal = {}
  BY <1>1
<1>3. SeatsTypeOK
  BY <1>1, <1>2, SeatsAssumption DEF SeatsTypeOK
<1>4. EndedNow = {} /\ AdriftNow = {}
  BY <1>2 DEF EndedNow, AdriftNow, Ended, Adrift, Spawns
<1>5. Pending = Nil
  <2>1. 1..Len(journal) = {}
    BY <1>2
  <2>2. PendingIn(journal) = Nil \/ \E m \in 1..Len(journal) : TRUE
    BY <1>2, PendingIs
  <2> QED
    BY <2>1, <2>2 DEF Pending
<1>6. Retiring = {} /\ Unsure = {} /\ Starting = {} /\ Revoked = {} /\ Late = {} /\ ~Spawning /\ ~Releasing /\ Hung = parent
  BY <1>1, <1>3, <1>5, NoCall DEF Retiring
<1>7. Rebuilt = [w \in Worker |-> Nil]
  <2>1. PICK N \in Nat : N = 0
    OBVIOUS
  <2>2. Replayed(journal)[0] = [w \in Worker |-> Nil] /\ TreeOf(journal) = Replayed(journal)[N]
    BY <1>2, <2>1, ReplayedStep
  <2> QED
    BY <2>1, <2>2 DEF Rebuilt
<1>8. \A w \in Worker : Root \notin Above(Rebuilt, w)
  <2>1. ASSUME NEW w \in Worker PROVE Root \notin Above(Rebuilt, w)
    <3>1. Rebuilt[w] = Nil /\ w \in Node /\ w # Root
      BY <1>7, SeatsAssumption DEF Node
    <3>2. Above(Rebuilt, w) = {w}
      BY <3>1, AboveStops
    <3> QED
      BY <3>1, <3>2
  <2> QED
    BY <2>1
<1>9. \A w \in Worker : Rebuilt[w] = Nil /\ parent[w] = Nil
  BY <1>1, <1>7
<1>10. Leads(parent, {})
  BY <1>9 DEF Leads
<1>11. Hangs(Rebuilt, parent, {}, {}, {}, {})
  <2>1. Nil \notin Worker
    BY SeatsAssumption DEF Node
  <2> QED
    BY <1>8, <1>9, <2>1 DEF Hangs
<1>12. TapeFits
  BY <1>4, <1>5, <1>6, <1>10, <1>11 DEF TapeFits
<1>13. SeatsFit /\ RightsFit /\ LeasesFit /\ WorkspacesFit
  BY <1>1, <1>6, <1>9 DEF SeatsFit, RightsFit, LeasesFit, WorkspacesFit
<1> QED
  BY <1>3, <1>6, <1>12, <1>13 DEF SeatsInv, SpawnFits, ReleaseFits

LEMMA SeatsInvStays ==
  ASSUME SeatsInv, UNCHANGED seatVars
  PROVE  SeatsInv'
<1>0. UNCHANGED <<journal, parent, seats, bound, flagged, raised, lease, wp, call, owed, cancelling, failures>>
  BY DEF seatVars
<1>1. SeatsTypeOK /\ TapeFits /\ LeasesFit
  BY DEF SeatsInv
<1>2. Pending' = Pending /\ Retiring' = Retiring /\ TapeFits'
  BY <1>0, <1>1, TapeRests
<1>3. SeatsTypeOK' /\ LeasesFit'
  BY <1>0, <1>1 DEF SeatsTypeOK, LeasesFit
<1>4. SeatsFit' /\ RightsFit' /\ WorkspacesFit' /\ SpawnFits' /\ ReleaseFits'
  BY <1>0, <1>2, SignalKeeps
<1> QED
  BY <1>2, <1>3, <1>4 DEF SeatsInv

LEMMA SeatsInvNext ==
  ASSUME SeatsInv, [SeatsNext]_seatVars
  PROVE  SeatsInv'
<1>1. CASE \E w \in Worker, up \in Worker \cup {Root}, charter \in Charter, lite \in BOOLEAN :
             SpawnBegins(w, up, charter, lite)
  BY <1>1, InvSpawnBegins
<1>2. CASE \E w \in Worker : ReleaseResumes(w) \/ ReleaseBegins(w)
  BY <1>2, InvReleaseResumes, InvReleaseBegins
<1> QED
  BY <1>1, <1>2, InvSpawnAnnounces, InvSpawnRegisters, InvSpawnRecords, InvSpawnUnwinds, InvSpawnUnwound,
     InvSpawnCharters, InvSpawnFlags, InvSpawnSeats, InvReleaseRevokes, InvReleaseUnseats,
     InvReleaseAbandons, InvReleaseRecords, InvSignal, SeatsInvStays DEF SeatsNext

\* Between calls the tape has the tree, but for who ended, retires, came adrift or is owed.
LEMMA TapeIsTheTree ==
  ASSUME SeatsInv
  PROVE  TapeHoldsTheSeats
<1> SUFFICES ASSUME call = Nil
             PROVE  LET kept == {w \in seats : ~CancelledOnTape(w)} IN
                    /\ kept \ Retiring \subseteq Restored /\ Restored \cap seats \subseteq kept
                    /\ Restored \ seats \subseteq owed \cup Adrift(journal)
  BY DEF TapeHoldsTheSeats
<1>0. SeatsTypeOK /\ TapeFits /\ SeatsFit
  BY DEF SeatsInv
<1>1. parent \in Trees /\ Rebuilt \in Trees /\ seats \subseteq Worker
  BY <1>0, ReadsTyped DEF SeatsTypeOK
<1>2. Hung = parent /\ Unsure = owed /\ Starting = {}
  BY <1>0, NoCall
<1>3. Leads(parent, Retiring) /\ Hangs(Rebuilt, parent, EndedNow, AdriftNow, Retiring, owed)
  BY <1>0, <1>2 DEF TapeFits
<1>4. \A w \in Worker : parent[w] # Nil <=> w \in seats
  BY <1>0, <1>2 DEF SeatsFit
<1>5. \A w \in Worker : CancelledOnTape(w) <=> Above(parent, w) \cap EndedNow # {}
  BY DEF CancelledOnTape, EndedNow, Chain
<1>6. ASSUME NEW w \in seats, ~CancelledOnTape(w), w \notin Retiring PROVE w \in Restored
  <2>1. w \in Worker /\ parent[w] # Nil /\ Above(parent, w) \cap EndedNow = {} /\ w \in Node
    BY <1>1, <1>4, <1>5, <1>6 DEF Node
  <2>2. ASSUME NEW v \in Above(parent, w) \ {Root} PROVE Rebuilt[v] = parent[v]
    <3>1. v \in Worker /\ parent[v] # Nil
      BY <1>1, <1>3, <2>1, OverIsIn
    <3>2. Above(parent, v) \subseteq Above(parent, w)
      BY <1>1, <2>1, AboveGoesOn
    <3>3. Above(parent, v) \cap EndedNow = {}
      BY <2>1, <3>2
    <3>4. v \notin Retiring
      BY <1>3, <1>6, <2>1 DEF Leads
    <3> QED
      BY <1>3, <3>1, <3>3, <3>4 DEF Hangs
  <2>3. Above(Rebuilt, w) = Above(parent, w)
    BY <1>1, <2>1, <2>2, SameAbove
  <2>4. w \in Above(parent, w) /\ w # Root /\ Root \in Above(parent, w)
    BY <1>1, <1>3, <2>1, SelfAbove, OverIsIn, SeatsAssumption
  <2> QED
    BY <2>1, <2>2, <2>3, <2>4 DEF Restored
<1>7. ASSUME NEW w \in Restored
      PROVE  (w \in seats => ~CancelledOnTape(w)) /\ (w \notin seats => w \in owed \cup AdriftNow)
  <2>1. w \in Worker /\ Root \in Above(Rebuilt, w)
    BY DEF Restored
  <2> QED
    BY <1>3, <1>4, <1>5, <2>1 DEF Hangs
<1> QED
  BY <1>6, <1>7 DEF AdriftNow

LEMMA RightsDoEnd ==
  ASSUME SeatsInv
  PROVE  RightsEndAbove
<1>0. SeatsTypeOK /\ SeatsFit /\ RightsFit /\ LeasesFit /\ SpawnFits
  BY DEF SeatsInv
<1>1. parent \in Trees
  BY <1>0, ReadsTyped
<1>2. ASSUME NEW w \in Worker, NEW v \in Chain(w) \ {Root}, bound[w] # Nil, bound[v] # Nil
      PROVE  bound[w] \subseteq bound[v]
  <2> DEFINE S == {u \in Node : u = Root \/ (bound[u] # Nil /\ bound[w] \subseteq bound[u])}
  <2>1. UpClosed(parent, S)
    <3> SUFFICES ASSUME NEW u \in S \ {Root}, parent[u] # Nil PROVE parent[u] \in S
      BY DEF UpClosed
    <3>1. u \in Worker /\ parent[u] \in Node
      BY <1>1 DEF Node, Trees
    <3> QED
      BY <1>0, <3>1 DEF RightsFit, Node
  <2>2. w \in S /\ S \in SUBSET Node
    BY <1>2 DEF Node
  <2> HIDE DEF S
  <2>3. v \in S
    BY <1>2, <2>1, <2>2, AboveLeast DEF Chain
  <2> QED
    BY <1>2, <2>3 DEF S
\* Who is not in the tree has no flag there: what its lease observes is set.
<1>3. ASSUME NEW w \in Worker, lease[w] # {}, ~InTree(w) PROVE lease[w] \cap raised # {}
  <2>1. parent[w] = Nil
    BY <1>3 DEF InTree
  <2>2. w \notin seats
    BY <1>0, <2>1 DEF SeatsFit
  <2>3. w \notin Starting
    <3>1. Spawning => parent[call.id] # Nil
      BY <1>0, SeatsAssumption DEF SpawnFits
    <3> QED
      BY <2>1, <3>1 DEF Starting
  <2>4. w \notin flagged
    BY <1>0, <2>2, <2>3 DEF RightsFit
  <2> QED
    BY <1>0, <1>3, <2>4 DEF LeasesFit
<1> QED
  BY <1>2, <1>3 DEF RightsEndAbove

(***************************************************************************)
(* The seats are as the tape, the workspaces and the charters say, however *)
(* many workers there are, spawned under their ids as often as may be:     *)
(* what restore_seats rebuilds between calls are the recorder's seats      *)
(* without those that were cancelled since their spawn was recorded or     *)
(* retire, and of others only who is owed a release or was recorded under  *)
(* somebody who had ended; every sub-workspace has a seat, a retirement or *)
(* a caller who was told of it; and rights narrow and leases end all the   *)
(* way up the tree (spawn_child, cancel, Recorder::release, restore_seats, *)
(* Recorder::lease).                                                       *)
(***************************************************************************)
THEOREM SeatsAreSafe == SeatsSpec => []SeatsSafe
<1>1. SeatsInit => SeatsInv
  BY SeatsInvInit
<1>2. SeatsInv /\ [SeatsNext]_seatVars => SeatsInv'
  BY SeatsInvNext
<1>3. SeatsInv => SeatsSafe
  <2> SUFFICES ASSUME SeatsInv PROVE SeatsSafe
    OBVIOUS
  <2>1. TapeHoldsTheSeats /\ RightsEndAbove
    BY TapeIsTheTree, RightsDoEnd
  <2>2. WorkspacesHaveOwners
    <3> SUFFICES ASSUME call = Nil PROVE wp \subseteq seats \cup Retiring \cup owed
      BY DEF WorkspacesHaveOwners
    <3> QED
      BY NoCall DEF SeatsInv, WorkspacesFit
  <2> QED
    BY <2>1, <2>2 DEF SeatsInv, SeatsSafe
<1> QED
  BY <1>1, <1>2, <1>3, PTL DEF SeatsSpec
=============================================================================

----------------------------- MODULE TapeProofs -----------------------------
(***************************************************************************)
(* Proofs about the session tape, for any number of processes and appends. *)
(***************************************************************************)
EXTENDS Tape, SequenceTheorems, TLAPS

\* The file ends in one way: a torn tail is never preceded by a bare line.
OneTail == ~(bare /\ torn # Nil)

\* A cached number is the next one, and the line before it is closed or known to
\* be bare, so what the next append writes cannot run into it.
CacheFits ==
  \A p \in Process : stores[p] # Nil /\ stores[p].next # Nil =>
    torn = Nil /\ stores[p].next = Len(events) + 1 /\ (bare => stores[p].newline)

\* The strengthening that every step preserves: nothing fuses only because the
\* single writer's cache was made by the append before it.
TapeInv == TapeSafe /\ OneTail /\ CacheFits

----------------------------------------------------------------------------
(* Lemmas about the operators *)

\* On a dense tape the number after the last line is the length, plus one.
LEMMA LastSeqIsLen ==
  ASSUME TapeTypeOK, SeqsAreDense
  PROVE  LastSeq = Len(events)
<1>1. CASE events = <<>>
  BY <1>1 DEF LastSeq
<1>2. CASE events # <<>>
  <2>1. Len(events) \in DOMAIN events
    BY <1>2, EmptySeq, LenProperties DEF TapeTypeOK
  <2> QED
    BY <1>2, <2>1 DEF LastSeq, SeqsAreDense
<1> QED
  BY <1>1, <1>2

\* A dense tape that grows by the line of the next number stays dense, and the
\* lines it had stay where they were.
LEMMA AppendLine ==
  ASSUME TapeTypeOK, SeqsAreDense, NEW id \in Event,
         NEW line, line = [seq |-> Len(events) + 1, id |-> id],
         events' = Append(events, line)
  PROVE  /\ events' \in Seq(Line) /\ Len(events') = Len(events) + 1
         /\ \A i \in DOMAIN events : i \in DOMAIN events' /\ events'[i] = events[i]
         /\ Len(events') \in DOMAIN events' /\ events'[Len(events')] = line
         /\ SeqsAreDense'
<1>1. events \in Seq(Line) /\ Len(events) \in Nat /\ DOMAIN events = 1..Len(events)
  BY LenProperties DEF TapeTypeOK
<1>2. line \in Line
  BY <1>1 DEF Line
<1>3. /\ events' \in Seq(Line) /\ Len(events') = Len(events) + 1
      /\ \A i \in 1..Len(events) : events'[i] = events[i]
      /\ events'[Len(events) + 1] = line
  BY <1>1, <1>2, AppendProperties
<1>4. DOMAIN events' = 1..(Len(events) + 1)
  BY <1>1, <1>3, LenProperties
<1>5. SeqsAreDense'
  BY <1>1, <1>3, <1>4 DEF SeqsAreDense
<1> QED
  BY <1>1, <1>3, <1>4, <1>5

\* A tape cut off at a line stays dense.
LEMMA CutLines ==
  ASSUME TapeTypeOK, SeqsAreDense, NEW k \in 0..Len(events), events' = SubSeq(events, 1, k)
  PROVE  /\ events' \in Seq(Line) /\ Len(events') = k /\ DOMAIN events' = 1..k
         /\ \A i \in 1..k : events'[i] = events[i]
         /\ SeqsAreDense'
<1>1. events \in Seq(Line) /\ Len(events) \in Nat /\ DOMAIN events = 1..Len(events)
  BY LenProperties DEF TapeTypeOK
<1>2. \A i \in 1..k : i \in DOMAIN events /\ events[i] \in Line
  BY <1>1
<1>3. /\ events' \in Seq(Line) /\ Len(events') = k
      /\ \A i \in 1..k : events'[i] = events[i]
  BY <1>2, SubSeqProperties
<1>4. DOMAIN events' = 1..k
  BY <1>3, LenProperties
<1> QED
  BY <1>1, <1>2, <1>3, <1>4 DEF SeqsAreDense

----------------------------------------------------------------------------
(* The steps *)

\* A new tape satisfies the strengthening.
LEMMA TapeInitInv == TapeInit => TapeInv
<1> SUFFICES ASSUME TapeInit PROVE TapeInv
  OBVIOUS
<1> USE NoneEventAssumption, NoneStoreAssumption DEF TapeInit
<1>1. TapeTypeOK
  <2>1. events \in Seq(Line) /\ durable \in 0..Len(events)
    BY EmptySeq
  <2> QED
    BY <2>1 DEF TapeTypeOK
<1>2. SeqsAreDense /\ NeverFused /\ SingleWriter /\ AckedStays
  BY DEF SeqsAreDense, NeverFused, SingleWriter, AckedStays
<1>3. OneTail /\ CacheFits
  BY DEF OneTail, CacheFits
<1> QED
  BY <1>1, <1>2, <1>3 DEF TapeInv, TapeSafe

\* Giving the only store a new state, or taking it away, leaves one writer.
LEMMA StoreMoved ==
  ASSUME TapeTypeOK, SingleWriter, NEW p \in Process, stores[p] # Nil,
         NEW s \in Store \cup {Nil}, stores' = [stores EXCEPT ![p] = s]
  PROVE  /\ stores' \in [Process -> Store \cup {Nil}]
         /\ stores'[p] = s
         /\ \A q \in Process \ {p} : stores[q] = Nil /\ stores'[q] = Nil
         /\ locked
BY DEF TapeTypeOK, SingleWriter

\* Opening takes the lock that no store holds.
LEMMA OpenKeeps ==
  ASSUME TapeInv, NEW p \in Process, OpenStore(p)
  PROVE  TapeInv'
<1> USE NoneEventAssumption, NoneStoreAssumption DEF OpenStore, file
<1>1. Unscanned \in Store /\ Unscanned.next = Nil
  BY DEF Unscanned, Store
<1>2. \A q \in Process : stores[q] = Nil
  BY DEF TapeInv, TapeSafe, SingleWriter
<1>3. /\ stores' \in [Process -> Store \cup {Nil}]
      /\ \A q \in Process : stores'[q] # Nil => q = p /\ stores'[q].next = Nil
  BY <1>1, <1>2 DEF TapeInv, TapeSafe, TapeTypeOK
<1>4. TapeTypeOK'
  BY <1>3 DEF TapeInv, TapeSafe, TapeTypeOK
<1>5. SingleWriter' /\ CacheFits'
  BY <1>3 DEF SingleWriter, CacheFits
<1>6. SeqsAreDense' /\ NeverFused' /\ AckedStays' /\ OneTail'
  BY DEF TapeInv, TapeSafe, SeqsAreDense, NeverFused, AckedStays, OneTail
<1> QED
  BY <1>4, <1>5, <1>6 DEF TapeInv, TapeSafe

\* Dropping, killing, forking and closing leave the file alone, and the lock with
\* the store, if there is one left.
LEMMA OwnersKeep ==
  ASSUME TapeInv, NEW p \in Process,
         Drop(p) \/ KillProcess(p) \/ DropInherited(p) \/ \E q \in Process : Fork(p, q)
  PROVE  TapeInv'
<1> USE NoneEventAssumption, NoneStoreAssumption
<1>1. UNCHANGED <<file, named, numbered>> /\ locked' \in BOOLEAN /\ heirs' \in SUBSET Process
  BY DEF Drop, KillProcess, DropInherited, Fork, Closed, TapeInv, TapeSafe, TapeTypeOK
<1>2. /\ stores' \in [Process -> Store \cup {Nil}]
      /\ \A q \in Process : stores'[q] \in {Nil, stores[q]}
  BY DEF Drop, KillProcess, DropInherited, Fork, TapeInv, TapeSafe, TapeTypeOK
<1>3. (\E q \in Process : stores'[q] # Nil) => locked'
  <2>1. CASE Drop(p) \/ KillProcess(p)
    <3>1. stores[p] # Nil /\ stores' = [stores EXCEPT ![p] = Nil]
      BY <2>1 DEF Drop, KillProcess
    <3> QED
      BY <3>1, StoreMoved DEF TapeInv, TapeSafe
  <2>2. CASE DropInherited(p)
    BY <2>2 DEF DropInherited, Closed, TapeInv, TapeSafe, SingleWriter
  <2>3. CASE \E q \in Process : Fork(p, q)
    BY <2>3 DEF Fork, TapeInv, TapeSafe, SingleWriter
  <2> QED
    BY <2>1, <2>2, <2>3
<1>4. TapeTypeOK'
  BY <1>1, <1>2 DEF file, TapeInv, TapeSafe, TapeTypeOK
<1>5. SingleWriter'
  BY <1>2, <1>3 DEF TapeInv, TapeSafe, SingleWriter
<1>6. CacheFits'
  BY <1>1, <1>2 DEF file, TapeInv, CacheFits
<1>7. SeqsAreDense' /\ NeverFused' /\ AckedStays' /\ OneTail'
  BY <1>1 DEF file, TapeInv, TapeSafe, SeqsAreDense, NeverFused, AckedStays, OneTail
<1> QED
  BY <1>4, <1>5, <1>6, <1>7 DEF TapeInv, TapeSafe

\* A scan moves the tail aside, never the events, and leaves nothing cached.
LEMMA ReadKeeps ==
  ASSUME TapeInv, NEW p \in Process, ReadAll(p)
  PROVE  TapeInv' /\ (torn # Nil /\ torn' # torn => torn \in side')
<1> USE NoneEventAssumption, NoneStoreAssumption
<1>1. /\ UNCHANGED <<events, bare, fused, owners, named, numbered>>
      /\ torn' \in {Nil, torn}
      /\ side' \in {side, side \cup {torn}}
      /\ torn = Nil => side' = side
      /\ torn' # torn => torn \in side'
      /\ durable' \in {durable, Len(events)}
  BY DEF ReadAll, ScanFails, ScanUnsynced, file, TapeInv, TapeSafe, TapeTypeOK
<1>2. PICK s \in Store : stores' = [stores EXCEPT ![p] = s] /\ s.next = Nil
  <2>1. Unscanned \in Store /\ Unscanned.next = Nil
    BY DEF Unscanned, Store
  <2>2. [next |-> Nil, newline |-> bare] \in Store
    BY DEF Store, TapeInv, TapeSafe, TapeTypeOK
  <2> QED
    BY <2>1, <2>2 DEF ReadAll, ScanFails, ScanUnsynced
<1>3. stores[p] # Nil
  BY DEF ReadAll
<1>4. /\ stores' \in [Process -> Store \cup {Nil}] /\ stores'[p] = s
      /\ \A q \in Process \ {p} : stores'[q] = Nil
      /\ locked
  BY <1>2, <1>3, StoreMoved DEF TapeInv, TapeSafe
<1>5. TapeTypeOK'
  <2>1. torn' \in Event \cup {Nil} /\ side' \in SUBSET Event
    BY <1>1 DEF TapeInv, TapeSafe, TapeTypeOK
  <2>2. durable' \in 0..Len(events') /\ durable' >= durable
    BY <1>1, LenProperties DEF TapeInv, TapeSafe, TapeTypeOK
  <2> QED
    BY <1>1, <1>4, <2>1, <2>2 DEF owners, TapeInv, TapeSafe, TapeTypeOK
<1>6. SingleWriter' /\ CacheFits'
  BY <1>1, <1>2, <1>4 DEF owners, SingleWriter, CacheFits
<1>7. SeqsAreDense' /\ NeverFused' /\ OneTail'
  BY <1>1 DEF TapeInv, TapeSafe, SeqsAreDense, NeverFused, OneTail
<1>8. AckedStays'
  <2>1. durable' >= durable /\ durable \in Nat /\ durable' \in Nat
    BY <1>1, LenProperties DEF TapeInv, TapeSafe, TapeTypeOK
  <2>2. ASSUME NEW e \in Event, numbered[e] # Nil
        PROVE  numbered[e] \in DOMAIN events /\ events[numbered[e]].id = e /\ numbered[e] <= durable'
    <3>1. numbered[e] \in Nat
      BY <2>2 DEF TapeInv, TapeSafe, TapeTypeOK
    <3> QED
      BY <2>1, <2>2, <3>1 DEF TapeInv, TapeSafe, AckedStays
  <2> QED
    BY <1>1, <2>2 DEF AckedStays
<1> QED
  BY <1>1, <1>5, <1>6, <1>7, <1>8 DEF TapeInv, TapeSafe

\* Power loss cuts what was not synced: no acknowledged event, and every store.
LEMMA PowerLossKeeps ==
  ASSUME TapeInv, TapePowerLoss
  PROVE  TapeInv'
<1> USE NoneEventAssumption, NoneStoreAssumption
<1>1. PICK k \in durable..Len(events) :
        /\ events' = SubSeq(events, 1, k)
        /\ \/ bare' = FALSE
              /\ torn' \in IF k < Len(events) THEN {Nil, events[k + 1].id} ELSE {Nil, torn} \cup side
           \/ bare' = TRUE /\ torn' = Nil
  BY DEF TapePowerLoss
<1>2. Len(events) \in Nat /\ durable \in Nat /\ k \in 0..Len(events) /\ durable <= k
  BY <1>1, LenProperties DEF TapeInv, TapeSafe, TapeTypeOK
<1>3. /\ events' \in Seq(Line) /\ Len(events') = k /\ DOMAIN events' = 1..k
      /\ \A i \in 1..k : events'[i] = events[i]
      /\ SeqsAreDense'
  BY <1>1, <1>2, CutLines DEF TapeInv, TapeSafe
<1>4. torn' \in Event \cup {Nil}
  <2>1. k < Len(events) => events[k + 1] \in Line
    BY <1>2, ElementOfSeq DEF TapeInv, TapeSafe, TapeTypeOK
  <2> QED
    BY <1>1, <2>1 DEF Line, TapeInv, TapeSafe, TapeTypeOK
<1>5. TapeTypeOK'
  <2>1. durable' \in 0..Len(events')
    BY <1>2, <1>3 DEF TapePowerLoss
  <2>3. bare' \in BOOLEAN
    BY <1>1
  <2>2. stores' \in [Process -> Store \cup {Nil}] /\ heirs' \in SUBSET Process /\ locked' \in BOOLEAN
    BY DEF TapePowerLoss
  <2> QED
    BY <1>3, <1>4, <2>1, <2>2 DEF TapePowerLoss, TapeInv, TapeSafe, TapeTypeOK
<1>6. SingleWriter' /\ CacheFits'
  BY DEF TapePowerLoss, SingleWriter, CacheFits
<1>7. NeverFused' /\ OneTail'
  BY <1>1 DEF TapePowerLoss, TapeInv, TapeSafe, NeverFused, OneTail
<1>8. AckedStays'
  <2> SUFFICES ASSUME NEW e \in Event, numbered[e] # Nil
               PROVE  numbered[e] \in 1..k /\ events'[numbered[e]].id = e /\ numbered[e] <= durable'
    BY <1>3 DEF AckedStays, TapePowerLoss
  <2>1. numbered[e] \in DOMAIN events /\ events[numbered[e]].id = e /\ numbered[e] <= durable
    BY DEF TapeInv, TapeSafe, AckedStays
  <2>2. numbered[e] \in 1..k
    BY <1>2, <2>1, LenProperties DEF TapeInv, TapeSafe, TapeTypeOK
  <2>3. durable' = k
    BY <1>3 DEF TapePowerLoss
  <2> QED
    BY <1>3, <2>1, <2>2, <2>3
<1> QED
  BY <1>3, <1>5, <1>6, <1>7, <1>8 DEF TapeInv, TapeSafe

\* An append continues the numbers and meets no tail, whatever becomes of its line.
LEMMA AppendKeeps ==
  ASSUME TapeInv, NEW p \in Process, NEW id \in Event, NEW outcome \in LineOutcome,
         AppendEvent(p, id, outcome)
  PROVE  TapeInv' /\ (torn # Nil /\ torn' # torn => torn \in side')
<1> USE NoneEventAssumption, NoneStoreAssumption
<1> DEFINE scan == stores[p].next = Nil
           tail == IF scan THEN Nil ELSE torn
           newline == IF scan THEN bare /\ torn = Nil ELSE stores[p].newline
           line == [seq |-> IF scan THEN LastSeq + 1 ELSE stores[p].next, id |-> id]
           whole == outcome \in {"synced", "unsynced", "bare"}
           fuses == tail # Nil \/ (bare /\ ~newline)
<1>1. /\ TapeTypeOK /\ SeqsAreDense /\ ~fused /\ SingleWriter /\ AckedStays
      /\ OneTail /\ CacheFits /\ stores[p] # Nil
  BY DEF TapeInv, TapeSafe, NeverFused, AppendEvent
<1>2. stores[p] \in Store /\ bare \in BOOLEAN /\ Len(events) \in Nat
  BY <1>1, LenProperties DEF TapeTypeOK
<1>3. /\ tail = Nil /\ ~fuses /\ newline \in BOOLEAN
      /\ line = [seq |-> Len(events) + 1, id |-> id]
      /\ bare => newline \/ torn # Nil
      /\ torn # Nil => scan
  <2>1. CASE scan
    BY <1>1, <1>2, <2>1, LastSeqIsLen DEF OneTail
  <2>2. CASE ~scan
    BY <1>1, <1>2, <2>2 DEF CacheFits, Store
  <2> QED
    BY <2>1, <2>2
<1>4. /\ events' = IF whole /\ ~fuses THEN Append(events, line) ELSE events
      /\ fused' = (fused \/ (whole /\ fuses))
      /\ side' = IF scan /\ torn # Nil THEN side \cup {torn} ELSE side
      /\ stores' = [stores EXCEPT ![p] = Cached(line.seq, newline, outcome)]
      /\ numbered' = IF Acknowledged(outcome) THEN [numbered EXCEPT ![id] = line.seq] ELSE numbered
      /\ named' = named \cup {id}
      /\ UNCHANGED owners
  BY DEF AppendEvent
<1>5. /\ bare' \in CASE outcome = "bare" -> {TRUE}
                     [] outcome = "nothing" -> IF newline THEN {FALSE, bare} ELSE {bare}
                     [] OTHER -> {FALSE}
      /\ torn' = CASE outcome = "torn" -> id
                   [] outcome = "nothing" -> tail
                   [] OTHER -> Nil
      /\ durable' = IF outcome = "synced" THEN Len(events')
                    ELSE IF scan /\ torn # Nil THEN Len(events) ELSE durable
  BY DEF AppendEvent
<1>6. /\ events' = IF whole THEN Append(events, line) ELSE events
      /\ ~fused'
      /\ torn' = IF outcome = "torn" THEN id ELSE Nil
      /\ bare' \in BOOLEAN
      /\ outcome \in {"synced", "unsynced", "torn"} => ~bare'
  BY <1>1, <1>2, <1>3, <1>4, <1>5 DEF LineOutcome
<1> HIDE DEF tail, fuses, newline, line, whole, scan
<1>7. /\ events' \in Seq(Line) /\ SeqsAreDense' /\ Len(events') \in Nat /\ Len(events) <= Len(events')
      /\ \A i \in DOMAIN events : i \in DOMAIN events' /\ events'[i] = events[i]
      /\ whole => Len(events') = Len(events) + 1 /\ Len(events') \in DOMAIN events'
                  /\ events'[Len(events')] = line
  <2>1. CASE whole
    BY <1>1, <1>2, <1>3, <1>6, <2>1, AppendLine
  <2>2. CASE ~whole
    BY <1>1, <1>2, <1>6, <2>2 DEF TapeTypeOK, SeqsAreDense
  <2> QED
    BY <2>1, <2>2
<1>8. durable' \in 0..Len(events') /\ durable \in Nat /\ durable <= durable'
  <2>1. durable \in 0..Len(events)
    BY <1>1 DEF TapeTypeOK
  <2> QED
    BY <1>2, <1>5, <1>7, <2>1
<1>9. /\ Cached(line.seq, newline, outcome) \in Store
      /\ Cached(line.seq, newline, outcome).next # Nil =>
           outcome = "synced" /\ Cached(line.seq, newline, outcome).next = Len(events') + 1
  <2>1. line.seq = Len(events) + 1
    BY <1>3
  <2>2. CASE outcome = "synced"
    BY <1>2, <1>7, <2>1, <2>2 DEF Cached, Acknowledged, Store, whole
  <2>3. CASE outcome # "synced"
    BY <1>3, <2>3 DEF Cached, Acknowledged, Store
  <2> QED
    BY <2>2, <2>3
<1>10. /\ stores' \in [Process -> Store \cup {Nil}]
       /\ stores'[p] = Cached(line.seq, newline, outcome)
       /\ \A q \in Process \ {p} : stores'[q] = Nil
       /\ locked
  BY <1>1, <1>4, <1>9, StoreMoved
<1>11. TapeTypeOK'
  <2>1. numbered' \in [Event -> Nat \cup {Nil}]
    BY <1>1, <1>2, <1>3, <1>4 DEF TapeTypeOK
  <2>2. side' \in SUBSET Event /\ named' \in SUBSET Event /\ torn' \in Event \cup {Nil}
    BY <1>1, <1>4, <1>6 DEF TapeTypeOK
  <2> QED
    BY <1>1, <1>4, <1>6, <1>7, <1>8, <1>10, <2>1, <2>2 DEF TapeTypeOK, owners
<1>12. SingleWriter'
  BY <1>4, <1>10 DEF SingleWriter, owners
<1>13. OneTail' /\ CacheFits'
  BY <1>6, <1>9, <1>10 DEF OneTail, CacheFits
<1>14. AckedStays'
  <2> SUFFICES ASSUME NEW e \in Event, numbered'[e] # Nil
               PROVE  /\ numbered'[e] \in DOMAIN events' /\ events'[numbered'[e]].id = e
                      /\ numbered'[e] <= durable'
    BY DEF AckedStays
  <2>1. CASE outcome = "synced" /\ e = id
    <3>1. numbered'[e] = Len(events') /\ whole /\ durable' = Len(events')
      BY <1>1, <1>3, <1>4, <1>5, <1>7, <2>1 DEF TapeTypeOK, Acknowledged, whole
    <3> QED
      BY <1>3, <1>7, <2>1, <3>1
  <2>2. CASE ~(outcome = "synced" /\ e = id)
    <3>1. numbered'[e] = numbered[e] /\ numbered[e] \in Nat
      BY <1>1, <1>4, <2>2 DEF TapeTypeOK, Acknowledged
    <3> QED
      BY <1>1, <1>7, <1>8, <3>1 DEF AckedStays
  <2> QED
    BY <2>1, <2>2
<1>15. torn # Nil /\ torn' # torn => torn \in side'
  BY <1>3, <1>4
<1> QED
  BY <1>6, <1>7, <1>11, <1>12, <1>13, <1>14, <1>15 DEF TapeInv, TapeSafe, NeverFused

\* Every step keeps the strengthening.
LEMMA TapeStep == TapeInv /\ [TapeNext]_tapeVars => TapeInv'
<1> SUFFICES ASSUME TapeInv, [TapeNext]_tapeVars PROVE TapeInv'
  OBVIOUS
<1>1. ASSUME NEW p \in Process, OpenStore(p) PROVE TapeInv'
  BY <1>1, OpenKeeps
<1>2. ASSUME NEW p \in Process, Drop(p) \/ KillProcess(p) \/ DropInherited(p) PROVE TapeInv'
  BY <1>2, OwnersKeep
<1>3. ASSUME NEW p \in Process, ReadAll(p) PROVE TapeInv'
  BY <1>3, ReadKeeps
<1>4. ASSUME NEW p \in Process, NEW q \in Process, Fork(p, q) PROVE TapeInv'
  BY <1>4, OwnersKeep
<1>5. ASSUME NEW p \in Process, NEW id \in Event, NEW outcome \in LineOutcome,
             AppendEvent(p, id, outcome)
      PROVE  TapeInv'
  BY <1>5, AppendKeeps
<1>6. CASE TapePowerLoss
  BY <1>6, PowerLossKeeps
<1>7. CASE UNCHANGED tapeVars
  BY <1>7 DEF tapeVars, file, owners, TapeInv, TapeSafe, TapeTypeOK, SeqsAreDense, NeverFused,
              SingleWriter, AckedStays, OneTail, CacheFits
<1> QED
  BY <1>1, <1>2, <1>3, <1>4, <1>5, <1>6, <1>7 DEF TapeNext

----------------------------------------------------------------------------
(* The theorems *)

\* The strengthening is an invariant.
LEMMA TapeInvariance == TapeSpec => []TapeInv
BY TapeInitInv, TapeStep, PTL DEF TapeSpec

\* For any number of processes and appends, after any failing write or sync, fork, kill
\* and power loss: the numbers on the tape are dense, it can be read, one process
\* writes, and what append returned stays. (JsonlStore::append)
THEOREM TapeIsSafe == TapeSpec => []TapeSafe
BY TapeInvariance, PTL DEF TapeInv

\* No step but a loss of power removes torn bytes that the side file does not have.
\* (JsonlStore::repair)
THEOREM TornBytesKept == TapeSpec => TornIsKept
<1> DEFINE Kept == torn # Nil /\ torn' # torn => torn \in side' \/ \A p \in Process : stores'[p] = Nil
<1>1. TapeInv /\ [TapeNext]_tapeVars => [Kept]_tapeVars
  <2> SUFFICES ASSUME TapeInv, TapeNext PROVE Kept
    OBVIOUS
  <2>1. ASSUME NEW p \in Process, ReadAll(p) PROVE Kept
    BY <2>1, ReadKeeps
  <2>2. ASSUME NEW p \in Process, NEW id \in Event, NEW outcome \in LineOutcome,
               AppendEvent(p, id, outcome)
        PROVE  Kept
    BY <2>2, AppendKeeps
  <2>3. ASSUME NEW p \in Process, NEW q \in Process,
               OpenStore(p) \/ Drop(p) \/ KillProcess(p) \/ DropInherited(p) \/ Fork(p, q)
        PROVE  Kept
    BY <2>3 DEF OpenStore, Drop, KillProcess, DropInherited, Fork, file
  <2>4. CASE TapePowerLoss
    BY <2>4 DEF TapePowerLoss
  <2> QED
    BY <2>1, <2>2, <2>3, <2>4 DEF TapeNext
<1> QED
  BY <1>1, TapeInvariance, PTL DEF TapeSpec, TornIsKept
=============================================================================

---------------------------- MODULE InstancesProofs ----------------------------
(***************************************************************************)
(* Proofs about instances: what histories, deliveries and products say of  *)
(* one another, for any number of instances and runs; and who may still    *)
(* read a published version, for any number of versions, attempts, copies  *)
(* and dead processes.                                                     *)
(***************************************************************************)
EXTENDS Instances, ArtifactCustody, SequenceTheorems, WellFoundedInduction, TLAPS

(* -------------------------- custody of versions -------------------------- *)

Past == {"registered", "settled", "cleaned", "releasing", "released"}
Holding == Past \cup {"acquiring", "pinned"}

\* What an owner takes, once it has chosen.
Takes(o) == IF o \in Attempts THEN Selections(o) ELSE {<<a>> : a \in Artifacts}

\* An owner holds what it has taken, slot after slot, and then all of it.
OwnerFits(o) ==
  /\ phase[o] \in Holding \cup {"reserving", "submitted", "withdrawn"} => inputs[o] \in Takes(o)
  /\ phase[o] \notin Holding => at[o] = 1
  /\ phase[o] \in {"acquiring", "pinned"} =>
       \A i \in 1..Len(inputs[o]) : i < at[o] => o \in ledger[inputs[o][i]].pins
  /\ phase[o] = "pinned" => at[o] <= Len(inputs[o]) /\ o \in ledger[inputs[o][at[o]]].pins
  /\ phase[o] \in Past => \A i \in 1..Len(inputs[o]) : o \in ledger[inputs[o][i]].pins

\* A deletion is submitted when every reader is done, and stays so.
KeptOrDone(v) ==
  /\ marks[v] \subseteq ledger[v].pins
  /\ ~ledger[v].bytes => ledger[v].intent
  /\ ledger[v].intent =>
       /\ ledger[v].closed
       /\ \A o \in ledger[v].pins : phase[o] = "released"
       /\ \A k \in Copies : ledger[v].copies[k] \in {"none", "released"}

\* A reservation has a process until it is durable, and its state is open.
Reserved(r) ==
  /\ r \in asked => phase[r] \notin {"idle", "reserving"}
  /\ phase[r] = "reserving" =>
       r \in live /\ \A i \in 1..Len(inputs[r]) : inputs[r][i] \in Checkpoints => ~ledger[inputs[r][i]].closed

\* A checkpoint gives up its pins when nobody reads it or is going to.
Over(c) ==
  phase[c] \in {"releasing", "released"} =>
    /\ ledger[c].closed
    /\ \A o \in ledger[c].pins : phase[o] = "released"
    /\ \A r \in AskedFor(c) : phase[r] = "withdrawn" \/ r \in marks[c]

\* A checkpoint was made by one settled attempt; what it made of HEAD was
\* followed, so that it made no other in the history, whatever was orphaned.
MakersFit ==
  /\ InHistory(newest)
  /\ \A r \in Runs : phase[r] \in Holding => InHistory(inputs[r][2])
  /\ \A c \in Checkpoints : maker[c] # Nobody =>
       maker[c] \in Runs /\ phase[maker[c]] \in Past \ {"registered"}
  /\ \A c \in Checkpoints : InHistory(c) /\ maker[c] # Nobody => inputs[maker[c]][2] # newest
  /\ \A c, d \in Checkpoints :
       InHistory(c) /\ InHistory(d) /\ maker[c] = maker[d] /\ maker[c] # Nobody => c = d

\* Data that is still needed was taken over by the checkpoint made of it.
HandedOver(r) ==
  phase[r] \in {"releasing", "released"} /\ outcome[r] = "needs-data" =>
    \E c \in Checkpoints : maker[c] = r /\ phase[c] \in Past /\ inputs[c] = <<inputs[r][1]>>

CustodyFits ==
  /\ \A o \in Owners : OwnerFits(o)
  /\ \A v \in Versions : KeptOrDone(v)
  /\ \A r \in Attempts : Reserved(r)
  /\ \A c \in Checkpoints : Over(c)
  /\ MakersFit
  /\ \A r \in Runs : HandedOver(r)

CustodyInv == CustodyTypeOK /\ CustodyFits

LEMMA TakesTyped ==
  ASSUME NEW o \in Owners, NEW s \in Takes(o)
  PROVE  s \in Seq(Versions) /\ Len(s) \in 1..2 /\ s[1] \in Artifacts
           /\ (Len(s) = 1 => s = <<s[1]>>) /\ (Len(s) = 2 => s = <<s[1], s[2]>> /\ s[2] \in Checkpoints)
           /\ Len(s) = IF o \in Runs THEN 2 ELSE 1
  <1>1. CASE o \in Runs
    <2>1. PICK a \in Artifacts, c \in Checkpoints : s = <<a, c>>
      BY <1>1, OwnersAssumption DEF Takes, Selections, Attempts
    <2> QED
      BY <2>1, <1>1 DEF Versions
  <1>2. CASE o \notin Runs
    <2>1. PICK a \in Artifacts : s = <<a>>
      BY <1>2, OwnersAssumption DEF Takes, Selections, Attempts, Owners
    <2> QED
      BY <2>1, <1>2 DEF Versions
  <1> QED
    BY <1>1, <1>2

LEMMA CustodyTypedFirst == CustodyInit => CustodyTypeOK
  <1> SUFFICES ASSUME CustodyInit PROVE CustodyTypeOK
    OBVIOUS
  <1>1. ledger \in [Versions -> [closed : BOOLEAN, intent : BOOLEAN, bytes : BOOLEAN, pins : SUBSET Owners,
                              copies : [Copies -> {"none", "opening", "read", "copied", "released"}]]]
    BY DEF CustodyInit
  <1>2. files \in [Versions -> SUBSET Owners] /\ marks \in [Versions -> SUBSET Owners]
    BY DEF CustodyInit
  <1>3. phase \in [Owners -> AttemptPhases \cup CheckpointPhases]
    BY DEF CustodyInit, AttemptPhases, CheckpointPhases
  <1>4. inputs \in [Owners -> Seq(Versions)] /\ at \in [Owners -> Nat \ {0}]
    BY DEF CustodyInit
  <1> QED
    BY <1>1, <1>2, <1>3, <1>4, OwnersAssumption DEF CustodyInit, CustodyTypeOK

(* ---- what a transaction does to the ledger of one version ---- *)

CopyStates == {"none", "opening", "read", "copied", "released"}
Sheet == [closed : BOOLEAN, intent : BOOLEAN, bytes : BOOLEAN, pins : SUBSET Owners, copies : [Copies -> CopyStates]]

Rest(w) == <<ledger[w].closed, ledger[w].intent, ledger[w].bytes>>

LEMMA SheetWritten ==
  ASSUME ledger \in [Versions -> Sheet], NEW v \in Versions, NEW f \in Sheet, ledger' = [ledger EXCEPT ![v] = f]
  PROVE  /\ ledger' \in [Versions -> Sheet] /\ ledger'[v] = f
         /\ \A w \in Versions : w # v => ledger'[w] = ledger[w]
  OBVIOUS

LEMMA PinWritten ==
  ASSUME ledger \in [Versions -> Sheet], NEW v \in Versions, NEW o \in Owners,
         ledger' = [ledger EXCEPT ![v].pins = @ \cup {o}]
  PROVE  /\ ledger' \in [Versions -> Sheet]
         /\ \A w \in Versions :
              /\ Rest(w)' = Rest(w) /\ ledger'[w].copies = ledger[w].copies
              /\ ledger'[w].pins = IF w = v THEN ledger[w].pins \cup {o} ELSE ledger[w].pins
  <1> DEFINE f == [ledger[v] EXCEPT !.pins = @ \cup {o}]
  <1>0. ledger[v] \in Sheet
    OBVIOUS
  <1>1. f \in Sheet /\ f.closed = ledger[v].closed /\ f.intent = ledger[v].intent /\ f.bytes = ledger[v].bytes
        /\ f.copies = ledger[v].copies /\ f.pins = ledger[v].pins \cup {o}
    BY <1>0 DEF Sheet
  <1>2. ledger' = [ledger EXCEPT ![v] = f]
    OBVIOUS
  <1> HIDE DEF f
  <1>3. ledger' \in [Versions -> Sheet] /\ ledger'[v] = f /\ \A w \in Versions : w # v => ledger'[w] = ledger[w]
    BY <1>1, <1>2, SheetWritten
  <1> QED
    BY <1>1, <1>3 DEF Rest

LEMMA CopyWritten ==
  ASSUME ledger \in [Versions -> Sheet], NEW v \in Versions, NEW k \in Copies, NEW to \in CopyStates,
         NEW from, CopyStep(v, k, from, to)
  PROVE  /\ ledger' \in [Versions -> Sheet]
         /\ \A w \in Versions :
              /\ Rest(w)' = Rest(w) /\ ledger'[w].pins = ledger[w].pins
              /\ \A j \in Copies : ledger'[w].copies[j] = IF w = v /\ j = k THEN to ELSE ledger[w].copies[j]
  <1> DEFINE g == [ledger[v].copies EXCEPT ![k] = to]
             f == [ledger[v] EXCEPT !.copies = g]
  <1>0. ledger[v] \in Sheet
    OBVIOUS
  <1>1. g \in [Copies -> CopyStates] /\ \A j \in Copies : g[j] = IF j = k THEN to ELSE ledger[v].copies[j]
    BY <1>0 DEF Sheet
  <1>2. ledger' = [ledger EXCEPT ![v] = f]
    BY DEF CopyStep
  <1> HIDE DEF g
  <1>3. f \in Sheet /\ f.closed = ledger[v].closed /\ f.intent = ledger[v].intent /\ f.bytes = ledger[v].bytes
        /\ f.copies = g /\ f.pins = ledger[v].pins
    BY <1>0, <1>1 DEF Sheet
  <1> HIDE DEF f
  <1>4. ledger' \in [Versions -> Sheet] /\ ledger'[v] = f /\ \A w \in Versions : w # v => ledger'[w] = ledger[w]
    BY <1>2, <1>3, SheetWritten
  <1> QED
    BY <1>1, <1>3, <1>4 DEF Rest

LEMMA ClosedWritten ==
  ASSUME ledger \in [Versions -> Sheet], NEW v \in Versions, ledger' = [ledger EXCEPT ![v].closed = TRUE]
  PROVE  /\ ledger' \in [Versions -> Sheet]
         /\ \A w \in Versions :
              /\ ledger'[w].pins = ledger[w].pins /\ ledger'[w].copies = ledger[w].copies
              /\ ledger'[w].intent = ledger[w].intent /\ ledger'[w].bytes = ledger[w].bytes
              /\ ledger'[w].closed = IF w = v THEN TRUE ELSE ledger[w].closed
  <1> DEFINE f == [ledger[v] EXCEPT !.closed = TRUE]
  <1>0. ledger[v] \in Sheet
    OBVIOUS
  <1>1. f \in Sheet /\ f.closed = TRUE /\ f.intent = ledger[v].intent /\ f.bytes = ledger[v].bytes
        /\ f.copies = ledger[v].copies /\ f.pins = ledger[v].pins
    BY <1>0 DEF Sheet
  <1>2. ledger' = [ledger EXCEPT ![v] = f]
    OBVIOUS
  <1> HIDE DEF f
  <1>3. ledger' \in [Versions -> Sheet] /\ ledger'[v] = f /\ \A w \in Versions : w # v => ledger'[w] = ledger[w]
    BY <1>1, <1>2, SheetWritten
  <1> QED
    BY <1>1, <1>3

LEMMA IntentWritten ==
  ASSUME ledger \in [Versions -> Sheet], NEW v \in Versions, ledger' = [ledger EXCEPT ![v].intent = TRUE]
  PROVE  /\ ledger' \in [Versions -> Sheet]
         /\ \A w \in Versions :
              /\ ledger'[w].pins = ledger[w].pins /\ ledger'[w].copies = ledger[w].copies
              /\ ledger'[w].closed = ledger[w].closed /\ ledger'[w].bytes = ledger[w].bytes
              /\ ledger'[w].intent = IF w = v THEN TRUE ELSE ledger[w].intent
  <1> DEFINE f == [ledger[v] EXCEPT !.intent = TRUE]
  <1>0. ledger[v] \in Sheet
    OBVIOUS
  <1>1. f \in Sheet /\ f.intent = TRUE /\ f.closed = ledger[v].closed /\ f.bytes = ledger[v].bytes
        /\ f.copies = ledger[v].copies /\ f.pins = ledger[v].pins
    BY <1>0 DEF Sheet
  <1>2. ledger' = [ledger EXCEPT ![v] = f]
    OBVIOUS
  <1> HIDE DEF f
  <1>3. ledger' \in [Versions -> Sheet] /\ ledger'[v] = f /\ \A w \in Versions : w # v => ledger'[w] = ledger[w]
    BY <1>1, <1>2, SheetWritten
  <1> QED
    BY <1>1, <1>3

LEMMA DroppedWritten ==
  ASSUME ledger \in [Versions -> Sheet], NEW v \in Versions, ledger' = [ledger EXCEPT ![v].bytes = FALSE]
  PROVE  /\ ledger' \in [Versions -> Sheet]
         /\ \A w \in Versions :
              /\ ledger'[w].pins = ledger[w].pins /\ ledger'[w].copies = ledger[w].copies
              /\ ledger'[w].closed = ledger[w].closed /\ ledger'[w].intent = ledger[w].intent
              /\ ledger'[w].bytes = IF w = v THEN FALSE ELSE ledger[w].bytes
  <1> DEFINE f == [ledger[v] EXCEPT !.bytes = FALSE]
  <1>0. ledger[v] \in Sheet
    OBVIOUS
  <1>1. f \in Sheet /\ f.bytes = FALSE /\ f.closed = ledger[v].closed /\ f.intent = ledger[v].intent
        /\ f.copies = ledger[v].copies /\ f.pins = ledger[v].pins
    BY <1>0 DEF Sheet
  <1>2. ledger' = [ledger EXCEPT ![v] = f]
    OBVIOUS
  <1> HIDE DEF f
  <1>3. ledger' \in [Versions -> Sheet] /\ ledger'[v] = f /\ \A w \in Versions : w # v => ledger'[w] = ledger[w]
    BY <1>1, <1>2, SheetWritten
  <1> QED
    BY <1>1, <1>3

LEMMA LedgerTyped == CustodyTypeOK => ledger \in [Versions -> Sheet]
  BY DEF CustodyTypeOK, Sheet, CopyStates

LEMMA LedgerStepTyped ==
  ASSUME CustodyTypeOK, ledger' \in [Versions -> Sheet],
         phase' \in [Owners -> AttemptPhases \cup CheckpointPhases],
         live' \subseteq Owners \cup Artifacts \cup (Artifacts \X Copies),
         UNCHANGED <<files, marks, inputs, at, outcome, asked, maker, newest, crashes>>
  PROVE  CustodyTypeOK'
  BY DEF CustodyTypeOK, Sheet, CopyStates

LEMMA PhaseTyped ==
  ASSUME CustodyTypeOK, NEW o \in Owners, NEW p \in AttemptPhases \cup CheckpointPhases, SetPhase(o, p)
  PROVE  phase' \in [Owners -> AttemptPhases \cup CheckpointPhases]
  BY DEF CustodyTypeOK, SetPhase

LEMMA InputsTyped ==
  ASSUME CustodyTypeOK, NEW o \in Owners, NEW s \in Takes(o), inputs' = [inputs EXCEPT ![o] = s]
  PROVE  inputs' \in [Owners -> Seq(Versions)]
  BY TakesTyped DEF CustodyTypeOK

LEMMA SlotTyped ==
  ASSUME CustodyTypeOK, NEW o \in Owners, ~Done(o)
  PROVE  at[o] \in 1..Len(inputs[o]) /\ Slot(o) \in Versions
  <1>1. inputs[o] \in Seq(Versions) /\ at[o] \in Nat \ {0} /\ Len(inputs[o]) \in Nat
    BY DEF CustodyTypeOK
  <1>2. at[o] \in 1..Len(inputs[o])
    BY <1>1 DEF Done
  <1> QED
    BY <1>1, <1>2 DEF Slot

LEMMA CustodyTyped == CustodyTypeOK /\ [CustodyNext]_custody => CustodyTypeOK'
  <1> SUFFICES ASSUME CustodyTypeOK, [CustodyNext]_custody PROVE CustodyTypeOK'
    OBVIOUS
  <1>0. ledger \in [Versions -> Sheet] /\ phase \in [Owners -> AttemptPhases \cup CheckpointPhases]
        /\ live \subseteq Owners \cup Artifacts \cup (Artifacts \X Copies)
    BY LedgerTyped DEF CustodyTypeOK
  <1>1. ASSUME NEW r \in Attempts, NEW sel \in Selections(r), Reserve(r, sel) PROVE CustodyTypeOK'
    <2>1. phase' \in [Owners -> AttemptPhases \cup CheckpointPhases]
      BY <1>1, PhaseTyped DEF Reserve, AttemptPhases, CheckpointPhases, Owners, Attempts
    <2>2. sel \in Takes(r)
      BY OwnersAssumption DEF Takes, Attempts, Owners
    <2>3. inputs' \in [Owners -> Seq(Versions)]
      BY <1>1, <2>2, InputsTyped DEF Reserve, Owners, Attempts
    <2>4. live' \subseteq Owners \cup Artifacts \cup (Artifacts \X Copies)
      BY <1>0, <1>1 DEF Reserve, Owners, Attempts
    <2> QED
      BY <1>1, <2>1, <2>3, <2>4 DEF CustodyTypeOK, Reserve
  <1>2. ASSUME NEW r \in Attempts, NEW sel \in Selections(r), Acquire(r, sel) PROVE CustodyTypeOK'
    <2>1. phase' \in [Owners -> AttemptPhases \cup CheckpointPhases]
      BY <1>2, PhaseTyped DEF Acquire, AttemptPhases, CheckpointPhases, Owners, Attempts
    <2>2. sel \in Takes(r)
      BY OwnersAssumption DEF Takes, Attempts, Owners
    <2>3. inputs' \in [Owners -> Seq(Versions)]
      BY <1>2, <2>2, InputsTyped DEF Acquire, Owners, Attempts
    <2>4. live' \subseteq Owners \cup Artifacts \cup (Artifacts \X Copies)
      BY <1>0, <1>2 DEF Acquire, Owners, Attempts
    <2> QED
      BY <1>2, <2>1, <2>3, <2>4 DEF CustodyTypeOK, Acquire
  <1>3. ASSUME NEW r \in Attempts, Submit(r) PROVE CustodyTypeOK'
    BY <1>3 DEF CustodyTypeOK, Submit, SetPhase, AttemptPhases, CheckpointPhases, Owners, Attempts
  <1>4. ASSUME NEW r \in Attempts, Withdraw(r) PROVE CustodyTypeOK'
    BY <1>4 DEF CustodyTypeOK, Withdraw, SetPhase, AttemptPhases, CheckpointPhases, Owners, Attempts
  <1>5. ASSUME NEW r \in Attempts, Snapshot(r) PROVE CustodyTypeOK'
    BY <1>5 DEF CustodyTypeOK, Snapshot, SetPhase, AttemptPhases, CheckpointPhases, Owners, Attempts
  <1>6. ASSUME NEW r \in Attempts, Clean(r) PROVE CustodyTypeOK'
    BY <1>6 DEF CustodyTypeOK, Clean, SetPhase, AttemptPhases, CheckpointPhases, Owners, Attempts
  <1>7. ASSUME NEW r \in Attempts, ReleaseInputs(r) PROVE CustodyTypeOK'
    BY <1>7 DEF CustodyTypeOK, ReleaseInputs, SetPhase, AttemptPhases, CheckpointPhases, Owners, Attempts
  <1>8. ASSUME NEW r \in Attempts, NEW how \in {"cancelled", "failed", "needs-data", "needs-nothing"}, Settle(r, how) PROVE CustodyTypeOK'
    BY <1>8 DEF CustodyTypeOK, Settle, SetPhase, AttemptPhases, CheckpointPhases, Owners, Attempts
  <1>9. ASSUME NEW r \in Attempts, NEW c \in Checkpoints, Commit(r, c) PROVE CustodyTypeOK'
    <2>1. phase' \in [Owners -> AttemptPhases \cup CheckpointPhases]
      BY <1>9, PhaseTyped DEF Commit, Publish, CheckpointPhases, Owners
    <2>2. maker' \in [Checkpoints -> Attempts \cup {Nobody}]
      BY <1>9 DEF CustodyTypeOK, Commit, Publish
    <2> QED
      BY <1>9, <2>1, <2>2, OwnersAssumption DEF CustodyTypeOK, Commit, Publish
  <1>10. ASSUME NEW r \in Attempts, NEW c \in Checkpoints, CommitIsCut(r, c) PROVE CustodyTypeOK'
    <2>1. phase' \in [Owners -> AttemptPhases \cup CheckpointPhases]
      BY <1>10, PhaseTyped DEF CommitIsCut, Publish, CheckpointPhases, Owners
    <2>2. maker' \in [Checkpoints -> Attempts \cup {Nobody}]
      BY <1>10 DEF CustodyTypeOK, CommitIsCut, Publish
    <2> QED
      BY <1>10, <2>1, <2>2, OwnersAssumption DEF CustodyTypeOK, CommitIsCut, Publish
  <1>11. ASSUME NEW c \in Checkpoints, ReleasePins(c) PROVE CustodyTypeOK'
    BY <1>11 DEF CustodyTypeOK, ReleasePins, SetPhase, AttemptPhases, CheckpointPhases, Owners, Attempts
  <1>12. ASSUME NEW c \in Checkpoints, NEW a \in Artifacts, Declare(c, <<a>>) PROVE CustodyTypeOK'
    <2>1. phase' \in [Owners -> AttemptPhases \cup CheckpointPhases]
      BY <1>12, PhaseTyped DEF Declare, AttemptPhases, CheckpointPhases, Owners, Attempts
    <2>2. <<a>> \in Takes(c)
      BY OwnersAssumption DEF Takes, Attempts, Owners
    <2>3. inputs' \in [Owners -> Seq(Versions)]
      BY <1>12, <2>2, InputsTyped DEF Declare, Owners, Attempts
    <2>4. live' \subseteq Owners \cup Artifacts \cup (Artifacts \X Copies)
      BY <1>0, <1>12 DEF Declare, Owners, Attempts
    <2> QED
      BY <1>12, <2>1, <2>3, <2>4 DEF CustodyTypeOK, Declare
  <1>13. ASSUME NEW o \in Owners, Pin(o) PROVE CustodyTypeOK'
    <2>1. ledger' \in [Versions -> Sheet]
      BY <1>0, <1>13, SlotTyped, PinWritten DEF Pin
    <2>2. phase' \in [Owners -> AttemptPhases \cup CheckpointPhases]
      BY <1>13, PhaseTyped DEF Pin, AttemptPhases
    <2> QED
      BY <1>0, <1>13, <2>1, <2>2, LedgerStepTyped DEF Pin
  <1>14. ASSUME NEW o \in Owners, WriteClaim(o) PROVE CustodyTypeOK'
    <2>1. files' \in [Versions -> SUBSET Owners]
      BY <1>14 DEF CustodyTypeOK, WriteClaim
    <2>2. phase' \in [Owners -> AttemptPhases \cup CheckpointPhases]
      BY <1>14, PhaseTyped DEF WriteClaim, AttemptPhases
    <2>3. at' \in [Owners -> Nat \ {0}]
      BY <1>14 DEF CustodyTypeOK, WriteClaim
    <2> QED
      BY <1>14, <2>1, <2>2, <2>3 DEF CustodyTypeOK, WriteClaim
  <1>15. ASSUME NEW o \in Owners, Register(o) PROVE CustodyTypeOK'
    BY <1>15 DEF CustodyTypeOK, Register, SetPhase, AttemptPhases, CheckpointPhases, Owners, Attempts
  <1>16. ASSUME NEW o \in Owners, MarkRelease(o) PROVE CustodyTypeOK'
    <2>1. marks' \in [Versions -> SUBSET Owners]
      BY <1>16 DEF CustodyTypeOK, MarkRelease
    <2>3. at' \in [Owners -> Nat \ {0}]
      BY <1>16 DEF CustodyTypeOK, MarkRelease
    <2> QED
      BY <1>16, <2>1, <2>3 DEF CustodyTypeOK, MarkRelease
  <1>17. ASSUME NEW o \in Owners, Receipt(o) PROVE CustodyTypeOK'
    BY <1>17 DEF CustodyTypeOK, Receipt, SetPhase, AttemptPhases, CheckpointPhases, Owners, Attempts
  <1>18. ASSUME NEW v \in Versions, Close(v) PROVE CustodyTypeOK'
    <2>1. ledger' \in [Versions -> Sheet]
      BY <1>0, <1>18, ClosedWritten DEF Close, Versions
    <2> QED
      BY <1>0, <1>18, <2>1, LedgerStepTyped DEF Close
  <1>19. ASSUME NEW a \in Artifacts, Delete(a) PROVE CustodyTypeOK'
    <2>1. ledger' \in [Versions -> Sheet]
      BY <1>0, <1>19, IntentWritten DEF Delete, Versions
    <2> QED
      BY <1>0, <1>19, <2>1, LedgerStepTyped DEF Delete
  <1>20. ASSUME NEW a \in Artifacts, Drop(a) PROVE CustodyTypeOK'
    <2>1. ledger' \in [Versions -> Sheet]
      BY <1>0, <1>20, DroppedWritten DEF Drop, Versions
    <2> QED
      BY <1>0, <1>20, <2>1, LedgerStepTyped DEF Drop
  <1>21. ASSUME NEW a \in Artifacts, NEW k \in Copies, Checkout(a, k) PROVE CustodyTypeOK'
    <2>1. ledger' \in [Versions -> Sheet]
      BY <1>0, <1>21, CopyWritten DEF Checkout, Versions, CopyStates
    <2>2. live' \subseteq Owners \cup Artifacts \cup (Artifacts \X Copies)
      BY <1>0, <1>21 DEF Checkout
    <2> QED
      BY <1>0, <1>21, <2>1, <2>2, LedgerStepTyped DEF Checkout, CopyStep
  <1>22. ASSUME NEW a \in Artifacts, NEW k \in Copies, ReadCopy(a, k) PROVE CustodyTypeOK'
    <2>1. ledger' \in [Versions -> Sheet]
      BY <1>0, <1>22, CopyWritten DEF ReadCopy, Versions, CopyStates
    <2>2. live' \subseteq Owners \cup Artifacts \cup (Artifacts \X Copies)
      BY <1>0, <1>22 DEF ReadCopy
    <2> QED
      BY <1>0, <1>22, <2>1, <2>2, LedgerStepTyped DEF ReadCopy, CopyStep
  <1>23. ASSUME NEW a \in Artifacts, NEW k \in Copies, Copied(a, k) PROVE CustodyTypeOK'
    <2>1. ledger' \in [Versions -> Sheet]
      BY <1>0, <1>23, CopyWritten DEF Copied, Versions, CopyStates
    <2>2. live' \subseteq Owners \cup Artifacts \cup (Artifacts \X Copies)
      BY <1>0, <1>23 DEF Copied
    <2> QED
      BY <1>0, <1>23, <2>1, <2>2, LedgerStepTyped DEF Copied, CopyStep
  <1>24. ASSUME NEW a \in Artifacts, NEW k \in Copies, ReleaseCopy(a, k) PROVE CustodyTypeOK'
    <2>1. ledger' \in [Versions -> Sheet]
      BY <1>0, <1>24, CopyWritten DEF ReleaseCopy, Versions, CopyStates
    <2>2. live' \subseteq Owners \cup Artifacts \cup (Artifacts \X Copies)
      BY <1>0, <1>24 DEF ReleaseCopy
    <2> QED
      BY <1>0, <1>24, <2>1, <2>2, LedgerStepTyped DEF ReleaseCopy, CopyStep
  <1>25. ASSUME NEW x \in live, Crash(x) PROVE CustodyTypeOK'
    <2>1. phase' \in [Owners -> AttemptPhases \cup CheckpointPhases]
      BY <1>25 DEF CustodyTypeOK, Crash, AttemptPhases
    <2> QED
      BY <1>25, <2>1, OwnersAssumption DEF CustodyTypeOK, Crash
  <1>26. CASE UNCHANGED custody
    BY <1>26 DEF CustodyTypeOK, custody
  <1> QED
    BY <1>1, <1>2, <1>3, <1>4, <1>5, <1>6, <1>7, <1>8, <1>9, <1>10, <1>11, <1>12, <1>13, <1>14, <1>15, <1>16, <1>17, <1>18, <1>19, <1>20, <1>21, <1>22, <1>23, <1>24, <1>25, <1>26 DEF CustodyNext

(* ------------------------- what no step takes back ------------------------ *)

Settled == Past \ {"registered"}

Forward ==
  /\ \A o \in Owners :
       /\ phase[o] \in {"released", "withdrawn"} => phase'[o] = phase[o]
       /\ phase[o] \in Past => phase'[o] \in Past /\ inputs'[o] = inputs[o]
       /\ phase[o] \in Settled => phase'[o] \in Settled
       /\ o \in Attempts /\ phase[o] \in Settled => outcome'[o] = outcome[o]
  /\ \A v \in Versions :
       /\ ledger[v].pins \subseteq ledger'[v].pins /\ marks[v] \subseteq marks'[v]
       /\ ledger[v].closed => ledger'[v].closed /\ ledger'[v].pins = ledger[v].pins

LEMMA GoesForward ==
  ASSUME CustodyTypeOK, CustodyNext
  PROVE  Forward
  <1>0. ledger \in [Versions -> Sheet] /\ phase \in [Owners -> AttemptPhases \cup CheckpointPhases]
        /\ marks \in [Versions -> SUBSET Owners] /\ inputs \in [Owners -> Seq(Versions)]
        /\ outcome \in [Attempts -> {"none", "cancelled", "failed", "needs-data", "needs-nothing"}]
    BY LedgerTyped DEF CustodyTypeOK
  <1>1. ASSUME NEW r \in Attempts, NEW sel \in Selections(r), Reserve(r, sel) PROVE Forward
    BY <1>0, <1>1 DEF Forward, Reserve, SetPhase, Past, Settled, Owners, Attempts
  <1>2. ASSUME NEW r \in Attempts, NEW sel \in Selections(r), Acquire(r, sel) PROVE Forward
    BY <1>0, <1>2 DEF Forward, Acquire, SetPhase, Past, Settled, Owners, Attempts
  <1>3. ASSUME NEW r \in Attempts, Submit(r) PROVE Forward
    BY <1>0, <1>3 DEF Forward, Submit, SetPhase, Past, Settled, Owners, Attempts
  <1>4. ASSUME NEW r \in Attempts, Withdraw(r) PROVE Forward
    BY <1>0, <1>4 DEF Forward, Withdraw, SetPhase, Past, Settled, Owners, Attempts
  <1>5. ASSUME NEW r \in Attempts, Snapshot(r) PROVE Forward
    BY <1>0, <1>5 DEF Forward, Snapshot, SetPhase, Past, Settled, Owners, Attempts
  <1>6. ASSUME NEW r \in Attempts, Clean(r) PROVE Forward
    BY <1>0, <1>6 DEF Forward, Clean, SetPhase, Past, Settled, Owners, Attempts
  <1>7. ASSUME NEW r \in Attempts, ReleaseInputs(r) PROVE Forward
    BY <1>0, <1>7 DEF Forward, ReleaseInputs, MayRelease, SetPhase, Past, Settled, Owners, Attempts
  <1>8. ASSUME NEW r \in Attempts, NEW how \in {"cancelled", "failed", "needs-data", "needs-nothing"}, Settle(r, how) PROVE Forward
    BY <1>0, <1>8 DEF Forward, Settle, SetPhase, Past, Settled, Owners, Attempts
  <1>9. ASSUME NEW r \in Attempts, NEW c \in Checkpoints, Commit(r, c) PROVE Forward
    BY <1>0, <1>9 DEF Forward, Commit, Publish, Publishable, SetPhase, Past, Settled, Owners, Attempts
  <1>10. ASSUME NEW r \in Attempts, NEW c \in Checkpoints, CommitIsCut(r, c) PROVE Forward
    BY <1>0, <1>10 DEF Forward, CommitIsCut, Publish, Publishable, SetPhase, Past, Settled, Owners, Attempts
  <1>11. ASSUME NEW c \in Checkpoints, ReleasePins(c) PROVE Forward
    BY <1>0, <1>11 DEF Forward, ReleasePins, Declared, SetPhase, Past, Settled, Owners, Attempts
  <1>12. ASSUME NEW c \in Checkpoints, NEW a \in Artifacts, Declare(c, <<a>>) PROVE Forward
    BY <1>0, <1>12 DEF Forward, Declare, SetPhase, Past, Settled, Owners, Attempts
  <1>13. ASSUME NEW o \in Owners, Pin(o) PROVE Forward
    <2>1. \A v \in Versions : Rest(v)' = Rest(v) /\ ledger'[v].pins = IF v = Slot(o) THEN ledger[v].pins \cup {o} ELSE ledger[v].pins
      BY <1>0, <1>13, SlotTyped, PinWritten DEF Pin
    <2> QED
      BY <1>0, <1>13, <2>1, SlotTyped DEF Forward, Pin, SetPhase, Past, Settled, Open, Rest
  <1>14. ASSUME NEW o \in Owners, WriteClaim(o) PROVE Forward
    BY <1>0, <1>14 DEF Forward, WriteClaim, SetPhase, Past, Settled, Owners, Attempts
  <1>15. ASSUME NEW o \in Owners, Register(o) PROVE Forward
    BY <1>0, <1>15 DEF Forward, Register, SetPhase, Past, Settled, Owners, Attempts
  <1>16. ASSUME NEW o \in Owners, MarkRelease(o) PROVE Forward
    BY <1>0, <1>16 DEF Forward, MarkRelease, SetPhase, Past, Settled, Owners, Attempts
  <1>17. ASSUME NEW o \in Owners, Receipt(o) PROVE Forward
    BY <1>0, <1>17 DEF Forward, Receipt, SetPhase, Past, Settled, Owners, Attempts
  <1>18. ASSUME NEW v \in Versions, Close(v) PROVE Forward
    <2>1. \A w \in Versions : ledger'[w].pins = ledger[w].pins /\ (ledger[w].closed => ledger'[w].closed)
      BY <1>0, <1>18, ClosedWritten DEF Close, Versions, Rest
    <2> QED
      BY <1>18, <2>1 DEF Forward, Close
  <1>19. ASSUME NEW a \in Artifacts, Delete(a) PROVE Forward
    <2>1. \A w \in Versions : ledger'[w].pins = ledger[w].pins /\ (ledger[w].closed => ledger'[w].closed)
      BY <1>0, <1>19, IntentWritten DEF Delete, Versions, Rest
    <2> QED
      BY <1>19, <2>1 DEF Forward, Delete
  <1>20. ASSUME NEW a \in Artifacts, Drop(a) PROVE Forward
    <2>1. \A w \in Versions : ledger'[w].pins = ledger[w].pins /\ (ledger[w].closed => ledger'[w].closed)
      BY <1>0, <1>20, DroppedWritten DEF Drop, Versions, Rest
    <2> QED
      BY <1>20, <2>1 DEF Forward, Drop
  <1>21. ASSUME NEW a \in Artifacts, NEW k \in Copies, Checkout(a, k) PROVE Forward
    <2>1. \A w \in Versions : ledger'[w].pins = ledger[w].pins /\ (ledger[w].closed => ledger'[w].closed)
      BY <1>0, <1>21, CopyWritten DEF Checkout, Versions, CopyStates, Rest
    <2> QED
      BY <1>21, <2>1 DEF Forward, Checkout, CopyStep
  <1>22. ASSUME NEW a \in Artifacts, NEW k \in Copies, ReadCopy(a, k) PROVE Forward
    <2>1. \A w \in Versions : ledger'[w].pins = ledger[w].pins /\ (ledger[w].closed => ledger'[w].closed)
      BY <1>0, <1>22, CopyWritten DEF ReadCopy, Versions, CopyStates, Rest
    <2> QED
      BY <1>22, <2>1 DEF Forward, ReadCopy, CopyStep
  <1>23. ASSUME NEW a \in Artifacts, NEW k \in Copies, Copied(a, k) PROVE Forward
    <2>1. \A w \in Versions : ledger'[w].pins = ledger[w].pins /\ (ledger[w].closed => ledger'[w].closed)
      BY <1>0, <1>23, CopyWritten DEF Copied, Versions, CopyStates, Rest
    <2> QED
      BY <1>23, <2>1 DEF Forward, Copied, CopyStep
  <1>24. ASSUME NEW a \in Artifacts, NEW k \in Copies, ReleaseCopy(a, k) PROVE Forward
    <2>1. \A w \in Versions : ledger'[w].pins = ledger[w].pins /\ (ledger[w].closed => ledger'[w].closed)
      BY <1>0, <1>24, CopyWritten DEF ReleaseCopy, Versions, CopyStates, Rest
    <2> QED
      BY <1>24, <2>1 DEF Forward, ReleaseCopy, CopyStep
  <1>25. ASSUME NEW x \in live, Crash(x) PROVE Forward
    BY <1>0, <1>25 DEF Forward, Crash, SetPhase, Past, Settled, Owners, Attempts
  <1> QED
    BY <1>1, <1>2, <1>3, <1>4, <1>5, <1>6, <1>7, <1>8, <1>9, <1>10, <1>11, <1>12, <1>13, <1>14, <1>15, <1>16, <1>17, <1>18, <1>19, <1>20, <1>21, <1>22, <1>23, <1>24, <1>25 DEF CustodyNext

(* ------------------------- an owner and its claims ------------------------ *)

LEMMA OwnerAside ==
  ASSUME CustodyTypeOK, NEW o \in Owners, OwnerFits(o), Forward,
         phase'[o] = phase[o], inputs'[o] = inputs[o], at'[o] = at[o]
  PROVE  OwnerFits(o)'
  <1>1. inputs[o] \in Seq(Versions)
    BY DEF CustodyTypeOK
  <1>2. \A i \in 1..Len(inputs[o]) : inputs[o][i] \in Versions
    BY <1>1
  <1>3. phase[o] = "pinned" => at[o] \in 1..Len(inputs[o])
    BY <1>1 DEF OwnerFits, CustodyTypeOK
  <1>4. \A v \in Versions : ledger[v].pins \subseteq ledger'[v].pins
    BY DEF Forward
  <1> QED
    BY <1>2, <1>3, <1>4 DEF OwnerFits, Takes, Selections

\* The claims of an owner that does not change its inputs are still there.
LEMMA ClaimsStay ==
  ASSUME CustodyTypeOK, NEW o \in Owners, Forward, inputs'[o] = inputs[o]
  PROVE  \A i \in 1..Len(inputs[o]) :
           o \in ledger[inputs[o][i]].pins => o \in ledger'[inputs'[o][i]].pins
  <1>1. \A i \in 1..Len(inputs[o]) : inputs[o][i] \in Versions
    BY DEF CustodyTypeOK
  <1> QED
    BY <1>1 DEF Forward

LEMMA OwnersFit ==
  ASSUME CustodyTypeOK, \A o \in Owners : OwnerFits(o), CustodyNext, NEW p \in Owners
  PROVE  OwnerFits(p)'
  <1>0. /\ Forward /\ CustodyTypeOK' /\ OwnerFits(p)
        /\ ledger \in [Versions -> Sheet] /\ phase \in [Owners -> AttemptPhases \cup CheckpointPhases]
        /\ inputs \in [Owners -> Seq(Versions)] /\ at \in [Owners -> Nat \ {0}]
    BY GoesForward, CustodyTyped, LedgerTyped DEF CustodyTypeOK
  <1>00. phase'[p] = phase[p] /\ inputs'[p] = inputs[p] /\ at'[p] = at[p] => OwnerFits(p)'
    BY <1>0, OwnerAside
  <1>000. inputs'[p] = inputs[p] =>
            \A i \in 1..Len(inputs[p]) : p \in ledger[inputs[p][i]].pins => p \in ledger'[inputs'[p][i]].pins
    BY <1>0, ClaimsStay
  <1>1. ASSUME NEW r \in Attempts, NEW sel \in Selections(r), Reserve(r, sel) PROVE OwnerFits(p)'
    <2>1. CASE p # r
      BY <1>0, <1>00, <1>1, <2>1 DEF Reserve, SetPhase
    <2>2. CASE p = r
      BY <1>0, <1>000, <1>1, <2>2, OwnersAssumption DEF Reserve, SetPhase, OwnerFits, Takes, Selections, Past, Holding, Attempts, Owners
    <2> QED
      BY <2>1, <2>2
  <1>2. ASSUME NEW r \in Attempts, NEW sel \in Selections(r), Acquire(r, sel) PROVE OwnerFits(p)'
    <2>1. CASE p # r
      BY <1>0, <1>00, <1>2, <2>1 DEF Acquire, SetPhase
    <2>2. CASE p = r
      BY <1>0, <1>000, <1>2, <2>2, OwnersAssumption DEF Acquire, SetPhase, OwnerFits, Takes, Selections, Past, Holding, Attempts, Owners
    <2> QED
      BY <2>1, <2>2
  <1>3. ASSUME NEW r \in Attempts, Submit(r) PROVE OwnerFits(p)'
    <2>1. CASE p # r
      BY <1>0, <1>00, <1>3, <2>1 DEF Submit, SetPhase
    <2>2. CASE p = r
      BY <1>0, <1>000, <1>3, <2>2 DEF Submit, SetPhase, OwnerFits, Takes, Selections, Past, Holding
    <2> QED
      BY <2>1, <2>2
  <1>4. ASSUME NEW r \in Attempts, Withdraw(r) PROVE OwnerFits(p)'
    <2>1. CASE p # r
      BY <1>0, <1>00, <1>4, <2>1 DEF Withdraw, SetPhase
    <2>2. CASE p = r
      BY <1>0, <1>000, <1>4, <2>2 DEF Withdraw, SetPhase, OwnerFits, Takes, Selections, Past, Holding
    <2> QED
      BY <2>1, <2>2
  <1>5. ASSUME NEW r \in Attempts, Snapshot(r) PROVE OwnerFits(p)'
    <2>1. CASE p # r
      BY <1>0, <1>00, <1>5, <2>1 DEF Snapshot, SetPhase
    <2>2. CASE p = r
      BY <1>0, <1>000, <1>5, <2>2 DEF Snapshot, SetPhase, OwnerFits, Takes, Selections, Past, Holding
    <2> QED
      BY <2>1, <2>2
  <1>6. ASSUME NEW r \in Attempts, Clean(r) PROVE OwnerFits(p)'
    <2>1. CASE p # r
      BY <1>0, <1>00, <1>6, <2>1 DEF Clean, SetPhase
    <2>2. CASE p = r
      BY <1>0, <1>000, <1>6, <2>2 DEF Clean, SetPhase, OwnerFits, Takes, Selections, Past, Holding
    <2> QED
      BY <2>1, <2>2
  <1>7. ASSUME NEW r \in Attempts, ReleaseInputs(r) PROVE OwnerFits(p)'
    <2>1. CASE p # r
      BY <1>0, <1>00, <1>7, <2>1 DEF ReleaseInputs, MayRelease, SetPhase
    <2>2. CASE p = r
      BY <1>0, <1>000, <1>7, <2>2 DEF ReleaseInputs, MayRelease, SetPhase, OwnerFits, Takes, Selections, Past, Holding
    <2> QED
      BY <2>1, <2>2
  <1>8. ASSUME NEW r \in Attempts, NEW how \in {"cancelled", "failed", "needs-data", "needs-nothing"}, Settle(r, how) PROVE OwnerFits(p)'
    <2>1. CASE p # r
      BY <1>0, <1>00, <1>8, <2>1 DEF Settle, SetPhase
    <2>2. CASE p = r
      BY <1>0, <1>000, <1>8, <2>2 DEF Settle, SetPhase, OwnerFits, Takes, Selections, Past, Holding
    <2> QED
      BY <2>1, <2>2
  <1>9. ASSUME NEW r \in Attempts, NEW c \in Checkpoints, Commit(r, c) PROVE OwnerFits(p)'
    <2>1. CASE p # c
      BY <1>0, <1>00, <1>9, <2>1 DEF Commit, Publish, Publishable, SetPhase
    <2>2. CASE p = c
      BY <1>0, <1>000, <1>9, <2>2 DEF Commit, Publish, Publishable, SetPhase, OwnerFits, Takes, Selections, Past, Holding
    <2> QED
      BY <2>1, <2>2
  <1>10. ASSUME NEW r \in Attempts, NEW c \in Checkpoints, CommitIsCut(r, c) PROVE OwnerFits(p)'
    <2>1. CASE p # c
      BY <1>0, <1>00, <1>10, <2>1 DEF CommitIsCut, Publish, Publishable, SetPhase
    <2>2. CASE p = c
      BY <1>0, <1>000, <1>10, <2>2 DEF CommitIsCut, Publish, Publishable, SetPhase, OwnerFits, Takes, Selections, Past, Holding
    <2> QED
      BY <2>1, <2>2
  <1>11. ASSUME NEW c \in Checkpoints, ReleasePins(c) PROVE OwnerFits(p)'
    <2>1. CASE p # c
      BY <1>0, <1>00, <1>11, <2>1 DEF ReleasePins, Declared, SetPhase
    <2>2. CASE p = c
      BY <1>0, <1>000, <1>11, <2>2 DEF ReleasePins, Declared, SetPhase, OwnerFits, Takes, Selections, Past, Holding
    <2> QED
      BY <2>1, <2>2
  <1>12. ASSUME NEW c \in Checkpoints, NEW a \in Artifacts, Declare(c, <<a>>) PROVE OwnerFits(p)'
    <2>1. CASE p # c
      BY <1>0, <1>00, <1>12, <2>1 DEF Declare, SetPhase
    <2>2. CASE p = c
      BY <1>0, <1>000, <1>12, <2>2, OwnersAssumption DEF Declare, SetPhase, OwnerFits, Takes, Selections, Past, Holding, Attempts, Owners
    <2> QED
      BY <2>1, <2>2
  <1>13. ASSUME NEW o \in Owners, Pin(o) PROVE OwnerFits(p)'
    <2>1. CASE p # o
      BY <1>0, <1>00, <1>13, <2>1 DEF Pin, SetPhase
    <2>2. CASE p = o
      <3>1. at[o] \in 1..Len(inputs[o]) /\ Slot(o) \in Versions
        BY <1>13, SlotTyped DEF Pin
      <3>2. o \in ledger'[Slot(o)].pins
        BY <1>0, <1>13, <3>1, PinWritten DEF Pin
      <3> QED
        BY <1>0, <1>000, <1>13, <2>2, <3>1, <3>2 DEF Pin, SetPhase, Slot, OwnerFits, Takes, Selections, Past, Holding
    <2> QED
      BY <2>1, <2>2
  <1>14. ASSUME NEW o \in Owners, WriteClaim(o) PROVE OwnerFits(p)'
    <2>1. CASE p # o
      BY <1>0, <1>00, <1>14, <2>1 DEF WriteClaim, SetPhase
    <2>2. CASE p = o
      BY <1>0, <1>000, <1>14, <2>2 DEF WriteClaim, SetPhase, OwnerFits, Takes, Selections, Past, Holding
    <2> QED
      BY <2>1, <2>2
  <1>15. ASSUME NEW o \in Owners, Register(o) PROVE OwnerFits(p)'
    <2>1. CASE p # o
      BY <1>0, <1>00, <1>15, <2>1 DEF Register, Done, SetPhase
    <2>2. CASE p = o
      BY <1>0, <1>000, <1>15, <2>2 DEF Register, Done, SetPhase, OwnerFits, Takes, Selections, Past, Holding
    <2> QED
      BY <2>1, <2>2
  <1>16. ASSUME NEW o \in Owners, MarkRelease(o) PROVE OwnerFits(p)'
    <2>1. CASE p # o
      BY <1>0, <1>00, <1>16, <2>1 DEF MarkRelease, Done, SetPhase
    <2>2. CASE p = o
      BY <1>0, <1>000, <1>16, <2>2 DEF MarkRelease, Done, SetPhase, OwnerFits, Takes, Selections, Past, Holding
    <2> QED
      BY <2>1, <2>2
  <1>17. ASSUME NEW o \in Owners, Receipt(o) PROVE OwnerFits(p)'
    <2>1. CASE p # o
      BY <1>0, <1>00, <1>17, <2>1 DEF Receipt, Done, SetPhase
    <2>2. CASE p = o
      BY <1>0, <1>000, <1>17, <2>2 DEF Receipt, Done, SetPhase, OwnerFits, Takes, Selections, Past, Holding
    <2> QED
      BY <2>1, <2>2
  <1>18. ASSUME NEW v \in Versions, Close(v) PROVE OwnerFits(p)'
    BY <1>00, <1>18 DEF Close
  <1>19. ASSUME NEW a \in Artifacts, Delete(a) PROVE OwnerFits(p)'
    BY <1>00, <1>19 DEF Delete
  <1>20. ASSUME NEW a \in Artifacts, Drop(a) PROVE OwnerFits(p)'
    BY <1>00, <1>20 DEF Drop
  <1>21. ASSUME NEW a \in Artifacts, NEW k \in Copies, Checkout(a, k) PROVE OwnerFits(p)'
    BY <1>00, <1>21 DEF Checkout, CopyStep
  <1>22. ASSUME NEW a \in Artifacts, NEW k \in Copies, ReadCopy(a, k) PROVE OwnerFits(p)'
    BY <1>00, <1>22 DEF ReadCopy, CopyStep
  <1>23. ASSUME NEW a \in Artifacts, NEW k \in Copies, Copied(a, k) PROVE OwnerFits(p)'
    BY <1>00, <1>23 DEF Copied, CopyStep
  <1>24. ASSUME NEW a \in Artifacts, NEW k \in Copies, ReleaseCopy(a, k) PROVE OwnerFits(p)'
    BY <1>00, <1>24 DEF ReleaseCopy, CopyStep
  <1>25. ASSUME NEW x \in live, Crash(x) PROVE OwnerFits(p)'
    <2>1. CASE p = x /\ phase[p] = "reserving"
      BY <1>0, <1>25, <2>1 DEF Crash, OwnerFits, Past, Holding
    <2>2. CASE ~(p = x /\ phase[p] = "reserving")
      BY <1>0, <1>00, <1>25, <2>2 DEF Crash
    <2> QED
      BY <2>1, <2>2
  <1> QED
    BY <1>1, <1>2, <1>3, <1>4, <1>5, <1>6, <1>7, <1>8, <1>9, <1>10, <1>11, <1>12, <1>13, <1>14, <1>15, <1>16, <1>17, <1>18, <1>19, <1>20, <1>21, <1>22, <1>23, <1>24, <1>25 DEF CustodyNext

(* ---------------------------- bytes and readers --------------------------- *)

LEMMA KeptAside ==
  ASSUME CustodyTypeOK, Forward, NEW v \in Versions, KeptOrDone(v),
         ledger'[v].pins = ledger[v].pins, marks'[v] = marks[v],
         ledger'[v].bytes = ledger[v].bytes, ledger'[v].intent = ledger[v].intent,
         ledger[v].intent => \A k \in Copies : ledger'[v].copies[k] = ledger[v].copies[k]
  PROVE  KeptOrDone(v)'
  <1>1. ledger[v].pins \subseteq Owners
    BY LedgerTyped DEF Sheet
  <1> QED
    BY <1>1 DEF KeptOrDone, Forward

LEMMA BytesKept ==
  ASSUME CustodyTypeOK, \A o \in Owners : OwnerFits(o), NEW v \in Versions, KeptOrDone(v), CustodyNext
  PROVE  KeptOrDone(v)'
  <1>0. /\ Forward /\ ledger \in [Versions -> Sheet]
        /\ marks \in [Versions -> SUBSET Owners] /\ phase \in [Owners -> AttemptPhases \cup CheckpointPhases]
    BY GoesForward, LedgerTyped DEF CustodyTypeOK
  <1>00. ledger'[v] = ledger[v] /\ marks'[v] = marks[v] => KeptOrDone(v)'
    BY <1>0, KeptAside
  <1>1. ASSUME NEW r \in Attempts, NEW sel \in Selections(r), Reserve(r, sel) PROVE KeptOrDone(v)'
    BY <1>00, <1>1 DEF Reserve
  <1>2. ASSUME NEW r \in Attempts, NEW sel \in Selections(r), Acquire(r, sel) PROVE KeptOrDone(v)'
    BY <1>00, <1>2 DEF Acquire
  <1>3. ASSUME NEW r \in Attempts, Submit(r) PROVE KeptOrDone(v)'
    BY <1>00, <1>3 DEF Submit
  <1>4. ASSUME NEW r \in Attempts, Withdraw(r) PROVE KeptOrDone(v)'
    BY <1>00, <1>4 DEF Withdraw
  <1>5. ASSUME NEW r \in Attempts, Snapshot(r) PROVE KeptOrDone(v)'
    BY <1>00, <1>5 DEF Snapshot
  <1>6. ASSUME NEW r \in Attempts, Clean(r) PROVE KeptOrDone(v)'
    BY <1>00, <1>6 DEF Clean
  <1>7. ASSUME NEW r \in Attempts, ReleaseInputs(r) PROVE KeptOrDone(v)'
    BY <1>00, <1>7 DEF ReleaseInputs
  <1>8. ASSUME NEW r \in Attempts, NEW how \in {"cancelled", "failed", "needs-data", "needs-nothing"}, Settle(r, how) PROVE KeptOrDone(v)'
    BY <1>00, <1>8 DEF Settle
  <1>9. ASSUME NEW r \in Attempts, NEW c \in Checkpoints, Commit(r, c) PROVE KeptOrDone(v)'
    BY <1>00, <1>9 DEF Commit, Publish
  <1>10. ASSUME NEW r \in Attempts, NEW c \in Checkpoints, CommitIsCut(r, c) PROVE KeptOrDone(v)'
    BY <1>00, <1>10 DEF CommitIsCut, Publish
  <1>11. ASSUME NEW c \in Checkpoints, ReleasePins(c) PROVE KeptOrDone(v)'
    BY <1>00, <1>11 DEF ReleasePins
  <1>12. ASSUME NEW c \in Checkpoints, NEW a \in Artifacts, Declare(c, <<a>>) PROVE KeptOrDone(v)'
    BY <1>00, <1>12 DEF Declare
  <1>13. ASSUME NEW o \in Owners, Pin(o) PROVE KeptOrDone(v)'
    <2>1. /\ Rest(v)' = Rest(v) /\ ledger'[v].copies = ledger[v].copies
          /\ ledger'[v].pins = IF v = Slot(o) THEN ledger[v].pins \cup {o} ELSE ledger[v].pins
      BY <1>0, <1>13, SlotTyped, PinWritten DEF Pin
    <2>2. v = Slot(o) => ~ledger[v].intent
      BY <1>13 DEF Pin, Open, Readable
    <2>3. CASE v # Slot(o)
      BY <1>0, <1>13, <2>1, <2>3, KeptAside DEF Pin, Rest
    <2>4. CASE v = Slot(o)
      BY <1>13, <2>1, <2>2, <2>4 DEF Pin, Rest, KeptOrDone
    <2> QED
      BY <2>3, <2>4
  <1>14. ASSUME NEW o \in Owners, WriteClaim(o) PROVE KeptOrDone(v)'
    BY <1>00, <1>14 DEF WriteClaim
  <1>15. ASSUME NEW o \in Owners, Register(o) PROVE KeptOrDone(v)'
    BY <1>00, <1>15 DEF Register
  <1>16. ASSUME NEW o \in Owners, MarkRelease(o) PROVE KeptOrDone(v)'
    <2>1. Slot(o) \in Versions /\ o \in ledger[Slot(o)].pins
      <3>1. at[o] \in 1..Len(inputs[o]) /\ Slot(o) \in Versions
        BY <1>16, SlotTyped DEF MarkRelease
      <3> QED
        BY <1>16, <3>1 DEF MarkRelease, OwnerFits, Past, Slot
    <2>2. \A w \in Versions : ledger'[w] = ledger[w] /\ marks'[w] = IF w = Slot(o) THEN marks[w] \cup {o} ELSE marks[w]
      BY <1>0, <1>16, <2>1 DEF MarkRelease
    <2> QED
      BY <1>0, <1>00, <1>16, <2>1, <2>2 DEF MarkRelease, KeptOrDone
  <1>17. ASSUME NEW o \in Owners, Receipt(o) PROVE KeptOrDone(v)'
    BY <1>00, <1>17 DEF Receipt
  <1>18. ASSUME NEW w \in Versions, Close(w) PROVE KeptOrDone(v)'
    <2>1. /\ ledger'[v].pins = ledger[v].pins /\ ledger'[v].copies = ledger[v].copies
          /\ ledger'[v].bytes = ledger[v].bytes /\ ledger'[v].intent = ledger[v].intent
      BY <1>0, <1>18, ClosedWritten DEF Close
    <2> QED
      BY <1>0, <1>18, <2>1, KeptAside DEF Close
  <1>19. ASSUME NEW a \in Artifacts, Delete(a) PROVE KeptOrDone(v)'
    <2>1. /\ ledger'[v].pins = ledger[v].pins /\ ledger'[v].copies = ledger[v].copies
          /\ ledger'[v].bytes = ledger[v].bytes /\ ledger'[v].closed = ledger[v].closed
          /\ v # a => ledger'[v].intent = ledger[v].intent
      BY <1>0, <1>19, IntentWritten DEF Delete, Versions
    <2>2. CASE v # a
      BY <1>0, <1>19, <2>1, <2>2, KeptAside DEF Delete
    <2>3. CASE v = a
      BY <1>19, <2>1, <2>3 DEF Delete, KeptOrDone, Readable, ReadersReleased, Finished
    <2> QED
      BY <2>2, <2>3
  <1>20. ASSUME NEW a \in Artifacts, Drop(a) PROVE KeptOrDone(v)'
    <2>1. /\ ledger'[v].pins = ledger[v].pins /\ ledger'[v].copies = ledger[v].copies
          /\ ledger'[v].intent = ledger[v].intent /\ ledger'[v].closed = ledger[v].closed
          /\ v # a => ledger'[v].bytes = ledger[v].bytes
      BY <1>0, <1>20, DroppedWritten DEF Drop, Versions
    <2>2. CASE v # a
      BY <1>0, <1>20, <2>1, <2>2, KeptAside DEF Drop
    <2>3. CASE v = a
      BY <1>20, <2>1, <2>3 DEF Drop, KeptOrDone, ReadersReleased, Finished
    <2> QED
      BY <2>2, <2>3
  <1>21. ASSUME NEW a \in Artifacts, NEW k \in Copies, Checkout(a, k) PROVE KeptOrDone(v)'
    <2>0. a \in Versions /\ "opening" \in CopyStates /\ CopyStep(a, k, ledger[a].copies[k], "opening")
      BY <1>21 DEF Checkout, CopyStep, Versions, CopyStates
    <2>1. /\ Rest(v)' = Rest(v) /\ ledger'[v].pins = ledger[v].pins
          /\ \A j \in Copies : ledger'[v].copies[j] = IF v = a /\ j = k THEN "opening" ELSE ledger[v].copies[j]
      BY <1>0, <2>0, CopyWritten
    <2>2. v = a => ~ledger[v].intent
      BY <1>21 DEF Checkout, Open, Readable
    <2> QED
      BY <1>0, <1>21, <2>1, <2>2, KeptAside DEF Rest, Checkout, CopyStep
  <1>22. ASSUME NEW a \in Artifacts, NEW k \in Copies, ReadCopy(a, k) PROVE KeptOrDone(v)'
    <2>0. a \in Versions /\ "read" \in CopyStates /\ CopyStep(a, k, ledger[a].copies[k], "read")
      BY <1>22 DEF ReadCopy, CopyStep, Versions, CopyStates
    <2>1. /\ Rest(v)' = Rest(v) /\ ledger'[v].pins = ledger[v].pins
          /\ \A j \in Copies : ledger'[v].copies[j] = IF v = a /\ j = k THEN "read" ELSE ledger[v].copies[j]
      BY <1>0, <2>0, CopyWritten
    <2>2. v = a => ~ledger[v].intent
      BY <1>22 DEF ReadCopy, CopyStep, KeptOrDone
    <2> QED
      BY <1>0, <1>22, <2>1, <2>2, KeptAside DEF Rest, ReadCopy, CopyStep
  <1>23. ASSUME NEW a \in Artifacts, NEW k \in Copies, Copied(a, k) PROVE KeptOrDone(v)'
    <2>0. a \in Versions /\ "copied" \in CopyStates /\ CopyStep(a, k, ledger[a].copies[k], "copied")
      BY <1>23 DEF Copied, CopyStep, Versions, CopyStates
    <2>1. /\ Rest(v)' = Rest(v) /\ ledger'[v].pins = ledger[v].pins
          /\ \A j \in Copies : ledger'[v].copies[j] = IF v = a /\ j = k THEN "copied" ELSE ledger[v].copies[j]
      BY <1>0, <2>0, CopyWritten
    <2>2. v = a => ~ledger[v].intent
      BY <1>23 DEF Copied, CopyStep, KeptOrDone
    <2> QED
      BY <1>0, <1>23, <2>1, <2>2, KeptAside DEF Rest, Copied, CopyStep
  <1>24. ASSUME NEW a \in Artifacts, NEW k \in Copies, ReleaseCopy(a, k) PROVE KeptOrDone(v)'
    <2>0. a \in Versions /\ "released" \in CopyStates /\ CopyStep(a, k, ledger[a].copies[k], "released")
      BY <1>24 DEF ReleaseCopy, CopyStep, Versions, CopyStates
    <2>1. /\ Rest(v)' = Rest(v) /\ ledger'[v].pins = ledger[v].pins
          /\ \A j \in Copies : ledger'[v].copies[j] = IF v = a /\ j = k THEN "released" ELSE ledger[v].copies[j]
      BY <1>0, <2>0, CopyWritten
    <2>2. v = a => ~ledger[v].intent
      BY <1>24 DEF ReleaseCopy, CopyStep, KeptOrDone
    <2> QED
      BY <1>0, <1>24, <2>1, <2>2, KeptAside DEF Rest, ReleaseCopy, CopyStep
  <1>25. ASSUME NEW x \in live, Crash(x) PROVE KeptOrDone(v)'
    BY <1>00, <1>25 DEF Crash
  <1> QED
    BY <1>1, <1>2, <1>3, <1>4, <1>5, <1>6, <1>7, <1>8, <1>9, <1>10, <1>11, <1>12, <1>13, <1>14, <1>15, <1>16, <1>17, <1>18, <1>19, <1>20, <1>21, <1>22, <1>23, <1>24, <1>25 DEF CustodyNext

(* --------------------- reservations, and who is over ---------------------- *)

LEMMA ReservedAside ==
  ASSUME CustodyTypeOK, NEW r \in Attempts, Reserved(r),
         phase'[r] = phase[r], r \in asked' <=> r \in asked, inputs'[r] = inputs[r],
         phase[r] = "reserving" =>
           /\ r \in live'
           /\ \A i \in 1..Len(inputs[r]) : ledger'[inputs[r][i]].closed = ledger[inputs[r][i]].closed
  PROVE  Reserved(r)'
  BY DEF Reserved

LEMMA ReservationsKept ==
  ASSUME CustodyTypeOK, \A o \in Owners : OwnerFits(o), NEW p \in Attempts, Reserved(p), CustodyNext
  PROVE  Reserved(p)'
  <1>0. /\ ledger \in [Versions -> Sheet] /\ phase \in [Owners -> AttemptPhases \cup CheckpointPhases]
        /\ inputs \in [Owners -> Seq(Versions)] /\ p \in Owners /\ OwnerFits(p)
    BY LedgerTyped DEF CustodyTypeOK, Owners
  <1>00. \A i \in 1..Len(inputs[p]) : inputs[p][i] \in Versions
    BY <1>0
  <1>000. /\ phase'[p] = phase[p] /\ (p \in asked' <=> p \in asked) /\ inputs'[p] = inputs[p]
          /\ phase[p] = "reserving" => p \in live' /\ \A v \in Versions : ledger'[v].closed = ledger[v].closed
          => Reserved(p)'
    BY <1>00, ReservedAside
  <1>1. ASSUME NEW r \in Attempts, NEW sel \in Selections(r), Reserve(r, sel) PROVE Reserved(p)'
    <2>1. CASE p # r
      BY <1>0, <1>000, <1>1, <2>1 DEF Reserve, SetPhase, Reserved
    <2>2. CASE p = r
      <3>1. /\ phase'[p] = "reserving" /\ inputs'[p] = sel /\ p \in live' /\ p \notin asked'
            /\ \A i \in 1..Len(sel) : ~ledger'[sel[i]].closed
        BY <1>0, <1>1, <2>2 DEF Reserve, SetPhase, Selectable, Open, Reserved
      <3> QED
        BY <3>1 DEF Reserved
    <2> QED
      BY <2>1, <2>2
  <1>2. ASSUME NEW r \in Attempts, NEW sel \in Selections(r), Acquire(r, sel) PROVE Reserved(p)'
    <2>1. CASE p # r
      BY <1>0, <1>000, <1>2, <2>1 DEF Acquire, SetPhase, Reserved
    <2>2. CASE p = r
      BY <1>0, <1>2, <2>2 DEF Acquire, SetPhase, Reserved
    <2> QED
      BY <2>1, <2>2
  <1>3. ASSUME NEW r \in Attempts, Submit(r) PROVE Reserved(p)'
    <2>1. CASE p # r
      BY <1>0, <1>000, <1>3, <2>1 DEF Submit, SetPhase, Reserved
    <2>2. CASE p = r
      BY <1>0, <1>3, <2>2 DEF Submit, SetPhase, Reserved
    <2> QED
      BY <2>1, <2>2
  <1>4. ASSUME NEW r \in Attempts, Withdraw(r) PROVE Reserved(p)'
    <2>1. CASE p # r
      BY <1>0, <1>000, <1>4, <2>1 DEF Withdraw, SetPhase, Reserved
    <2>2. CASE p = r
      BY <1>0, <1>4, <2>2 DEF Withdraw, SetPhase, Reserved
    <2> QED
      BY <2>1, <2>2
  <1>5. ASSUME NEW r \in Attempts, Snapshot(r) PROVE Reserved(p)'
    <2>1. CASE p # r
      BY <1>0, <1>000, <1>5, <2>1 DEF Snapshot, SetPhase, Reserved
    <2>2. CASE p = r
      BY <1>0, <1>5, <2>2 DEF Snapshot, SetPhase, Reserved
    <2> QED
      BY <2>1, <2>2
  <1>6. ASSUME NEW r \in Attempts, Clean(r) PROVE Reserved(p)'
    <2>1. CASE p # r
      BY <1>0, <1>000, <1>6, <2>1 DEF Clean, SetPhase, Reserved
    <2>2. CASE p = r
      BY <1>0, <1>6, <2>2 DEF Clean, SetPhase, Reserved
    <2> QED
      BY <2>1, <2>2
  <1>7. ASSUME NEW r \in Attempts, ReleaseInputs(r) PROVE Reserved(p)'
    <2>1. CASE p # r
      BY <1>0, <1>000, <1>7, <2>1 DEF ReleaseInputs, MayRelease, SetPhase, Reserved
    <2>2. CASE p = r
      BY <1>0, <1>7, <2>2 DEF ReleaseInputs, MayRelease, SetPhase, Reserved
    <2> QED
      BY <2>1, <2>2
  <1>8. ASSUME NEW r \in Attempts, NEW how \in {"cancelled", "failed", "needs-data", "needs-nothing"}, Settle(r, how) PROVE Reserved(p)'
    <2>1. CASE p # r
      BY <1>0, <1>000, <1>8, <2>1 DEF Settle, SetPhase, Reserved
    <2>2. CASE p = r
      BY <1>0, <1>8, <2>2 DEF Settle, SetPhase, Reserved
    <2> QED
      BY <2>1, <2>2
  <1>9. ASSUME NEW r \in Attempts, NEW c \in Checkpoints, Commit(r, c) PROVE Reserved(p)'
    BY <1>0, <1>000, <1>9, OwnersAssumption DEF Commit, Publish, Publishable, SetPhase, Owners, Reserved
  <1>10. ASSUME NEW r \in Attempts, NEW c \in Checkpoints, CommitIsCut(r, c) PROVE Reserved(p)'
    BY <1>0, <1>000, <1>10, OwnersAssumption DEF CommitIsCut, Publish, Publishable, SetPhase, Owners, Reserved
  <1>11. ASSUME NEW c \in Checkpoints, ReleasePins(c) PROVE Reserved(p)'
    <2>1. CASE p # c
      BY <1>0, <1>000, <1>11, <2>1 DEF ReleasePins, Declared, SetPhase, Reserved
    <2>2. CASE p = c
      BY <1>0, <1>11, <2>2 DEF ReleasePins, Declared, SetPhase, Reserved
    <2> QED
      BY <2>1, <2>2
  <1>12. ASSUME NEW c \in Checkpoints, NEW a \in Artifacts, Declare(c, <<a>>) PROVE Reserved(p)'
    <2>1. CASE p # c
      BY <1>0, <1>000, <1>12, <2>1 DEF Declare, SetPhase, Reserved
    <2>2. CASE p = c
      BY <1>0, <1>12, <2>2 DEF Declare, SetPhase, Reserved
    <2> QED
      BY <2>1, <2>2
  <1>13. ASSUME NEW o \in Owners, Pin(o) PROVE Reserved(p)'
    <2>1. \A v \in Versions : ledger'[v].closed = ledger[v].closed
      BY <1>0, <1>13, SlotTyped, PinWritten DEF Pin, Rest
    <2> QED
      BY <1>0, <1>000, <1>13, <2>1 DEF Pin, SetPhase, Reserved
  <1>14. ASSUME NEW o \in Owners, WriteClaim(o) PROVE Reserved(p)'
    <2>1. CASE p # o
      BY <1>0, <1>000, <1>14, <2>1 DEF WriteClaim, SetPhase, Reserved
    <2>2. CASE p = o
      BY <1>0, <1>14, <2>2 DEF WriteClaim, SetPhase, Reserved
    <2> QED
      BY <2>1, <2>2
  <1>15. ASSUME NEW o \in Owners, Register(o) PROVE Reserved(p)'
    <2>1. CASE p # o
      BY <1>0, <1>000, <1>15, <2>1 DEF Register, SetPhase, Reserved
    <2>2. CASE p = o
      BY <1>0, <1>15, <2>2 DEF Register, SetPhase, Reserved
    <2> QED
      BY <2>1, <2>2
  <1>16. ASSUME NEW o \in Owners, MarkRelease(o) PROVE Reserved(p)'
    <2>1. CASE p # o
      BY <1>0, <1>000, <1>16, <2>1 DEF MarkRelease, SetPhase, Reserved
    <2>2. CASE p = o
      BY <1>0, <1>16, <2>2 DEF MarkRelease, SetPhase, Reserved
    <2> QED
      BY <2>1, <2>2
  <1>17. ASSUME NEW o \in Owners, Receipt(o) PROVE Reserved(p)'
    <2>1. CASE p # o
      BY <1>0, <1>000, <1>17, <2>1 DEF Receipt, SetPhase, Reserved
    <2>2. CASE p = o
      BY <1>0, <1>17, <2>2 DEF Receipt, SetPhase, Reserved
    <2> QED
      BY <2>1, <2>2
  <1>18. ASSUME NEW v \in Versions, Close(v) PROVE Reserved(p)'
    <2>1. \A w \in Versions : w # v => ledger'[w].closed = ledger[w].closed
      BY <1>0, <1>18, ClosedWritten DEF Close
    <2>2. ASSUME phase[p] = "reserving" PROVE \A i \in 1..Len(inputs[p]) : inputs[p][i] \in Checkpoints => inputs[p][i] # v
      <3>1. inputs[p] \in Takes(p)
        BY <1>0, <2>2 DEF OwnerFits
      <3>2. /\ Len(inputs[p]) \in 1..2 /\ inputs[p][1] \in Artifacts
            /\ v \in Checkpoints => inputs[p][Len(inputs[p])] # v
        BY <1>0, <1>18, <2>2, <3>1, TakesTyped DEF Close, RevisionFree, Reserved
      <3> QED
        BY <3>2, OwnersAssumption DEF Owners
    <2> QED
      BY <1>00, <1>18, <2>1, <2>2 DEF Close, Reserved
  <1>19. ASSUME NEW a \in Artifacts, Delete(a) PROVE Reserved(p)'
    <2>1. \A v \in Versions : ledger'[v].closed = ledger[v].closed
      BY <1>0, <1>19, IntentWritten DEF Delete, Versions
    <2> QED
      BY <1>000, <1>19, <2>1, OwnersAssumption DEF Delete, Reserved, Owners
  <1>20. ASSUME NEW a \in Artifacts, Drop(a) PROVE Reserved(p)'
    <2>1. \A v \in Versions : ledger'[v].closed = ledger[v].closed
      BY <1>0, <1>20, DroppedWritten DEF Drop, Versions
    <2> QED
      BY <1>000, <1>20, <2>1, OwnersAssumption DEF Drop, Reserved, Owners
  <1>21. ASSUME NEW a \in Artifacts, NEW k \in Copies, Checkout(a, k) PROVE Reserved(p)'
    <2>0. a \in Versions /\ "opening" \in CopyStates /\ CopyStep(a, k, ledger[a].copies[k], "opening")
      BY <1>21 DEF Checkout, CopyStep, Versions, CopyStates
    <2>1. \A v \in Versions : ledger'[v].closed = ledger[v].closed
      BY <1>0, <2>0, CopyWritten DEF Rest
    <2>2. p \in live => p \in live'
      BY <1>21, OwnersAssumption DEF Checkout, Attempts, Owners
    <2> QED
      BY <1>000, <1>21, <2>1, <2>2 DEF Checkout, CopyStep, Reserved
  <1>22. ASSUME NEW a \in Artifacts, NEW k \in Copies, ReadCopy(a, k) PROVE Reserved(p)'
    <2>0. a \in Versions /\ "read" \in CopyStates /\ CopyStep(a, k, ledger[a].copies[k], "read")
      BY <1>22 DEF ReadCopy, CopyStep, Versions, CopyStates
    <2>1. \A v \in Versions : ledger'[v].closed = ledger[v].closed
      BY <1>0, <2>0, CopyWritten DEF Rest
    <2>2. p \in live => p \in live'
      BY <1>22, OwnersAssumption DEF ReadCopy, Attempts, Owners
    <2> QED
      BY <1>000, <1>22, <2>1, <2>2 DEF ReadCopy, CopyStep, Reserved
  <1>23. ASSUME NEW a \in Artifacts, NEW k \in Copies, Copied(a, k) PROVE Reserved(p)'
    <2>0. a \in Versions /\ "copied" \in CopyStates /\ CopyStep(a, k, ledger[a].copies[k], "copied")
      BY <1>23 DEF Copied, CopyStep, Versions, CopyStates
    <2>1. \A v \in Versions : ledger'[v].closed = ledger[v].closed
      BY <1>0, <2>0, CopyWritten DEF Rest
    <2>2. p \in live => p \in live'
      BY <1>23, OwnersAssumption DEF Copied, Attempts, Owners
    <2> QED
      BY <1>000, <1>23, <2>1, <2>2 DEF Copied, CopyStep, Reserved
  <1>24. ASSUME NEW a \in Artifacts, NEW k \in Copies, ReleaseCopy(a, k) PROVE Reserved(p)'
    <2>0. a \in Versions /\ "released" \in CopyStates /\ CopyStep(a, k, ledger[a].copies[k], "released")
      BY <1>24 DEF ReleaseCopy, CopyStep, Versions, CopyStates
    <2>1. \A v \in Versions : ledger'[v].closed = ledger[v].closed
      BY <1>0, <2>0, CopyWritten DEF Rest
    <2>2. p \in live => p \in live'
      BY <1>24, OwnersAssumption DEF ReleaseCopy, Attempts, Owners
    <2> QED
      BY <1>000, <1>24, <2>1, <2>2 DEF ReleaseCopy, CopyStep, Reserved
  <1>25. ASSUME NEW x \in live, Crash(x) PROVE Reserved(p)'
    <2>1. CASE p = x /\ phase[p] = "reserving"
      BY <1>0, <1>25, <2>1 DEF Crash, Reserved
    <2>2. CASE ~(p = x /\ phase[p] = "reserving")
      BY <1>0, <1>000, <1>25, <2>2 DEF Crash, Reserved
    <2> QED
      BY <2>1, <2>2
  <1> QED
    BY <1>1, <1>2, <1>3, <1>4, <1>5, <1>6, <1>7, <1>8, <1>9, <1>10, <1>11, <1>12, <1>13, <1>14, <1>15, <1>16, <1>17, <1>18, <1>19, <1>20, <1>21, <1>22, <1>23, <1>24, <1>25 DEF CustodyNext

\* Nobody new asks for a version that was closed.
AskedOnce == \A v \in Checkpoints : ledger[v].closed => AskedFor(v)' \subseteq AskedFor(v)

LEMMA NobodyAsks ==
  ASSUME CustodyTypeOK, \A o \in Owners : OwnerFits(o), \A r \in Attempts : Reserved(r), CustodyNext
  PROVE  AskedOnce
  <1> SUFFICES ASSUME NEW v \in Checkpoints, ledger[v].closed, NEW p \in AskedFor(v)'
               PROVE p \in AskedFor(v)
    BY DEF AskedOnce
  <1>0. /\ phase \in [Owners -> AttemptPhases \cup CheckpointPhases]
        /\ inputs \in [Owners -> Seq(Versions)] /\ asked \subseteq Attempts
    BY DEF CustodyTypeOK
  <1>1. p \in asked' /\ \E i \in 1..Len(inputs'[p]) : inputs'[p][i] = v
    BY DEF AskedFor
  <1>2. CASE asked' = asked /\ inputs' = inputs
    BY <1>2 DEF AskedFor
  <1>3. CASE \E r \in Attempts : Submit(r)
    <2>1. PICK r \in Attempts : Submit(r)
      BY <1>3
    <2>2. p # r
      BY <1>0, <1>1, <2>1 DEF Submit, Reserved
    <2> QED
      BY <1>1, <2>1, <2>2 DEF Submit, AskedFor
  <1>4. CASE \E r \in Attempts, s \in Seq(Versions) : Reserve(r, s) \/ Acquire(r, s)
    <2>1. PICK r \in Attempts, s \in Seq(Versions) : Reserve(r, s) \/ Acquire(r, s)
      BY <1>4
    <2>2. CASE p # r
      <3>1. p \in asked /\ p \in Owners
        BY <1>0, <1>1, <2>1 DEF Reserve, Acquire, Owners
      <3>2. inputs'[p] = inputs[p]
        BY <1>0, <2>1, <2>2, <3>1 DEF Reserve, Acquire
      <3> QED
        BY <1>1, <3>1, <3>2 DEF AskedFor
    <2>3. CASE p = r
      <3>1. p \in asked /\ Reserved(p)
        BY <1>0, <1>1, <2>1, <2>3 DEF Reserve, Acquire
      <3>2. inputs'[p] = inputs[p]
        BY <1>0, <2>1, <2>3, <3>1 DEF Reserve, Acquire, Reserved, Owners
      <3> QED
        BY <1>1, <3>1, <3>2 DEF AskedFor
    <2> QED
      BY <2>2, <2>3
  <1>5. CASE \E c \in Checkpoints, a \in Artifacts : Declare(c, <<a>>)
    <2>1. PICK c \in Checkpoints, a \in Artifacts : Declare(c, <<a>>)
      BY <1>5
    <2>2. asked' = asked /\ p # c
      BY <1>0, <1>1, <2>1, OwnersAssumption DEF Declare
    <2> QED
      BY <1>0, <1>1, <2>1, <2>2 DEF Declare, AskedFor
  <1>6. \A r \in Attempts : \A s \in Selections(r) : s \in Seq(Versions)
    BY TakesTyped DEF Takes, Owners
  <1>7. ASSUME NEW r \in Attempts, Withdraw(r) PROVE asked' = asked /\ inputs' = inputs
    BY <1>7 DEF Withdraw
  <1>8. ASSUME NEW r \in Attempts, Snapshot(r) PROVE asked' = asked /\ inputs' = inputs
    BY <1>8 DEF Snapshot
  <1>9. ASSUME NEW r \in Attempts, Clean(r) PROVE asked' = asked /\ inputs' = inputs
    BY <1>9 DEF Clean
  <1>10. ASSUME NEW r \in Attempts, ReleaseInputs(r) PROVE asked' = asked /\ inputs' = inputs
    BY <1>10 DEF ReleaseInputs
  <1>11. ASSUME NEW r \in Attempts, NEW how \in {"cancelled", "failed", "needs-data", "needs-nothing"}, Settle(r, how) PROVE asked' = asked /\ inputs' = inputs
    BY <1>11 DEF Settle
  <1>12. ASSUME NEW r \in Attempts, NEW c \in Checkpoints, Commit(r, c) PROVE asked' = asked /\ inputs' = inputs
    BY <1>12 DEF Commit, Publish
  <1>13. ASSUME NEW r \in Attempts, NEW c \in Checkpoints, CommitIsCut(r, c) PROVE asked' = asked /\ inputs' = inputs
    BY <1>13 DEF CommitIsCut, Publish
  <1>14. ASSUME NEW c \in Checkpoints, ReleasePins(c) PROVE asked' = asked /\ inputs' = inputs
    BY <1>14 DEF ReleasePins
  <1>15. ASSUME NEW o \in Owners, Pin(o) PROVE asked' = asked /\ inputs' = inputs
    BY <1>15 DEF Pin
  <1>16. ASSUME NEW o \in Owners, WriteClaim(o) PROVE asked' = asked /\ inputs' = inputs
    BY <1>16 DEF WriteClaim
  <1>17. ASSUME NEW o \in Owners, Register(o) PROVE asked' = asked /\ inputs' = inputs
    BY <1>17 DEF Register
  <1>18. ASSUME NEW o \in Owners, MarkRelease(o) PROVE asked' = asked /\ inputs' = inputs
    BY <1>18 DEF MarkRelease
  <1>19. ASSUME NEW o \in Owners, Receipt(o) PROVE asked' = asked /\ inputs' = inputs
    BY <1>19 DEF Receipt
  <1>20. ASSUME NEW w \in Versions, Close(w) PROVE asked' = asked /\ inputs' = inputs
    BY <1>20 DEF Close
  <1>21. ASSUME NEW a \in Artifacts, Delete(a) PROVE asked' = asked /\ inputs' = inputs
    BY <1>21 DEF Delete
  <1>22. ASSUME NEW a \in Artifacts, Drop(a) PROVE asked' = asked /\ inputs' = inputs
    BY <1>22 DEF Drop
  <1>23. ASSUME NEW a \in Artifacts, NEW k \in Copies, Checkout(a, k) PROVE asked' = asked /\ inputs' = inputs
    BY <1>23 DEF Checkout, CopyStep
  <1>24. ASSUME NEW a \in Artifacts, NEW k \in Copies, ReadCopy(a, k) PROVE asked' = asked /\ inputs' = inputs
    BY <1>24 DEF ReadCopy, CopyStep
  <1>25. ASSUME NEW a \in Artifacts, NEW k \in Copies, Copied(a, k) PROVE asked' = asked /\ inputs' = inputs
    BY <1>25 DEF Copied, CopyStep
  <1>26. ASSUME NEW a \in Artifacts, NEW k \in Copies, ReleaseCopy(a, k) PROVE asked' = asked /\ inputs' = inputs
    BY <1>26 DEF ReleaseCopy, CopyStep
  <1>27. ASSUME NEW x \in live, Crash(x) PROVE asked' = asked /\ inputs' = inputs
    BY <1>27 DEF Crash
  <1> QED
    BY <1>2, <1>3, <1>4, <1>5, <1>6, <1>7, <1>8, <1>9, <1>10, <1>11, <1>12, <1>13, <1>14, <1>15, <1>16, <1>17, <1>18, <1>19, <1>20, <1>21, <1>22, <1>23, <1>24, <1>25, <1>26, <1>27 DEF CustodyNext

LEMMA OverStays ==
  ASSUME CustodyTypeOK, Forward, AskedOnce, NEW c \in Checkpoints, Over(c), phase[c] \in {"releasing", "released"}
  PROVE  Over(c)'
  <1>1. ledger[c].pins \subseteq Owners /\ AskedFor(c) \subseteq Owners /\ c \in Versions /\ c \in Owners
    BY LedgerTyped DEF Sheet, CustodyTypeOK, AskedFor, Versions, Owners
  <1>2. /\ ledger[c].closed /\ \A o \in ledger[c].pins : phase[o] = "released"
        /\ \A r \in AskedFor(c) : phase[r] = "withdrawn" \/ r \in marks[c]
    BY DEF Over
  <1>3. ledger'[c].closed /\ ledger'[c].pins = ledger[c].pins /\ marks[c] \subseteq marks'[c]
    BY <1>1, <1>2 DEF Forward
  <1>4. \A o \in ledger[c].pins : phase'[o] = "released"
    BY <1>1, <1>2 DEF Forward
  <1>5. \A r \in AskedFor(c)' : phase'[r] = "withdrawn" \/ r \in marks'[c]
    BY <1>1, <1>2, <1>3 DEF Forward, AskedOnce
  <1> QED
    BY <1>3, <1>4, <1>5 DEF Over

LEMMA OverKept ==
  ASSUME CustodyTypeOK, Forward, AskedOnce, CustodyNext, NEW d \in Checkpoints, Over(d)
  PROVE  Over(d)'
  <1>1. CASE phase[d] \in {"releasing", "released"}
    BY <1>1, OverStays
  <1>2. CASE phase[d] \notin {"releasing", "released"}
    <2>0. phase \in [Owners -> AttemptPhases \cup CheckpointPhases] /\ d \in Owners /\ d \notin Attempts
          /\ d \in Versions /\ ledger[d].pins \subseteq Owners
      BY LedgerTyped, OwnersAssumption DEF CustodyTypeOK, Owners, Versions, Sheet
    <2>1. ASSUME NEW r \in Attempts, NEW sel \in Selections(r), Reserve(r, sel) PROVE Over(d)'
      BY <1>2, <2>0, <2>1 DEF Over, Reserve, SetPhase
    <2>2. ASSUME NEW r \in Attempts, NEW sel \in Selections(r), Acquire(r, sel) PROVE Over(d)'
      BY <1>2, <2>0, <2>2 DEF Over, Acquire, SetPhase
    <2>3. ASSUME NEW r \in Attempts, Submit(r) PROVE Over(d)'
      BY <1>2, <2>0, <2>3 DEF Over, Submit, SetPhase
    <2>4. ASSUME NEW r \in Attempts, Withdraw(r) PROVE Over(d)'
      BY <1>2, <2>0, <2>4 DEF Over, Withdraw, SetPhase
    <2>5. ASSUME NEW r \in Attempts, Snapshot(r) PROVE Over(d)'
      BY <1>2, <2>0, <2>5 DEF Over, Snapshot, SetPhase
    <2>6. ASSUME NEW r \in Attempts, Clean(r) PROVE Over(d)'
      BY <1>2, <2>0, <2>6 DEF Over, Clean, SetPhase
    <2>7. ASSUME NEW r \in Attempts, ReleaseInputs(r) PROVE Over(d)'
      BY <1>2, <2>0, <2>7 DEF Over, ReleaseInputs, SetPhase
    <2>8. ASSUME NEW r \in Attempts, NEW how \in {"cancelled", "failed", "needs-data", "needs-nothing"}, Settle(r, how) PROVE Over(d)'
      BY <1>2, <2>0, <2>8 DEF Over, Settle, SetPhase
    <2>9. ASSUME NEW r \in Attempts, NEW c \in Checkpoints, Commit(r, c) PROVE Over(d)'
      BY <1>2, <2>0, <2>9 DEF Over, Commit, Publish, SetPhase
    <2>10. ASSUME NEW r \in Attempts, NEW c \in Checkpoints, CommitIsCut(r, c) PROVE Over(d)'
      BY <1>2, <2>0, <2>10 DEF Over, CommitIsCut, Publish, SetPhase
    <2>11. ASSUME NEW c \in Checkpoints, ReleasePins(c) PROVE Over(d)'
      <3>1. CASE c # d
        BY <1>2, <2>0, <2>11, <3>1 DEF ReleasePins, SetPhase, Over
      <3>2. CASE c = d
        <4>1. /\ ledger' = ledger /\ marks' = marks /\ AskedFor(d)' = AskedFor(d)
              /\ \A o \in Owners \ {d} : phase'[o] = phase[o]
          BY <2>0, <2>11, <3>2 DEF ReleasePins, SetPhase, AskedFor
        <4>2. /\ ledger[d].closed /\ \A o \in ledger[d].pins : phase[o] = "released" /\ o # d
          BY <1>2, <2>11, <3>2 DEF ReleasePins, ReadersReleased, Finished
        <4>3. \A r \in AskedFor(d) : phase[r] = "withdrawn" \/ r \in marks[d]
          BY <2>11, <3>2 DEF ReleasePins, ReservationsOver, AskedFor
        <4>4. AskedFor(d) \subseteq Owners \ {d}
          BY <2>0 DEF AskedFor, CustodyTypeOK, Owners
        <4> QED
          BY <2>0, <4>1, <4>2, <4>3, <4>4 DEF Over
      <3> QED
        BY <3>1, <3>2
    <2>12. ASSUME NEW c \in Checkpoints, NEW a \in Artifacts, Declare(c, <<a>>) PROVE Over(d)'
      BY <1>2, <2>0, <2>12 DEF Over, Declare, SetPhase
    <2>13. ASSUME NEW o \in Owners, Pin(o) PROVE Over(d)'
      BY <1>2, <2>0, <2>13 DEF Over, Pin, SetPhase
    <2>14. ASSUME NEW o \in Owners, WriteClaim(o) PROVE Over(d)'
      BY <1>2, <2>0, <2>14 DEF Over, WriteClaim, SetPhase
    <2>15. ASSUME NEW o \in Owners, Register(o) PROVE Over(d)'
      BY <1>2, <2>0, <2>15 DEF Over, Register, SetPhase
    <2>16. ASSUME NEW o \in Owners, MarkRelease(o) PROVE Over(d)'
      BY <1>2, <2>0, <2>16 DEF Over, MarkRelease, SetPhase
    <2>17. ASSUME NEW o \in Owners, Receipt(o) PROVE Over(d)'
      BY <1>2, <2>0, <2>17 DEF Over, Receipt, SetPhase
    <2>18. ASSUME NEW v \in Versions, Close(v) PROVE Over(d)'
      BY <1>2, <2>0, <2>18 DEF Over, Close, SetPhase
    <2>19. ASSUME NEW a \in Artifacts, Delete(a) PROVE Over(d)'
      BY <1>2, <2>0, <2>19 DEF Over, Delete, SetPhase
    <2>20. ASSUME NEW a \in Artifacts, Drop(a) PROVE Over(d)'
      BY <1>2, <2>0, <2>20 DEF Over, Drop, SetPhase
    <2>21. ASSUME NEW a \in Artifacts, NEW k \in Copies, Checkout(a, k) PROVE Over(d)'
      BY <1>2, <2>0, <2>21 DEF Over, Checkout, CopyStep, SetPhase
    <2>22. ASSUME NEW a \in Artifacts, NEW k \in Copies, ReadCopy(a, k) PROVE Over(d)'
      BY <1>2, <2>0, <2>22 DEF Over, ReadCopy, CopyStep, SetPhase
    <2>23. ASSUME NEW a \in Artifacts, NEW k \in Copies, Copied(a, k) PROVE Over(d)'
      BY <1>2, <2>0, <2>23 DEF Over, Copied, CopyStep, SetPhase
    <2>24. ASSUME NEW a \in Artifacts, NEW k \in Copies, ReleaseCopy(a, k) PROVE Over(d)'
      BY <1>2, <2>0, <2>24 DEF Over, ReleaseCopy, CopyStep, SetPhase
    <2>25. ASSUME NEW x \in live, Crash(x) PROVE Over(d)'
      BY <1>2, <2>0, <2>25 DEF Over, Crash, SetPhase
    <2> QED
      BY <2>1, <2>2, <2>3, <2>4, <2>5, <2>6, <2>7, <2>8, <2>9, <2>10, <2>11, <2>12, <2>13, <2>14, <2>15, <2>16, <2>17, <2>18, <2>19, <2>20, <2>21, <2>22, <2>23, <2>24, <2>25 DEF CustodyNext
  <1> QED
    BY <1>1, <1>2

(* ---------------------- what a state was made from ------------------------ *)

\* A maker is entered by a commit of what still follows HEAD, or by none.
Entered(c, r) ==
  /\ maker' = [maker EXCEPT ![c] = r] /\ r \in Runs /\ phase[r] \in Settled
  /\ phase[c] = "absent" /\ inputs[r][2] = newest /\ inputs' = inputs
  /\ \/ phase' = [phase EXCEPT ![c] = "undeclared"] /\ newest' = c
     \/ phase' = [phase EXCEPT ![c] = "orphan"] /\ newest' = newest

SameMakers ==
  maker' = maker /\ newest' = newest /\ \A c \in Checkpoints : InHistory(c)' <=> InHistory(c)

LEMMA MakersEntered ==
  ASSUME CustodyTypeOK, CustodyNext
  PROVE  SameMakers \/ \E c \in Checkpoints, r \in Runs : Entered(c, r)
  <1>0. /\ phase \in [Owners -> AttemptPhases \cup CheckpointPhases]
        /\ Checkpoints \subseteq Owners /\ Attempts \subseteq Owners /\ Attempts \cap Checkpoints = {}
    BY OwnersAssumption DEF CustodyTypeOK, Owners
  <1>1. ASSUME NEW r \in Attempts, NEW sel \in Selections(r), Reserve(r, sel) PROVE SameMakers
    BY <1>0, <1>1 DEF Reserve, SetPhase, SameMakers, InHistory
  <1>2. ASSUME NEW r \in Attempts, NEW sel \in Selections(r), Acquire(r, sel) PROVE SameMakers
    BY <1>0, <1>2 DEF Acquire, SetPhase, SameMakers, InHistory
  <1>3. ASSUME NEW r \in Attempts, Submit(r) PROVE SameMakers
    BY <1>0, <1>3 DEF Submit, SetPhase, SameMakers, InHistory
  <1>4. ASSUME NEW r \in Attempts, Withdraw(r) PROVE SameMakers
    BY <1>0, <1>4 DEF Withdraw, SetPhase, SameMakers, InHistory
  <1>5. ASSUME NEW r \in Attempts, Snapshot(r) PROVE SameMakers
    BY <1>0, <1>5 DEF Snapshot, SetPhase, SameMakers, InHistory
  <1>6. ASSUME NEW r \in Attempts, Clean(r) PROVE SameMakers
    BY <1>0, <1>6 DEF Clean, SetPhase, SameMakers, InHistory
  <1>7. ASSUME NEW r \in Attempts, ReleaseInputs(r) PROVE SameMakers
    BY <1>0, <1>7 DEF ReleaseInputs, SetPhase, SameMakers, InHistory
  <1>8. ASSUME NEW r \in Attempts, NEW how \in {"cancelled", "failed", "needs-data", "needs-nothing"}, Settle(r, how) PROVE SameMakers
    BY <1>0, <1>8 DEF Settle, SetPhase, SameMakers, InHistory
  <1>9. ASSUME NEW r \in Attempts, NEW c \in Checkpoints, Commit(r, c) PROVE r \in Runs /\ Entered(c, r)
    BY <1>9 DEF Commit, Publish, Publishable, MayCommit, Entered, Settled, Past, SetPhase
  <1>10. ASSUME NEW r \in Attempts, NEW c \in Checkpoints, CommitIsCut(r, c) PROVE r \in Runs /\ Entered(c, r)
    BY <1>10 DEF CommitIsCut, Publish, Publishable, MayCommit, Entered, Settled, Past, SetPhase
  <1>11. ASSUME NEW c \in Checkpoints, ReleasePins(c) PROVE SameMakers
    BY <1>0, <1>11 DEF ReleasePins, Declared, SetPhase, SameMakers, InHistory
  <1>12. ASSUME NEW c \in Checkpoints, NEW a \in Artifacts, Declare(c, <<a>>) PROVE SameMakers
    BY <1>0, <1>12 DEF Declare, SetPhase, SameMakers, InHistory
  <1>13. ASSUME NEW o \in Owners, Pin(o) PROVE SameMakers
    BY <1>0, <1>13 DEF Pin, SetPhase, SameMakers, InHistory
  <1>14. ASSUME NEW o \in Owners, WriteClaim(o) PROVE SameMakers
    BY <1>0, <1>14 DEF WriteClaim, SetPhase, SameMakers, InHistory
  <1>15. ASSUME NEW o \in Owners, Register(o) PROVE SameMakers
    BY <1>0, <1>15 DEF Register, SetPhase, SameMakers, InHistory
  <1>16. ASSUME NEW o \in Owners, MarkRelease(o) PROVE SameMakers
    BY <1>0, <1>16 DEF MarkRelease, SetPhase, SameMakers, InHistory
  <1>17. ASSUME NEW o \in Owners, Receipt(o) PROVE SameMakers
    BY <1>0, <1>17 DEF Receipt, SetPhase, SameMakers, InHistory
  <1>18. ASSUME NEW v \in Versions, Close(v) PROVE SameMakers
    BY <1>0, <1>18 DEF Close, SetPhase, SameMakers, InHistory
  <1>19. ASSUME NEW a \in Artifacts, Delete(a) PROVE SameMakers
    BY <1>0, <1>19 DEF Delete, SetPhase, SameMakers, InHistory
  <1>20. ASSUME NEW a \in Artifacts, Drop(a) PROVE SameMakers
    BY <1>0, <1>20 DEF Drop, SetPhase, SameMakers, InHistory
  <1>21. ASSUME NEW a \in Artifacts, NEW k \in Copies, Checkout(a, k) PROVE SameMakers
    BY <1>0, <1>21 DEF Checkout, CopyStep, SetPhase, SameMakers, InHistory
  <1>22. ASSUME NEW a \in Artifacts, NEW k \in Copies, ReadCopy(a, k) PROVE SameMakers
    BY <1>0, <1>22 DEF ReadCopy, CopyStep, SetPhase, SameMakers, InHistory
  <1>23. ASSUME NEW a \in Artifacts, NEW k \in Copies, Copied(a, k) PROVE SameMakers
    BY <1>0, <1>23 DEF Copied, CopyStep, SetPhase, SameMakers, InHistory
  <1>24. ASSUME NEW a \in Artifacts, NEW k \in Copies, ReleaseCopy(a, k) PROVE SameMakers
    BY <1>0, <1>24 DEF ReleaseCopy, CopyStep, SetPhase, SameMakers, InHistory
  <1>25. ASSUME NEW x \in live, Crash(x) PROVE SameMakers
    BY <1>0, <1>25 DEF Crash, SetPhase, SameMakers, InHistory
  <1> QED
    BY <1>1, <1>2, <1>3, <1>4, <1>5, <1>6, <1>7, <1>8, <1>9, <1>10, <1>11, <1>12, <1>13, <1>14, <1>15, <1>16, <1>17, <1>18, <1>19, <1>20, <1>21, <1>22, <1>23, <1>24, <1>25 DEF CustodyNext

\* A checkpoint stays in the history, and an attempt takes its state from there.
Historic ==
  /\ \A c \in Checkpoints : InHistory(c) => InHistory(c)'
  /\ \A r \in Runs : phase'[r] \in Holding =>
       \/ phase[r] \in Holding /\ inputs'[r] = inputs[r]
       \/ InHistory(inputs'[r][2])

LEMMA HistoryStays ==
  ASSUME CustodyTypeOK, CustodyNext
  PROVE  Historic
  <1>0. /\ phase \in [Owners -> AttemptPhases \cup CheckpointPhases] /\ inputs \in [Owners -> Seq(Versions)]
        /\ Checkpoints \subseteq Owners /\ Runs \subseteq Owners /\ Runs \subseteq Attempts
        /\ Attempts \subseteq Owners /\ Runs \cap Checkpoints = {} /\ Attempts \cap Checkpoints = {}
    BY OwnersAssumption DEF CustodyTypeOK, Owners, Attempts
  <1>1. ASSUME NEW r \in Attempts, NEW sel \in Selections(r), Reserve(r, sel) PROVE Historic
    BY <1>0, <1>1 DEF Reserve, Historic, InHistory, Holding, Past, SetPhase
  <1>2. ASSUME NEW r \in Attempts, NEW sel \in Selections(r), Acquire(r, sel) PROVE Historic
    BY <1>0, <1>2 DEF Acquire, Selectable, Historic, InHistory, Holding, Past, SetPhase
  <1>3. ASSUME NEW r \in Attempts, Submit(r) PROVE Historic
    BY <1>0, <1>3 DEF Submit, Historic, InHistory, Holding, Past, SetPhase
  <1>4. ASSUME NEW r \in Attempts, Withdraw(r) PROVE Historic
    BY <1>0, <1>4 DEF Withdraw, Historic, InHistory, Holding, Past, SetPhase
  <1>5. ASSUME NEW r \in Attempts, Snapshot(r) PROVE Historic
    BY <1>0, <1>5 DEF Snapshot, Historic, InHistory, Holding, Past, SetPhase
  <1>6. ASSUME NEW r \in Attempts, Clean(r) PROVE Historic
    BY <1>0, <1>6 DEF Clean, Historic, InHistory, Holding, Past, SetPhase
  <1>7. ASSUME NEW r \in Attempts, ReleaseInputs(r) PROVE Historic
    BY <1>0, <1>7 DEF ReleaseInputs, MayRelease, Historic, InHistory, Holding, Past, SetPhase
  <1>8. ASSUME NEW r \in Attempts, NEW how \in {"cancelled", "failed", "needs-data", "needs-nothing"}, Settle(r, how) PROVE Historic
    BY <1>0, <1>8 DEF Settle, Historic, InHistory, Holding, Past, SetPhase
  <1>9. ASSUME NEW r \in Attempts, NEW c \in Checkpoints, Commit(r, c) PROVE Historic
    BY <1>0, <1>9 DEF Commit, Publish, Publishable, MayCommit, Historic, InHistory, Holding, Past, SetPhase
  <1>10. ASSUME NEW r \in Attempts, NEW c \in Checkpoints, CommitIsCut(r, c) PROVE Historic
    BY <1>0, <1>10 DEF CommitIsCut, Publish, Publishable, MayCommit, Historic, InHistory, Holding, Past, SetPhase
  <1>11. ASSUME NEW c \in Checkpoints, ReleasePins(c) PROVE Historic
    BY <1>0, <1>11 DEF ReleasePins, Declared, Historic, InHistory, Holding, Past, SetPhase
  <1>12. ASSUME NEW c \in Checkpoints, NEW a \in Artifacts, Declare(c, <<a>>) PROVE Historic
    BY <1>0, <1>12 DEF Declare, Historic, InHistory, Holding, Past, SetPhase
  <1>13. ASSUME NEW o \in Owners, Pin(o) PROVE Historic
    BY <1>0, <1>13 DEF Pin, Historic, InHistory, Holding, Past, SetPhase
  <1>14. ASSUME NEW o \in Owners, WriteClaim(o) PROVE Historic
    BY <1>0, <1>14 DEF WriteClaim, Historic, InHistory, Holding, Past, SetPhase
  <1>15. ASSUME NEW o \in Owners, Register(o) PROVE Historic
    BY <1>0, <1>15 DEF Register, Historic, InHistory, Holding, Past, SetPhase
  <1>16. ASSUME NEW o \in Owners, MarkRelease(o) PROVE Historic
    BY <1>0, <1>16 DEF MarkRelease, Historic, InHistory, Holding, Past, SetPhase
  <1>17. ASSUME NEW o \in Owners, Receipt(o) PROVE Historic
    BY <1>0, <1>17 DEF Receipt, Historic, InHistory, Holding, Past, SetPhase
  <1>18. ASSUME NEW v \in Versions, Close(v) PROVE Historic
    BY <1>0, <1>18 DEF Close, Historic, InHistory, Holding, Past, SetPhase
  <1>19. ASSUME NEW a \in Artifacts, Delete(a) PROVE Historic
    BY <1>0, <1>19 DEF Delete, Historic, InHistory, Holding, Past, SetPhase
  <1>20. ASSUME NEW a \in Artifacts, Drop(a) PROVE Historic
    BY <1>0, <1>20 DEF Drop, Historic, InHistory, Holding, Past, SetPhase
  <1>21. ASSUME NEW a \in Artifacts, NEW k \in Copies, Checkout(a, k) PROVE Historic
    BY <1>0, <1>21 DEF Checkout, CopyStep, Historic, InHistory, Holding, Past, SetPhase
  <1>22. ASSUME NEW a \in Artifacts, NEW k \in Copies, ReadCopy(a, k) PROVE Historic
    BY <1>0, <1>22 DEF ReadCopy, CopyStep, Historic, InHistory, Holding, Past, SetPhase
  <1>23. ASSUME NEW a \in Artifacts, NEW k \in Copies, Copied(a, k) PROVE Historic
    BY <1>0, <1>23 DEF Copied, CopyStep, Historic, InHistory, Holding, Past, SetPhase
  <1>24. ASSUME NEW a \in Artifacts, NEW k \in Copies, ReleaseCopy(a, k) PROVE Historic
    BY <1>0, <1>24 DEF ReleaseCopy, CopyStep, Historic, InHistory, Holding, Past, SetPhase
  <1>25. ASSUME NEW x \in live, Crash(x) PROVE Historic
    BY <1>0, <1>25 DEF Crash, Historic, InHistory, Holding, Past, SetPhase
  <1> QED
    BY <1>1, <1>2, <1>3, <1>4, <1>5, <1>6, <1>7, <1>8, <1>9, <1>10, <1>11, <1>12, <1>13, <1>14, <1>15, <1>16, <1>17, <1>18, <1>19, <1>20, <1>21, <1>22, <1>23, <1>24, <1>25 DEF CustodyNext

LEMMA MakersKept ==
  ASSUME CustodyTypeOK, \A o \in Owners : OwnerFits(o), MakersFit, Forward, Historic, CustodyNext
  PROVE  MakersFit'
  <1>0. /\ maker \in [Checkpoints -> Attempts \cup {Nobody}] /\ Runs \subseteq Owners /\ newest \in Checkpoints
        /\ phase \in [Owners -> AttemptPhases \cup CheckpointPhases] /\ Checkpoints \subseteq Owners
        /\ Runs \cap Checkpoints = {} /\ Nobody \notin Runs
    BY OwnersAssumption DEF CustodyTypeOK, Owners, Attempts
  <1>1. \A r \in Runs : phase[r] \in Settled => phase'[r] \in Settled /\ inputs'[r] = inputs[r]
    BY <1>0 DEF Forward, Settled
  <1>3. \A r \in Runs : phase'[r] \in Holding => InHistory(inputs[r][2])'
    <2> SUFFICES ASSUME NEW r \in Runs, phase'[r] \in Holding PROVE InHistory(inputs[r][2])'
      OBVIOUS
    <2>1. CASE phase[r] \in Holding /\ inputs'[r] = inputs[r]
      BY <2>1 DEF Historic, MakersFit, InHistory
    <2>2. CASE InHistory(inputs'[r][2])
      BY <2>2 DEF Historic, InHistory
    <2> QED
      BY <2>1, <2>2 DEF Historic
  <1>4. ASSUME SameMakers PROVE MakersFit'
    <2>1. \A c \in Checkpoints : maker[c] # Nobody =>
            maker[c] \in Runs /\ phase'[maker[c]] \in Settled /\ inputs'[maker[c]] = inputs[maker[c]]
      BY <1>1 DEF MakersFit, Settled
    <2> QED
      BY <1>0, <1>3, <1>4, <2>1 DEF MakersFit, Settled, SameMakers
  <1>5. ASSUME NEW c \in Checkpoints, NEW r \in Runs, Entered(c, r) PROVE MakersFit'
    <2>1. \A d \in Checkpoints : maker'[d] = IF d = c THEN r ELSE maker[d]
      BY <1>0, <1>5 DEF Entered
    <2>2. \A d \in Checkpoints : maker'[d] # Nobody => maker'[d] \in Runs /\ phase'[maker'[d]] \in Settled
      BY <1>1, <1>5, <2>1 DEF Entered, MakersFit, Settled
    <2>3. \A d \in Checkpoints : d # c => (InHistory(d)' <=> InHistory(d))
      BY <1>0, <1>5 DEF Entered, InHistory
    <2>4. ~InHistory(c) /\ InHistory(newest) /\ inputs[r][2] = newest /\ inputs' = inputs
      BY <1>5 DEF Entered, InHistory, MakersFit
    <2>5. \A d \in Checkpoints : InHistory(d) /\ maker[d] # Nobody =>
            maker[d] \in Runs /\ maker[d] # r /\ inputs[maker[d]][2] # newest /\ inputs[maker[d]][2] # c
      BY <2>4 DEF MakersFit, Holding
    <2>6. CASE phase' = [phase EXCEPT ![c] = "undeclared"] /\ newest' = c
      BY <1>0, <1>3, <1>5, <2>1, <2>2, <2>3, <2>4, <2>5, <2>6 DEF MakersFit, Settled, InHistory
    <2>7. CASE phase' = [phase EXCEPT ![c] = "orphan"] /\ newest' = newest
      BY <1>0, <1>3, <1>5, <2>1, <2>2, <2>3, <2>4, <2>5, <2>7 DEF MakersFit, Settled, InHistory
    <2> QED
      BY <1>5, <2>6, <2>7 DEF Entered
  <1> QED
    BY <1>4, <1>5, MakersEntered

LEMMA HandedOverStays ==
  ASSUME CustodyTypeOK, Forward, CustodyNext, NEW r \in Runs,
         NEW c \in Checkpoints, maker[c] = r, phase[c] \in Past, inputs[c] = <<inputs[r][1]>>, phase[r] \in Settled
  PROVE  HandedOver(r)'
  <1>0. c \in Owners /\ r \in Owners /\ maker \in [Checkpoints -> Attempts \cup {Nobody}]
    BY DEF Owners, Attempts, CustodyTypeOK
  <1>1. phase'[c] \in Past /\ inputs'[c] = inputs[c] /\ inputs'[r] = inputs[r]
    BY <1>0 DEF Forward, Settled
  <1>2. maker'[c] = r
    BY <1>0, MakersEntered DEF Entered, SameMakers, Past
  <1> QED
    BY <1>1, <1>2 DEF HandedOver

LEMMA DataHandedOver ==
  ASSUME CustodyTypeOK, \A o \in Owners : OwnerFits(o), MakersFit, Forward, CustodyNext, NEW p \in Runs, HandedOver(p)
  PROVE  HandedOver(p)'
  <1>0. /\ phase \in [Owners -> AttemptPhases \cup CheckpointPhases] /\ p \in Owners /\ p \in Attempts /\ p \notin Checkpoints
        /\ inputs \in [Owners -> Seq(Versions)]
    BY OwnersAssumption DEF CustodyTypeOK, Owners, Attempts
  <1>1. CASE phase[p] \in {"releasing", "released"} /\ outcome[p] = "needs-data"
    <2>1. PICK c \in Checkpoints : maker[c] = p /\ phase[c] \in Past /\ inputs[c] = <<inputs[p][1]>>
      BY <1>1 DEF HandedOver
    <2> QED
      BY <1>1, <2>1, HandedOverStays DEF Settled, Past
  <1>2. CASE phase[p] \in {"releasing", "released"} /\ outcome[p] # "needs-data"
    BY <1>0, <1>2 DEF Forward, HandedOver, Settled, Past
  <1>3. CASE phase[p] \notin {"releasing", "released"}
    <2>0. CASE ReleaseInputs(p)
      <3>1. CASE outcome[p] # "needs-data"
        BY <1>0, <2>0, <3>1 DEF ReleaseInputs, HandedOver
      <3>2. CASE outcome[p] = "needs-data"
        <4>1. Covered(p) /\ phase[p] = "cleaned"
          BY <2>0, <3>2, OwnersAssumption DEF ReleaseInputs, MayRelease
        <4>2. PICK c \in Checkpoints : /\ maker[c] = p /\ Declared(c)
                                       /\ \A i \in 1..Len(inputs[c]) : inputs[c][i] = inputs[p][1]
          BY <4>1 DEF Covered
        <4>3. phase[c] \in Past /\ c \in Owners /\ inputs[c] \in Takes(c) /\ c \notin Runs
          BY <4>2, OwnersAssumption DEF Declared, OwnerFits, Holding, Past, Owners, Attempts
        <4>4. Len(inputs[c]) = 1 /\ inputs[c] = <<inputs[c][1]>>
          BY <4>3, TakesTyped
        <4> QED
          BY <4>1, <4>2, <4>3, <4>4, HandedOverStays DEF Settled, Past
      <3> QED
        BY <3>1, <3>2
    <2>1. ASSUME NEW r \in Attempts, NEW sel \in Selections(r), Reserve(r, sel) PROVE HandedOver(p)'
      BY <1>0, <1>3, <2>1 DEF HandedOver, Reserve, SetPhase
    <2>2. ASSUME NEW r \in Attempts, NEW sel \in Selections(r), Acquire(r, sel) PROVE HandedOver(p)'
      BY <1>0, <1>3, <2>2 DEF HandedOver, Acquire, SetPhase
    <2>3. ASSUME NEW r \in Attempts, Submit(r) PROVE HandedOver(p)'
      BY <1>0, <1>3, <2>3 DEF HandedOver, Submit, SetPhase
    <2>4. ASSUME NEW r \in Attempts, Withdraw(r) PROVE HandedOver(p)'
      BY <1>0, <1>3, <2>4 DEF HandedOver, Withdraw, SetPhase
    <2>5. ASSUME NEW r \in Attempts, Snapshot(r) PROVE HandedOver(p)'
      BY <1>0, <1>3, <2>5 DEF HandedOver, Snapshot, SetPhase
    <2>6. ASSUME NEW r \in Attempts, Clean(r) PROVE HandedOver(p)'
      BY <1>0, <1>3, <2>6 DEF HandedOver, Clean, SetPhase
    <2>7. ASSUME NEW r \in Attempts, r # p, ReleaseInputs(r) PROVE HandedOver(p)'
      BY <1>0, <1>3, <2>7 DEF HandedOver, ReleaseInputs, SetPhase
    <2>8. ASSUME NEW r \in Attempts, NEW how \in {"cancelled", "failed", "needs-data", "needs-nothing"}, Settle(r, how) PROVE HandedOver(p)'
      BY <1>0, <1>3, <2>8 DEF HandedOver, Settle, SetPhase
    <2>9. ASSUME NEW r \in Attempts, NEW c \in Checkpoints, Commit(r, c) PROVE HandedOver(p)'
      BY <1>0, <1>3, <2>9 DEF HandedOver, Commit, Publish, SetPhase
    <2>10. ASSUME NEW r \in Attempts, NEW c \in Checkpoints, CommitIsCut(r, c) PROVE HandedOver(p)'
      BY <1>0, <1>3, <2>10 DEF HandedOver, CommitIsCut, Publish, SetPhase
    <2>11. ASSUME NEW c \in Checkpoints, ReleasePins(c) PROVE HandedOver(p)'
      BY <1>0, <1>3, <2>11 DEF HandedOver, ReleasePins, SetPhase
    <2>12. ASSUME NEW c \in Checkpoints, NEW a \in Artifacts, Declare(c, <<a>>) PROVE HandedOver(p)'
      BY <1>0, <1>3, <2>12 DEF HandedOver, Declare, SetPhase
    <2>13. ASSUME NEW o \in Owners, Pin(o) PROVE HandedOver(p)'
      BY <1>0, <1>3, <2>13 DEF HandedOver, Pin, SetPhase
    <2>14. ASSUME NEW o \in Owners, WriteClaim(o) PROVE HandedOver(p)'
      BY <1>0, <1>3, <2>14 DEF HandedOver, WriteClaim, SetPhase
    <2>15. ASSUME NEW o \in Owners, Register(o) PROVE HandedOver(p)'
      BY <1>0, <1>3, <2>15 DEF HandedOver, Register, SetPhase
    <2>16. ASSUME NEW o \in Owners, MarkRelease(o) PROVE HandedOver(p)'
      BY <1>0, <1>3, <2>16 DEF HandedOver, MarkRelease, SetPhase
    <2>17. ASSUME NEW o \in Owners, Receipt(o) PROVE HandedOver(p)'
      BY <1>0, <1>3, <2>17 DEF HandedOver, Receipt, SetPhase
    <2>18. ASSUME NEW v \in Versions, Close(v) PROVE HandedOver(p)'
      BY <1>0, <1>3, <2>18 DEF HandedOver, Close, SetPhase
    <2>19. ASSUME NEW a \in Artifacts, Delete(a) PROVE HandedOver(p)'
      BY <1>0, <1>3, <2>19 DEF HandedOver, Delete, SetPhase
    <2>20. ASSUME NEW a \in Artifacts, Drop(a) PROVE HandedOver(p)'
      BY <1>0, <1>3, <2>20 DEF HandedOver, Drop, SetPhase
    <2>21. ASSUME NEW a \in Artifacts, NEW k \in Copies, Checkout(a, k) PROVE HandedOver(p)'
      BY <1>0, <1>3, <2>21 DEF HandedOver, Checkout, CopyStep, SetPhase
    <2>22. ASSUME NEW a \in Artifacts, NEW k \in Copies, ReadCopy(a, k) PROVE HandedOver(p)'
      BY <1>0, <1>3, <2>22 DEF HandedOver, ReadCopy, CopyStep, SetPhase
    <2>23. ASSUME NEW a \in Artifacts, NEW k \in Copies, Copied(a, k) PROVE HandedOver(p)'
      BY <1>0, <1>3, <2>23 DEF HandedOver, Copied, CopyStep, SetPhase
    <2>24. ASSUME NEW a \in Artifacts, NEW k \in Copies, ReleaseCopy(a, k) PROVE HandedOver(p)'
      BY <1>0, <1>3, <2>24 DEF HandedOver, ReleaseCopy, CopyStep, SetPhase
    <2>25. ASSUME NEW x \in live, Crash(x) PROVE HandedOver(p)'
      BY <1>0, <1>3, <2>25 DEF HandedOver, Crash, SetPhase
    <2> QED
      BY <2>0, <2>1, <2>2, <2>3, <2>4, <2>5, <2>6, <2>7, <2>8, <2>9, <2>10, <2>11, <2>12, <2>13, <2>14, <2>15, <2>16, <2>17, <2>18, <2>19, <2>20, <2>21, <2>22, <2>23, <2>24, <2>25 DEF CustodyNext
  <1> QED
    BY <1>1, <1>2, <1>3

(* ------------------------------ custody holds ----------------------------- *)

LEMMA CustodyBegins == CustodyInit => CustodyInv
  <1> SUFFICES ASSUME CustodyInit PROVE CustodyInv
    OBVIOUS
  <1>1. CustodyTypeOK
    BY CustodyTypedFirst
  <1>2. \A o \in Owners : phase[o] \in {"idle", "undeclared", "absent"} /\ at[o] = 1
    BY DEF CustodyInit
  <1>3. \A v \in Versions : marks[v] = {} /\ ledger[v].bytes /\ ~ledger[v].intent
    BY DEF CustodyInit
  <1>4. asked = {} /\ \A c \in Checkpoints : maker[c] = Nobody
    BY DEF CustodyInit
  <1>5. \A o \in Owners : OwnerFits(o)
    BY <1>2 DEF OwnerFits, Past, Holding
  <1>6. \A v \in Versions : KeptOrDone(v)
    BY <1>3 DEF KeptOrDone
  <1>7. \A r \in Attempts : Reserved(r)
    BY <1>2, <1>4 DEF Reserved, Owners
  <1>8. \A c \in Checkpoints : Over(c)
    BY <1>2 DEF Over, Owners
  <1>9. MakersFit /\ \A r \in Runs : HandedOver(r)
    BY <1>2, <1>4, OwnersAssumption DEF MakersFit, HandedOver, Owners, Attempts, InHistory, Holding, Past, CustodyInit
  <1> QED
    BY <1>1, <1>5, <1>6, <1>7, <1>8, <1>9 DEF CustodyInv, CustodyFits

LEMMA CustodyStep == CustodyInv /\ [CustodyNext]_custody => CustodyInv'
  <1> SUFFICES ASSUME CustodyInv, [CustodyNext]_custody PROVE CustodyInv'
    OBVIOUS
  <1>1. CustodyTypeOK /\ CustodyFits /\ CustodyTypeOK'
    BY CustodyTyped DEF CustodyInv
  <1>2. CASE UNCHANGED custody
    <2>1. /\ ledger' = ledger /\ marks' = marks /\ phase' = phase /\ inputs' = inputs /\ at' = at
          /\ outcome' = outcome /\ asked' = asked /\ maker' = maker /\ newest' = newest /\ live' = live
      BY <1>2 DEF custody
    <2>2. \A o \in Owners : OwnerFits(o)'
      BY <1>1, <2>1 DEF CustodyFits, OwnerFits
    <2>3. (\A v \in Versions : KeptOrDone(v)') /\ \A r \in Attempts : Reserved(r)'
      BY <1>1, <2>1 DEF CustodyFits, KeptOrDone, Reserved
    <2>4. \A c \in Checkpoints : Over(c)'
      BY <1>1, <2>1 DEF CustodyFits, Over, AskedFor
    <2>5. MakersFit' /\ \A r \in Runs : HandedOver(r)'
      BY <1>1, <2>1 DEF CustodyFits, MakersFit, InHistory, HandedOver
    <2> QED
      BY <1>1, <2>2, <2>3, <2>4, <2>5 DEF CustodyInv, CustodyFits
  <1>3. CASE CustodyNext
    <2>1. Forward /\ AskedOnce
      BY <1>1, <1>3, GoesForward, NobodyAsks DEF CustodyFits
    <2>2. \A o \in Owners : OwnerFits(o)'
      BY <1>1, <1>3, OwnersFit DEF CustodyFits
    <2>3. \A v \in Versions : KeptOrDone(v)'
      BY <1>1, <1>3, BytesKept DEF CustodyFits
    <2>4. \A r \in Attempts : Reserved(r)'
      BY <1>1, <1>3, ReservationsKept DEF CustodyFits
    <2>5. \A c \in Checkpoints : Over(c)'
      BY <1>1, <1>3, <2>1, OverKept DEF CustodyFits
    <2>6. MakersFit' /\ \A r \in Runs : HandedOver(r)'
      BY <1>1, <1>3, <2>1, HistoryStays, MakersKept, DataHandedOver DEF CustodyFits
    <2> QED
      BY <1>1, <2>2, <2>3, <2>4, <2>5, <2>6 DEF CustodyInv, CustodyFits
  <1> QED
    BY <1>2, <1>3

LEMMA CustodyAlways == CustodySpec => []CustodyInv
  BY CustodyBegins, CustodyStep, PTL DEF CustodySpec

LEMMA InUseIsHeld ==
  ASSUME CustodyTypeOK, \A v \in Versions : KeptOrDone(v), NEW c \in Checkpoints, Over(c),
         phase[c] \in {"releasing", "released"}, NEW r \in Attempts
  PROVE  ~InUse(r, c)
  <1>1. c \in Versions /\ marks[c] \subseteq ledger[c].pins /\ \A o \in ledger[c].pins : phase[o] = "released"
    BY DEF KeptOrDone, Over, Versions
  <1>2. r \in AskedFor(c) => phase[r] = "withdrawn" \/ r \in marks[c]
    BY DEF Over
  <1> QED
    BY <1>1, <1>2 DEF InUse, AskedFor

LEMMA SourcesKept == CustodyInv => StateKeepsItsSources
  <1> SUFFICES ASSUME CustodyInv, NEW c \in Checkpoints, InHistory(c), maker[c] # Nobody, outcome[maker[c]] = "needs-data",
                      ~ledger[c].closed \/ \E r \in Attempts : InUse(r, c)
               PROVE  ledger[inputs[maker[c]][1]].bytes /\ ~ledger[inputs[maker[c]][1]].intent
    BY DEF StateKeepsItsSources
  <1> DEFINE m == maker[c]
             a == inputs[m][1]
  <1>0. CustodyTypeOK /\ CustodyFits
    BY DEF CustodyInv
  <1>1. m \in Runs /\ m \in Owners /\ phase[m] \in Settled /\ OwnerFits(m) /\ HandedOver(m)
    BY <1>0 DEF CustodyFits, MakersFit, Settled, Owners, Attempts
  <1>2. inputs[m] \in Takes(m) /\ Len(inputs[m]) = 2 /\ a \in Versions /\ m \in ledger[a].pins
    <2>1. inputs[m] \in Takes(m)
      BY <1>1 DEF OwnerFits, Holding, Settled
    <2>2. Len(inputs[m]) = 2 /\ a \in Versions
      BY <1>1, <2>1, TakesTyped DEF Versions
    <2> QED
      BY <1>1, <2>1, <2>2 DEF OwnerFits, Settled
  <1>3. KeptOrDone(a) /\ (phase[m] # "released" => ledger[a].bytes /\ ~ledger[a].intent)
    BY <1>0, <1>2 DEF CustodyFits, KeptOrDone
  <1>4. CASE phase[m] = "released"
    <2>1. PICK d \in Checkpoints : maker[d] = m /\ phase[d] \in Past /\ inputs[d] = <<a>>
      BY <1>1, <1>4 DEF HandedOver
    <2>2. d = c
      BY <1>0, <2>1 DEF CustodyFits, MakersFit, InHistory, Past
    <2>3. c \in Owners /\ c \in ledger[a].pins
      BY <1>0, <2>1, <2>2 DEF CustodyFits, OwnerFits, Owners
    <2>4. phase[c] # "released"
      BY <1>0, InUseIsHeld DEF CustodyFits, Over
    <2> QED
      BY <1>3, <2>3, <2>4 DEF KeptOrDone
  <1> QED
    BY <1>3, <1>4

LEMMA CopiesOnlyOpen ==
  ASSUME CustodyTypeOK, CustodyNext, NEW v \in Versions, ledger[v].closed
  PROVE  \A k \in Copies : ledger[v].copies[k] = "none" => ledger'[v].copies[k] = "none"
  <1> DEFINE Closed == \A j \in Copies : ledger[v].copies[j] = "none" => ledger'[v].copies[j] = "none"
  <1>0. ledger \in [Versions -> Sheet]
    BY LedgerTyped
  <1>1. ASSUME NEW r \in Attempts, NEW sel \in Selections(r), Reserve(r, sel) PROVE Closed
    BY <1>1 DEF Reserve
  <1>2. ASSUME NEW r \in Attempts, NEW sel \in Selections(r), Acquire(r, sel) PROVE Closed
    BY <1>2 DEF Acquire
  <1>3. ASSUME NEW r \in Attempts, Submit(r) PROVE Closed
    BY <1>3 DEF Submit
  <1>4. ASSUME NEW r \in Attempts, Withdraw(r) PROVE Closed
    BY <1>4 DEF Withdraw
  <1>5. ASSUME NEW r \in Attempts, Snapshot(r) PROVE Closed
    BY <1>5 DEF Snapshot
  <1>6. ASSUME NEW r \in Attempts, Clean(r) PROVE Closed
    BY <1>6 DEF Clean
  <1>7. ASSUME NEW r \in Attempts, ReleaseInputs(r) PROVE Closed
    BY <1>7 DEF ReleaseInputs
  <1>8. ASSUME NEW r \in Attempts, NEW how \in {"cancelled", "failed", "needs-data", "needs-nothing"}, Settle(r, how) PROVE Closed
    BY <1>8 DEF Settle
  <1>9. ASSUME NEW r \in Attempts, NEW c \in Checkpoints, Commit(r, c) PROVE Closed
    BY <1>9 DEF Commit, Publish
  <1>10. ASSUME NEW r \in Attempts, NEW c \in Checkpoints, CommitIsCut(r, c) PROVE Closed
    BY <1>10 DEF CommitIsCut, Publish
  <1>11. ASSUME NEW c \in Checkpoints, ReleasePins(c) PROVE Closed
    BY <1>11 DEF ReleasePins
  <1>12. ASSUME NEW c \in Checkpoints, NEW a \in Artifacts, Declare(c, <<a>>) PROVE Closed
    BY <1>12 DEF Declare
  <1>13. ASSUME NEW o \in Owners, Pin(o) PROVE Closed
    <2>1. ledger'[v].copies = ledger[v].copies
      BY <1>0, <1>13, PinWritten, SlotTyped DEF Pin, Versions
    <2> QED
      BY <2>1
  <1>14. ASSUME NEW o \in Owners, WriteClaim(o) PROVE Closed
    BY <1>14 DEF WriteClaim
  <1>15. ASSUME NEW o \in Owners, Register(o) PROVE Closed
    BY <1>15 DEF Register
  <1>16. ASSUME NEW o \in Owners, MarkRelease(o) PROVE Closed
    BY <1>16 DEF MarkRelease
  <1>17. ASSUME NEW o \in Owners, Receipt(o) PROVE Closed
    BY <1>17 DEF Receipt
  <1>18. ASSUME NEW w \in Versions, Close(w) PROVE Closed
    <2>1. ledger'[v].copies = ledger[v].copies
      BY <1>0, <1>18, ClosedWritten DEF Close, Versions
    <2> QED
      BY <2>1
  <1>19. ASSUME NEW a \in Artifacts, Delete(a) PROVE Closed
    <2>1. ledger'[v].copies = ledger[v].copies
      BY <1>0, <1>19, IntentWritten DEF Delete, Versions
    <2> QED
      BY <2>1
  <1>20. ASSUME NEW a \in Artifacts, Drop(a) PROVE Closed
    <2>1. ledger'[v].copies = ledger[v].copies
      BY <1>0, <1>20, DroppedWritten DEF Drop, Versions
    <2> QED
      BY <2>1
  <1>21. ASSUME NEW a \in Artifacts, NEW k \in Copies, Checkout(a, k) PROVE Closed
    <2>0. a \in Versions /\ "opening" \in CopyStates /\ CopyStep(a, k, ledger[a].copies[k], "opening")
      BY <1>21 DEF Checkout, CopyStep, Versions, CopyStates
    <2>1. \A j \in Copies : ledger'[v].copies[j] = IF v = a /\ j = k THEN "opening" ELSE ledger[v].copies[j]
      BY <1>0, <2>0, CopyWritten
    <2> QED
      BY <1>21, <2>1 DEF Checkout, CopyStep, Open
  <1>22. ASSUME NEW a \in Artifacts, NEW k \in Copies, ReadCopy(a, k) PROVE Closed
    <2>0. a \in Versions /\ "read" \in CopyStates /\ CopyStep(a, k, ledger[a].copies[k], "read")
      BY <1>22 DEF ReadCopy, CopyStep, Versions, CopyStates
    <2>1. \A j \in Copies : ledger'[v].copies[j] = IF v = a /\ j = k THEN "read" ELSE ledger[v].copies[j]
      BY <1>0, <2>0, CopyWritten
    <2> QED
      BY <1>22, <2>1 DEF ReadCopy, CopyStep, Open
  <1>23. ASSUME NEW a \in Artifacts, NEW k \in Copies, Copied(a, k) PROVE Closed
    <2>0. a \in Versions /\ "copied" \in CopyStates /\ CopyStep(a, k, ledger[a].copies[k], "copied")
      BY <1>23 DEF Copied, CopyStep, Versions, CopyStates
    <2>1. \A j \in Copies : ledger'[v].copies[j] = IF v = a /\ j = k THEN "copied" ELSE ledger[v].copies[j]
      BY <1>0, <2>0, CopyWritten
    <2> QED
      BY <1>23, <2>1 DEF Copied, CopyStep, Open
  <1>24. ASSUME NEW a \in Artifacts, NEW k \in Copies, ReleaseCopy(a, k) PROVE Closed
    <2>0. a \in Versions /\ "released" \in CopyStates /\ CopyStep(a, k, ledger[a].copies[k], "released")
      BY <1>24 DEF ReleaseCopy, CopyStep, Versions, CopyStates
    <2>1. \A j \in Copies : ledger'[v].copies[j] = IF v = a /\ j = k THEN "released" ELSE ledger[v].copies[j]
      BY <1>0, <2>0, CopyWritten
    <2> QED
      BY <1>24, <2>1 DEF ReleaseCopy, CopyStep, Open
  <1>25. ASSUME NEW x \in live, Crash(x) PROVE Closed
    BY <1>25 DEF Crash
  <1> QED
    BY <1>1, <1>2, <1>3, <1>4, <1>5, <1>6, <1>7, <1>8, <1>9, <1>10, <1>11, <1>12, <1>13, <1>14, <1>15, <1>16, <1>17, <1>18, <1>19, <1>20, <1>21, <1>22, <1>23, <1>24, <1>25 DEF CustodyNext

\* Bytes of a version stay while anyone may read it: admitted copies, claims of
\* attempts and checkpoints, and the data a state in use was made of, whatever
\* process died in between (references::acquire, delete, coverage, retirement).
THEOREM CustodyIsSafe == CustodySpec => []CustodySafe
  <1>1. CustodyInv => CustodySafe
    <2>1. CustodyInv => AdmittedCanRead
      BY DEF CustodyInv, CustodyFits, KeptOrDone, AdmittedCanRead
    <2> QED
      BY <2>1, SourcesKept DEF CustodyInv, CustodySafe
  <1> QED
    BY <1>1, CustodyAlways, PTL

\* Closing has one order with every admission: a closed version gets no claim,
\* no copy and no reservation any more, also none that had checked it before
\* (artifact_versions::close, supervisor::reserve).
THEOREM ClosingAdmitsNoMore == CustodySpec => ClosingIsFinal
  <1> DEFINE Step(v) ==
        ledger[v].closed =>
          /\ v \in Checkpoints => AskedFor(v)' \subseteq AskedFor(v)
          /\ ledger'[v].pins = ledger[v].pins
          /\ \A k \in Copies : ledger[v].copies[k] = "none" => ledger'[v].copies[k] = "none"
  <1>1. CustodyInv /\ [CustodyNext]_custody => [\A v \in Versions : Step(v)]_custody
    <2> SUFFICES ASSUME CustodyInv, CustodyNext, NEW v \in Versions, ledger[v].closed PROVE Step(v)
      OBVIOUS
    <2>1. Forward /\ AskedOnce
      BY GoesForward, NobodyAsks DEF CustodyInv, CustodyFits
    <2>2. \A k \in Copies : ledger[v].copies[k] = "none" => ledger'[v].copies[k] = "none"
      BY CopiesOnlyOpen DEF CustodyInv
    <2> QED
      BY <2>1, <2>2 DEF Forward, AskedOnce
  <1> QED
    BY <1>1, CustodyAlways, PTL DEF CustodySpec, ClosingIsFinal
----------------------------------------------------------------------------
(* ------------------------- histories and products ------------------------- *)

\* A run answers for one state of one instance.
Binds(input, i, expected) ==
  \/ input = [kind |-> "state", of |-> i, rev |-> expected]
  \/ input.kind = "delivery" /\ input.attempt.to = i /\ input.attempt.expected = expected

\* Nobody needs what an event published any more.
Unneeded(e) ==
  /\ \A i \in Instance : \A k \in History(i) : e \notin Refs(catalog[i][k])
  /\ \A to \in At(e).checkpoint.manifest.recipients : ConsumedAt(to, e) # {}

\* What a revision of an instance adds to the one it was made from.
Adds(i, rev, previous) ==
  /\ rev.checkpoint = None => previous.checkpoint = None
  /\ Consumed(previous) \subseteq Consumed(rev)
  /\ \A e \in Consumed(rev) \ Consumed(previous) :
       /\ runs[rev.run].input = [kind |-> "delivery",
                                 attempt |-> [event |-> e, to |-> i, expected |-> rev.parent]]
       /\ IsFor(e, i)

\* A catalog begins with a revision of no run; the others follow one of it, staged
\* ones included.
RevisionFits(i, k) ==
  LET rev == catalog[i][k] IN
  /\ rev.parent = 0 => rev.run = 0 /\ rev.checkpoint = None
  /\ rev.parent # 0 =>
       /\ rev.parent < k
       /\ rev.run \in DOMAIN runs /\ Binds(runs[rev.run].input, i, rev.parent)
       /\ Adds(i, rev, catalog[i][rev.parent])

CatalogFits(i) ==
  /\ Len(catalog[i]) <= MaxRevisions
  /\ head[i] = 0 => catalog[i] = <<>>
  /\ \A k \in DOMAIN catalog[i] : RevisionFits(i, k)

\* A history is one line: no two of its revisions have one parent.
OneLine(i) == \A k, l \in History(i) : k < l => k <= catalog[i][l].parent

AcksFit == \A ack \in acks : ack.rev \in History(ack.to) /\ ack.event \in Consumed(catalog[ack.to][ack.rev])

AttemptsFit ==
  /\ \A a, b \in attempts : a.event = b.event /\ a.to = b.to => a = b
  /\ \A r \in DOMAIN runs : runs[r].input.kind = "delivery" => runs[r].input.attempt \in attempts \ calls
  /\ \A r, s \in DOMAIN runs :
       /\ runs[r].input.kind = "delivery" /\ runs[s].input.kind = "delivery"
       /\ runs[r].input.attempt = runs[s].input.attempt
       => r = s

\* What a commit is going to publish, as it stands in the catalog.
Planned(plan) == [parent |-> plan.expected, run |-> plan.run, checkpoint |-> plan.checkpoint]

\* Nothing moves under the lock: what an operation found is still so.
CommitFits ==
  op # None /\ op.kind = "commit" =>
    LET plan == op.plan IN
    /\ head[plan.of] = plan.expected
    /\ plan.run \in DOMAIN runs /\ Binds(runs[plan.run].input, plan.of, plan.expected)
    /\ Adds(plan.of, Planned(plan), catalog[plan.of][plan.expected])
    /\ \A e \in Refs(Planned(plan)) : Available(e)
    /\ op.at = "head" =>
         /\ catalog[plan.of][Len(catalog[plan.of])] = Planned(plan) 
         /\ plan.expected < Len(catalog[plan.of])
         /\ plan.checkpoint # None => product[plan.run] = "here"

ReclaimFits ==
  op # None /\ op.kind = "reclaim" /\ op.at = "remove" =>
    \E e \in Event : IsEvent(e) /\ At(e).run = op.run /\ Unneeded(e)

ProductsFit == \A e \in Event : IsEvent(e) /\ product[At(e).run] # "here" => Unneeded(e)

StoreInv ==
  /\ TypeOK /\ Len(runs) <= MaxRuns
  /\ \A i \in Instance : CatalogFits(i) /\ OneLine(i)
  /\ AcksFit /\ AttemptsFit /\ CommitFits /\ ReclaimFits /\ ProductsFit

\* The least element of a set of numbers, from the well-foundedness of <.
LEMMA Smallest ==
  ASSUME NEW S \in SUBSET Nat, S # {}
  PROVE  \E m \in S : \A j \in S : m <= j
<1> DEFINE R == OpToRel(<, Nat)
<1>1. \A x, y \in Nat : <<x, y>> \in R <=> x < y
  BY DEF OpToRel
<1>2. IsWellFoundedOn(R, Nat)
  BY NatLessThanWellFounded
<1> HIDE DEF R
<1>3. PICK m \in S : \A j \in S : ~(<<j, m>> \in R)
  BY <1>2, WFMin
<1>4. \A j \in S : m <= j
  <2> TAKE j \in S
  <2>1. j \in Nat /\ m \in Nat
    OBVIOUS
  <2>2. ~(j < m)
    BY <1>1, <1>3, <2>1
  <2> QED
    BY <2>1, <2>2
<1> QED
  BY <1>4

\* Parents come before their revisions.
Backward(revs) == \A k \in DOMAIN revs : revs[k].parent \in 0..k-1

\* f says what is before each of the first n revisions.
Walk(revs, n, f) ==
  f = [k \in 0..n |-> IF k = 0 THEN {} ELSE {k} \cup f[revs[k].parent]]

\* There is one such function and no other: the least counterexample has a parent.
LEMMA WalkExists ==
  ASSUME NEW revs, Backward(revs), NEW N \in Nat, DOMAIN revs = 1..N
  PROVE  \A n \in 0..N : \E f : Walk(revs, n, f)
<1> SUFFICES ASSUME NEW x \in 0..N, ~\E f : Walk(revs, x, f)
             PROVE  FALSE
  OBVIOUS
<1> DEFINE S == {n \in 0..N : ~\E f : Walk(revs, n, f)}
<1>1. PICK n \in S : \A j \in S : n <= j
  <2>1. S \in SUBSET Nat /\ x \in S
    OBVIOUS
  <2> HIDE DEF S
  <2> QED
    BY <2>1, Smallest
<1>2. n \in 0..N /\ ~\E f : Walk(revs, n, f)
  BY <1>1
<1>3. CASE n = 0
  <2> DEFINE f == [k \in 0..0 |-> {}]
  <2>1. Walk(revs, 0, f)
    BY DEF Walk
  <2> QED
    BY <1>2, <1>3, <2>1
<1>4. CASE n # 0
  <2>1. n - 1 \in 0..N /\ n - 1 \notin S
    BY <1>1, <1>2, <1>4
  <2>2. PICK f : Walk(revs, n - 1, f)
    BY <2>1
  <2> DEFINE g == [k \in 0..n |-> IF k = n THEN {n} \cup f[revs[n].parent] ELSE f[k]]
  <2>3. revs[n].parent \in 0..n-1
    BY <1>2, <1>4 DEF Backward
  <2>4. \A k \in 0..n-1 : g[k] = f[k]
    BY <1>2
  <2>5. \A k \in 0..n : g[k] = IF k = 0 THEN {} ELSE {k} \cup g[revs[k].parent]
    <3> TAKE k \in 0..n
    <3>1. CASE k = n
      BY <3>1, <2>3, <2>4, <1>2, <1>4
    <3>2. CASE k # n
      <4>1. k \in 0..n-1 /\ f[k] = IF k = 0 THEN {} ELSE {k} \cup f[revs[k].parent]
        <5>1. k \in 0..n-1
          BY <3>2, <1>2
        <5>2. \A j \in 0..n-1 : f[j] = IF j = 0 THEN {} ELSE {j} \cup f[revs[j].parent]
          BY <2>2 DEF Walk
        <5> QED
          BY <5>1, <5>2
      <4>2. k # 0 => revs[k].parent \in 0..n-1
        BY <4>1, <1>2 DEF Backward
      <4> QED
        BY <4>1, <4>2, <2>4
    <3> QED
      BY <3>1, <3>2
  <2>6. Walk(revs, n, g)
    <3>1. g = [k \in 0..n |-> g[k]]
      OBVIOUS
    <3> HIDE DEF g
    <3> QED
      BY <3>1, <2>5 DEF Walk
  <2> QED
    BY <2>6, <1>2
<1> QED
  BY <1>3, <1>4

LEMMA WalksAgree ==
  ASSUME NEW revs, NEW more, Backward(revs), Backward(more), NEW N \in Nat, NEW M \in Nat,
         DOMAIN revs = 1..N, DOMAIN more = 1..M, N <= M, \A k \in 1..N : more[k].parent = revs[k].parent,
         NEW f, NEW g, Walk(revs, N, f), Walk(more, M, g)
  PROVE  \A k \in 0..N : g[k] = f[k]
<1> SUFFICES ASSUME NEW x \in 0..N, g[x] # f[x]
             PROVE  FALSE
  OBVIOUS
<1> DEFINE S == {n \in 0..N : g[n] # f[n]}
<1>1. PICK n \in S : \A j \in S : n <= j
  <2>1. S \in SUBSET Nat /\ x \in S
    OBVIOUS
  <2> HIDE DEF S
  <2> QED
    BY <2>1, Smallest
<1>2. n \in 0..N /\ g[n] # f[n]
  BY <1>1
<1>3. f[n] = IF n = 0 THEN {} ELSE {n} \cup f[revs[n].parent]
  BY <1>2 DEF Walk
<1>4. g[n] = IF n = 0 THEN {} ELSE {n} \cup g[more[n].parent]
  <2>1. n \in 0..M
    BY <1>2
  <2>2. \A k \in 0..M : g[k] = IF k = 0 THEN {} ELSE {k} \cup g[more[k].parent]
    BY DEF Walk
  <2> QED
    BY <2>1, <2>2
<1>5. n # 0 /\ revs[n].parent \in 0..n-1 /\ more[n].parent = revs[n].parent
  BY <1>2, <1>3, <1>4 DEF Backward
<1>6. g[revs[n].parent] = f[revs[n].parent]
  <2>1. revs[n].parent \in 0..N /\ revs[n].parent < n
    BY <1>2, <1>5
  <2>2. revs[n].parent \notin S
    BY <2>1, <1>1
  <2> QED
    BY <2>1, <2>2
<1> QED
  BY <1>2, <1>3, <1>4, <1>5, <1>6

LEMMA AncestryIs ==
  ASSUME NEW revs, Backward(revs), NEW N \in Nat, DOMAIN revs = 1..N, Len(revs) = N
  PROVE  Walk(revs, N, Ancestry(revs))
<1>1. \E f : f = [k \in 0..Len(revs) |-> IF k = 0 THEN {} ELSE {k} \cup f[revs[k].parent]]
  <2>1. N \in 0..N
    OBVIOUS
  <2>2. PICK f : Walk(revs, N, f)
    BY <2>1, WalkExists
  <2>3. f = [k \in 0..Len(revs) |-> IF k = 0 THEN {} ELSE {k} \cup f[revs[k].parent]]
    BY <2>2 DEF Walk
  <2> QED
    BY <2>3
<1>2. Ancestry(revs) = [k \in 0..Len(revs) |-> IF k = 0 THEN {} ELSE {k} \cup Ancestry(revs)[revs[k].parent]]
  BY <1>1 DEF Ancestry
<1> QED
  BY <1>2 DEF Walk

LEMMA AncestryStep ==
  ASSUME NEW revs, Backward(revs), NEW N \in Nat, DOMAIN revs = 1..N, Len(revs) = N
  PROVE  /\ Ancestry(revs)[0] = {}
         /\ \A k \in 1..N : Ancestry(revs)[k] = {k} \cup Ancestry(revs)[revs[k].parent]
<1> DEFINE A == Ancestry(revs)
<1>1. Walk(revs, N, A)
  BY AncestryIs
<1> HIDE DEF A
<1>2. \A k \in 0..N : A[k] = IF k = 0 THEN {} ELSE {k} \cup A[revs[k].parent]
  BY <1>1 DEF Walk
<1>3. A[0] = {} /\ \A k \in 1..N : A[k] = {k} \cup A[revs[k].parent]
  <2>1. 0 \in 0..N /\ \A k \in 1..N : k \in 0..N /\ k # 0
    OBVIOUS
  <2> QED
    BY <1>2, <2>1
<1> QED
  BY <1>3 DEF A

\* Ancestors come no later, and with all of their own.
LEMMA AncestryClosed ==
  ASSUME NEW revs, Backward(revs), NEW N \in Nat, DOMAIN revs = 1..N, Len(revs) = N
  PROVE  \A k \in 0..N :
           /\ Ancestry(revs)[k] \subseteq 1..k
           /\ \A j \in Ancestry(revs)[k] : revs[j].parent # 0 => revs[j].parent \in Ancestry(revs)[k]
<1> DEFINE A == Ancestry(revs)
           Good(k) == A[k] \subseteq 1..k /\ \A j \in A[k] : revs[j].parent # 0 => revs[j].parent \in A[k]
<1>1. A[0] = {} /\ \A k \in 1..N : A[k] = {k} \cup A[revs[k].parent]
  BY AncestryStep
<1> HIDE DEF A
<1> SUFFICES ASSUME NEW x \in 0..N, ~Good(x)
             PROVE  FALSE
  BY DEF A
<1> DEFINE S == {n \in 0..N : ~Good(n)}
<1>2. PICK n \in S : \A j \in S : n <= j
  <2>1. S \in SUBSET Nat /\ x \in S
    OBVIOUS
  <2> HIDE DEF S
  <2> QED
    BY <2>1, Smallest
<1>3. n \in 0..N /\ ~Good(n) /\ n # 0
  BY <1>1, <1>2
<1> DEFINE p == revs[n].parent
<1>4. p \in 0..n-1
  BY <1>3 DEF Backward
<1>5. Good(p)
  <2>1. p \notin S /\ p \in 0..N
    BY <1>2, <1>3, <1>4
  <2> HIDE DEF Good
  <2> QED
    BY <2>1
<1>6. A[n] = {n} \cup A[p]
  BY <1>1, <1>3
<1>7. p # 0 => p \in A[p]
  BY <1>1, <1>3, <1>4
<1>8. Good(n)
  <2>1. A[n] \subseteq 1..n
    BY <1>3, <1>4, <1>5, <1>6
  <2>2. ASSUME NEW j \in A[n], revs[j].parent # 0
        PROVE  revs[j].parent \in A[n]
    BY <1>5, <1>6, <1>7, <2>2
  <2> QED
    BY <2>1, <2>2
<1> QED
  BY <1>3, <1>8

\* What is appended to a catalog changes no history.
LEMMA AncestryGrows ==
  ASSUME NEW revs, NEW more, Backward(revs), Backward(more), NEW N \in Nat, NEW M \in Nat,
         DOMAIN revs = 1..N, DOMAIN more = 1..M, Len(revs) = N, Len(more) = M,
         N <= M, \A k \in 1..N : more[k].parent = revs[k].parent
  PROVE  \A k \in 0..N : Ancestry(more)[k] = Ancestry(revs)[k]
BY AncestryIs, WalksAgree

LEMMA CatalogType ==
  ASSUME TypeOK, NEW i \in Instance
  PROVE  /\ catalog[i] \in Seq(Revision) /\ Len(catalog[i]) \in Nat /\ DOMAIN catalog[i] = 1..Len(catalog[i])
         /\ head[i] \in 0..Len(catalog[i]) /\ head[i] \in Nat
         /\ \A k \in 1..Len(catalog[i]) : catalog[i][k] \in Revision
<1>1. catalog[i] \in Seq(Revision) /\ head[i] \in Nat /\ head[i] <= Len(catalog[i])
  BY DEF TypeOK
<1>2. Len(catalog[i]) \in Nat /\ DOMAIN catalog[i] = 1..Len(catalog[i]) /\ \A k \in 1..Len(catalog[i]) : catalog[i][k] \in Revision
  BY <1>1
<1> QED
  BY <1>1, <1>2

LEMMA RunsType ==
  ASSUME TypeOK, Len(runs) <= MaxRuns
  PROVE  /\ runs \in Seq([input : Input, sealed : BOOLEAN]) /\ Len(runs) \in Nat /\ DOMAIN runs = 1..Len(runs)
         /\ DOMAIN runs \subseteq Run
         /\ \A r \in DOMAIN runs : runs[r] \in [input : Input, sealed : BOOLEAN] /\ runs[r].input \in Input
<1>1. runs \in Seq([input : Input, sealed : BOOLEAN]) /\ MaxRuns \in Nat
  BY InstancesAssumption DEF TypeOK
<1>2. Len(runs) \in Nat /\ DOMAIN runs = 1..Len(runs)
  BY <1>1
<1>3. \A r \in DOMAIN runs : runs[r] \in [input : Input, sealed : BOOLEAN] /\ runs[r].input \in Input
  <2> DEFINE Entry == [input : Input, sealed : BOOLEAN]
  <2>1. \A r \in 1..Len(runs) : runs[r] \in Entry
    <3> HIDE DEF Entry
    <3> QED
      BY <1>1, ElementOfSeq DEF Entry
  <2>2. \A x \in Entry : x.input \in Input
    OBVIOUS
  <2> QED
    BY <1>2, <2>1, <2>2
<1>4. DOMAIN runs \subseteq Run
  BY <1>1, <1>2 DEF Run
<1> QED
  BY <1>1, <1>2, <1>3, <1>4

LEMMA CheckpointType ==
  ASSUME NEW rev \in Revision
  PROVE  /\ rev.checkpoint = None \/ rev.checkpoint \in Checkpoint
         /\ Refs(rev) \subseteq Event /\ Consumed(rev) \subseteq Event
         /\ rev.parent \in Nat
<1>1. /\ rev.checkpoint = None \/ rev.checkpoint \in Checkpoint
      /\ rev.parent \in {0} \cup Rev
  BY DEF Revision
<1>2. CASE rev.checkpoint = None
  BY <1>1, <1>2 DEF Refs, Consumed, Rev
<1>3. CASE rev.checkpoint \in Checkpoint /\ rev.checkpoint # None
  BY <1>1, <1>3 DEF Refs, Consumed, Rev, Checkpoint, Manifest
<1> QED
  BY <1>1, <1>2, <1>3

LEMMA OfferedType == Offered \subseteq Manifest
<1>1. \A n : kSubset(n, Instance) \subseteq SUBSET Instance
  BY DEF kSubset
<1>2. \A n : kSubset(n, {e \in Events : Available(e)}) \subseteq SUBSET Event
  BY DEF kSubset, Events
<1> DEFINE A == UNION {kSubset(n, Instance) : n \in 0..MaxListed}
           B == UNION {kSubset(n, {e \in Events : Available(e)}) : n \in 0..MaxListed}
<1>3. A \subseteq SUBSET Instance
  BY <1>1
<1>4. B \subseteq SUBSET Event
  <2> SUFFICES ASSUME NEW s \in B
               PROVE  s \in SUBSET Event
    OBVIOUS
  <2>1. PICK n \in 0..MaxListed : s \in kSubset(n, {e \in Events : Available(e)})
    OBVIOUS
  <2> QED
    BY <1>2, <2>1
<1>5. Offered = {m \in [recipients : A, refs : B, keep : BOOLEAN] : Cardinality(m.recipients) + Cardinality(m.refs) <= MaxListed}
  BY DEF Offered
<1> HIDE DEF A, B
<1>6. [recipients : A, refs : B, keep : BOOLEAN] \subseteq Manifest
  BY <1>3, <1>4 DEF Manifest
<1> QED
  BY <1>5, <1>6

LEMMA RecordShapes ==
  /\ \A input \in Input : input.kind = "state" => input.of \in Instance /\ input.rev \in Rev
  /\ \A input \in Input : input.kind = "delivery" => input.attempt \in Attempt
  /\ \A input \in Input : input.kind \in {"state", "delivery"}
  /\ \A a \in Attempt : a.event \in Event /\ a.to \in Instance /\ a.expected \in Rev
  /\ \A e \in Event : e.of \in Instance /\ e.rev \in Rev
  /\ Rev \subseteq Nat \ {0} /\ Run \subseteq Nat \ {0}
<1>1. Rev \subseteq Nat \ {0} /\ Run \subseteq Nat \ {0}
  BY InstancesAssumption DEF Rev, Run
<1>2. \A input \in Input : input.kind \in {"state", "delivery"}
  BY DEF Input
<1>3. \A input \in Input : input.kind = "state" => input.of \in Instance /\ input.rev \in Rev
  BY DEF Input
<1>4. \A input \in Input : input.kind = "delivery" => input.attempt \in Attempt
  BY DEF Input
<1>5. \A a \in Attempt : a.event \in Event /\ a.to \in Instance /\ a.expected \in Rev
  BY DEF Attempt
<1>6. \A e \in Event : e.of \in Instance /\ e.rev \in Rev
  BY DEF Event
<1> QED
  BY <1>1, <1>2, <1>3, <1>4, <1>5, <1>6

LEMMA OpShapes ==
  ASSUME TypeOK, op # None
  PROVE  /\ op.kind \in {"commit", "reclaim"}
         /\ op.kind = "commit" => op = [kind |-> "commit", at |-> op.at, plan |-> op.plan] /\ op.at \in {"stage", "head"} /\ op.plan \in Plan
         /\ op.kind = "reclaim" => op = [kind |-> "reclaim", at |-> op.at, run |-> op.run] /\ op.at \in {"remove", "receipt"} /\ op.run \in Run
<1>1. op \in Operation
  BY DEF TypeOK
<1> QED
  BY <1>1 DEF Operation

LEMMA PlanType ==
  ASSUME NEW plan \in Plan
  PROVE  /\ plan.of \in Instance /\ plan.expected \in Rev /\ plan.run \in Run
         /\ plan.checkpoint \in Checkpoint \cup {None} /\ Planned(plan) \in Revision
<1>1. plan.of \in Instance /\ plan.expected \in Rev /\ plan.run \in Run /\ plan.checkpoint \in Checkpoint \cup {None}
  BY DEF Plan
<1> QED
  BY <1>1 DEF Planned, Revision

\* A history has no more than its HEAD and the revisions up to it, and all parents.
LEMMA HistoryFits ==
  ASSUME TypeOK, NEW i \in Instance, CatalogFits(i)
  PROVE  /\ Backward(catalog[i])
         /\ History(i) \subseteq 1..head[i] /\ History(i) \subseteq 1..Len(catalog[i]) /\ History(i) \subseteq Rev
         /\ head[i] # 0 => head[i] \in History(i)
         /\ head[i] = 0 => History(i) = {}
         /\ \A k \in History(i) : catalog[i][k].parent # 0 => catalog[i][k].parent \in History(i)
<1> DEFINE N == Len(catalog[i])
<1>1. /\ N \in Nat /\ DOMAIN catalog[i] = 1..N
      /\ head[i] \in 0..N /\ \A k \in 1..N : catalog[i][k] \in Revision
  BY CatalogType
<1>2. Backward(catalog[i])
  <2> SUFFICES ASSUME NEW k \in DOMAIN catalog[i]
               PROVE  catalog[i][k].parent \in 0..k-1
    BY DEF Backward
  <2>1. catalog[i][k].parent \in Nat /\ k \in 1..N
    BY <1>1, CheckpointType
  <2>2. catalog[i][k].parent # 0 => catalog[i][k].parent < k
    BY DEF CatalogFits, RevisionFits
  <2> QED
    BY <2>1, <2>2
<1> DEFINE A == Ancestry(catalog[i])
<1>3. /\ A[0] = {} /\ \A k \in 1..N : A[k] = {k} \cup A[catalog[i][k].parent]
      /\ \A k \in 0..N : /\ A[k] \subseteq 1..k
                         /\ \A j \in A[k] : catalog[i][j].parent # 0 => catalog[i][j].parent \in A[k]
  BY <1>1, <1>2, AncestryStep, AncestryClosed
<1>4. History(i) = A[head[i]]
  BY DEF History
<1> HIDE DEF A
<1>5. N <= MaxRevisions /\ MaxRevisions \in Nat
  BY InstancesAssumption DEF CatalogFits
<1>6. History(i) \subseteq 1..head[i]
  BY <1>1, <1>3, <1>4
<1>7. 1..head[i] \subseteq 1..N /\ 1..N \subseteq Rev
  BY <1>1, <1>5 DEF Rev
<1>8. head[i] # 0 => head[i] \in History(i)
  BY <1>1, <1>3, <1>4
<1>9. head[i] = 0 => History(i) = {}
  BY <1>3, <1>4
<1>10. \A k \in History(i) : catalog[i][k].parent # 0 => catalog[i][k].parent \in History(i)
  BY <1>1, <1>3, <1>4
<1> QED
  BY <1>2, <1>6, <1>7, <1>8, <1>9, <1>10

\* What is in a catalog stays, and HEAD stays or moves to what was made from it.
Follows(i) ==
  /\ Len(catalog[i]) <= Len(catalog'[i])
  /\ \A k \in 1..Len(catalog[i]) : catalog'[i][k] = catalog[i][k]
  /\ head'[i] = head[i] \/ (head'[i] # 0 /\ catalog'[i][head'[i]].parent = head[i])

LEMMA HistoryMoves ==
  ASSUME TypeOK, TypeOK', NEW i \in Instance, CatalogFits(i), Backward(catalog'[i]), Follows(i)
  PROVE  History(i)' = IF head'[i] = head[i] THEN History(i) ELSE {head'[i]} \cup History(i)
<1> DEFINE N == Len(catalog[i])
           M == Len(catalog'[i])
           A == Ancestry(catalog[i])
           B == Ancestry(catalog'[i])
<1>1. N \in Nat /\ DOMAIN catalog[i] = 1..N /\ head[i] \in 0..N
  BY CatalogType
<1>2. M \in Nat /\ DOMAIN catalog'[i] = 1..M /\ head'[i] \in 0..M
  <2>1. catalog'[i] \in Seq(Revision) /\ head'[i] \in Nat /\ head'[i] <= M
    BY DEF TypeOK
  <2> QED
    BY <2>1
<1>3. Backward(catalog[i])
  BY HistoryFits
<1>4. N <= M /\ \A k \in 1..N : catalog'[i][k].parent = catalog[i][k].parent
  BY DEF Follows
<1>5. \A k \in 0..N : B[k] = A[k]
  BY <1>1, <1>2, <1>3, <1>4, AncestryGrows
<1>6. \A k \in 1..M : B[k] = {k} \cup B[catalog'[i][k].parent]
  BY <1>2, AncestryStep
<1>7. History(i) = A[head[i]] /\ History(i)' = B[head'[i]]
  BY DEF History
<1> HIDE DEF A, B
<1>8. B[head[i]] = A[head[i]]
  BY <1>1, <1>5
<1>9. CASE head'[i] = head[i]
  BY <1>7, <1>8, <1>9
<1>10. CASE head'[i] # head[i]
  <2>1. head'[i] \in 1..M /\ catalog'[i][head'[i]].parent = head[i]
    BY <1>2, <1>10 DEF Follows
  <2>2. B[head'[i]] = {head'[i]} \cup B[head[i]]
    BY <1>6, <2>1
  <2> QED
    BY <1>7, <1>8, <1>10, <2>2
<1> QED
  BY <1>9, <1>10

\* Of every instance, and what runs read is never written again.
Onward ==
  /\ \A i \in Instance : Follows(i) /\ Backward(catalog'[i])
  /\ \A r \in DOMAIN runs : r \in DOMAIN runs' /\ runs'[r].input = runs[r].input

\* What is committed, published and consumed stays so.
LEMMA FactsStay ==
  ASSUME TypeOK, TypeOK', \A i \in Instance : CatalogFits(i), Onward
  PROVE  /\ \A i \in Instance : History(i) \subseteq History(i)'
         /\ \A i \in Instance : \A k \in History(i) : catalog'[i][k] = catalog[i][k]
         /\ \A i \in Instance : \A k \in History(i)' : k \in History(i) \/ k = head'[i]
         /\ \A e \in Event : Committed(e) => Committed(e)' /\ At(e)' = At(e)
         /\ \A e \in Event : IsEvent(e) => IsEvent(e)'
         /\ \A e \in Event, to \in Instance : IsFor(e, to) => IsFor(e, to)'
         /\ \A i \in Instance, e \in Event : ConsumedAt(i, e) \subseteq ConsumedAt(i, e)'
<1>1. \A i \in Instance : History(i) \subseteq History(i)'
  BY HistoryMoves DEF Onward
<1>2. \A i \in Instance : \A k \in History(i) : catalog'[i][k] = catalog[i][k]
  BY HistoryFits DEF Onward, Follows
<1>3. \A i \in Instance : \A k \in History(i)' : k \in History(i) \/ k = head'[i]
  BY HistoryMoves DEF Onward
<1>4. \A e \in Event : Committed(e) => Committed(e)' /\ At(e)' = At(e)
  <2> SUFFICES ASSUME NEW e \in Event, Committed(e)
               PROVE  Committed(e)' /\ At(e)' = At(e)
    OBVIOUS
  <2>1. e.of \in Instance
    BY RecordShapes
  <2>2. e.rev \in History(e.of) /\ e.rev \in History(e.of)'
    BY <1>1, <2>1 DEF Committed
  <2>3. catalog'[e.of][e.rev] = catalog[e.of][e.rev]
    BY <1>2, <2>1, <2>2
  <2> QED
    BY <2>2, <2>3 DEF Committed, At
<1>5. \A e \in Event : IsEvent(e) => IsEvent(e)'
  BY <1>4 DEF IsEvent
<1>6. \A e \in Event, to \in Instance : IsFor(e, to) => IsFor(e, to)'
  BY <1>4, <1>5 DEF IsFor, IsEvent
<1>7. \A i \in Instance, e \in Event : ConsumedAt(i, e) \subseteq ConsumedAt(i, e)'
  <2> SUFFICES ASSUME NEW i \in Instance, NEW e \in Event, NEW k \in ConsumedAt(i, e)
               PROVE  k \in ConsumedAt(i, e)'
    OBVIOUS
  <2>1. k \in History(i) /\ e \in Consumed(catalog[i][k])
    BY DEF ConsumedAt
  <2>2. k \in History(i)' /\ catalog'[i][k] = catalog[i][k]
    BY <1>1, <1>2, <2>1
  <2>3. e \in Consumed(catalog'[i][k])
    BY <2>1, <2>2
  <2> QED
    BY <2>2, <2>3 DEF ConsumedAt
<1> QED
  BY <1>1, <1>2, <1>3, <1>4, <1>5, <1>6, <1>7

\* The products and their reclamation, and what operations and faults say.
RestTyped ==
  /\ halfMade \subseteq Instance
  /\ product \in [Run -> {"none", "here", "gone"}]
  /\ reclaim \in [Run -> {"none", "intent", "receipt"}]
  /\ journal \subseteq Plan /\ attempts \subseteq Attempt /\ calls \subseteq attempts
  /\ acks \subseteq [event : Event, to : Instance, rev : Rev]
  /\ op \in Operation \cup {None} /\ stale \in BOOLEAN /\ faults \in 0..MaxFaults

LEMMA AppendTyped ==
  ASSUME NEW S, NEW s \in Seq(S), NEW x \in S
  PROVE  /\ Append(s, x) \in Seq(S) /\ Len(Append(s, x)) = Len(s) + 1
         /\ Append(s, x)[Len(s) + 1] = x
         /\ \A k \in 1..Len(s) : Append(s, x)[k] = s[k]
         /\ DOMAIN Append(s, x) = 1..Len(s) + 1
OBVIOUS

LEMMA RunsGrow ==
  ASSUME TypeOK, NEW input \in Input, Started(input), Len(runs) < MaxRuns
  PROVE  /\ runs' \in Seq([input : Input, sealed : BOOLEAN])
         /\ Len(runs') = Len(runs) + 1 /\ DOMAIN runs' = DOMAIN runs \cup {Len(runs) + 1}
         /\ \A r \in DOMAIN runs : runs'[r] = runs[r]
         /\ runs'[Len(runs) + 1].input = input
         /\ Len(runs) + 1 \notin DOMAIN runs
<1> DEFINE Entry == [input : Input, sealed : BOOLEAN]
           x == [input |-> input, sealed |-> FALSE]
<1>1. runs \in Seq(Entry) /\ x \in Entry /\ x.input = input
  BY DEF TypeOK
<1>2. runs' = Append(runs, x)
  BY DEF Started
<1> HIDE DEF Entry, x
<1>3. Len(runs) \in Nat /\ DOMAIN runs = 1..Len(runs)
  BY <1>1
<1>4. /\ runs' \in Seq(Entry) /\ Len(runs') = Len(runs) + 1 /\ runs'[Len(runs) + 1] = x
      /\ \A k \in 1..Len(runs) : runs'[k] = runs[k]
      /\ DOMAIN runs' = 1..Len(runs) + 1
  BY <1>1, <1>2, AppendTyped
<1>5. DOMAIN runs' = DOMAIN runs \cup {Len(runs) + 1} /\ Len(runs) + 1 \notin DOMAIN runs
  BY <1>3, <1>4
<1> QED
  BY <1>1, <1>3, <1>4, <1>5 DEF Entry

LEMMA RunsSealed ==
  ASSUME TypeOK, NEW r \in DOMAIN runs, runs' = [runs EXCEPT ![r].sealed = TRUE]
  PROVE  /\ runs' \in Seq([input : Input, sealed : BOOLEAN]) /\ Len(runs') = Len(runs)
         /\ DOMAIN runs' = DOMAIN runs /\ \A s \in DOMAIN runs : runs'[s].input = runs[s].input
<1> DEFINE Entry == [input : Input, sealed : BOOLEAN]
<1>1. runs \in Seq(Entry) /\ Len(runs) \in Nat /\ DOMAIN runs = 1..Len(runs)
  BY DEF TypeOK
<1>2. \A s \in 1..Len(runs) : runs[s] \in Entry
  <2> HIDE DEF Entry
  <2> QED
    BY <1>1, ElementOfSeq
<1>3. \A s \in 1..Len(runs) : runs'[s] \in Entry /\ runs'[s].input = runs[s].input
  BY <1>1, <1>2
<1>4. DOMAIN runs' = 1..Len(runs)
  BY <1>1
<1> HIDE DEF Entry
<1>5. runs' = [s \in 1..Len(runs) |-> runs'[s]]
  BY <1>4, <1>1
<1>6. runs' \in Seq(Entry)
  <2>1. runs' \in [1..Len(runs) -> Entry]
    BY <1>3, <1>5
  <2> QED
    BY <1>1, <2>1
<1>7. Len(runs') = Len(runs)
  BY <1>1, <1>4, <1>6
<1> QED
  BY <1>1, <1>3, <1>4, <1>6, <1>7 DEF Entry

LEMMA CheckpointTyped ==
  ASSUME TypeOK, Len(runs) <= MaxRuns, NEW i \in Instance, CatalogFits(i), NEW expected \in History(i),
         NEW r \in DOMAIN runs, NEW manifest \in {None} \cup Offered,
         NEW checkpoint \in Prepare(i, expected, runs[r].input, manifest)
  PROVE  checkpoint \in Checkpoint \cup {None}
<1>1. runs[r].input \in Input /\ expected \in 1..Len(catalog[i]) /\ catalog[i][expected] \in Revision
  BY RunsType, HistoryFits, CatalogType
<1>2. Consumed(catalog[i][expected]) \subseteq Event
  BY <1>1, CheckpointType
<1>3. manifest = None => checkpoint = None
  BY DEF Prepare
<1>4. ASSUME manifest # None
      PROVE  checkpoint \in Checkpoint
  <2>1. manifest \in Manifest
    BY <1>4, OfferedType
  <2> DEFINE input == runs[r].input
             own == input = [kind |-> "state", of |-> i, rev |-> expected]
  <2>2. /\ checkpoint = [manifest |-> manifest,
                         consumed |-> Consumed(catalog[i][expected]) \cup IF own THEN {} ELSE {input.attempt.event}]
        /\ own \/ VerifyInput(i, expected, input)
    BY <1>4 DEF Prepare
  <2>3. ~own => input.attempt.event \in Event
    BY <2>2, <1>1, RecordShapes DEF VerifyInput
  <2> HIDE DEF own, input
  <2>4. Consumed(catalog[i][expected]) \cup (IF own THEN {} ELSE {input.attempt.event}) \subseteq Event
    BY <2>3, <1>2
  <2> QED
    BY <2>1, <2>2, <2>4 DEF Checkpoint
<1> QED
  BY <1>3, <1>4

LEMMA TypedParts == TypeOK => RestTyped
BY DEF TypeOK, RestTyped

\* What InitInstance, CommitStages and CommitMovesHead do to catalogs.
LEMMA CatalogBegins ==
  ASSUME StoreInv, NEW i \in Instance, InitInstance(i)
  PROVE  /\ catalog' \in [Instance -> Seq(Revision)] /\ head' \in [Instance -> Nat]
         /\ \A j \in Instance : head'[j] <= Len(catalog'[j])
         /\ \A j \in Instance \ {i} : catalog'[j] = catalog[j] /\ head'[j] = head[j]
         /\ catalog[i] = <<>> /\ head[i] = 0 /\ head'[i] = 1 /\ Len(catalog'[i]) = 1 /\ DOMAIN catalog'[i] = 1..1
         /\ catalog'[i][1] = [parent |-> 0, run |-> 0, checkpoint |-> None]
<1> DEFINE first == [parent |-> 0, run |-> 0, checkpoint |-> None]
<1>1. TypeOK /\ catalog' = [catalog EXCEPT ![i] = <<first>>] /\ head' = [head EXCEPT ![i] = 1] /\ head[i] = 0
  BY DEF StoreInv, InitInstance
<1>2. first \in Revision
  BY DEF Revision
<1>3. catalog[i] = <<>>
  BY <1>1 DEF StoreInv, CatalogFits
<1>4. catalog \in [Instance -> Seq(Revision)] /\ head \in [Instance -> Nat] /\ \A j \in Instance : head[j] <= Len(catalog[j])
  BY <1>1 DEF TypeOK
<1> HIDE DEF first
<1>5. <<first>> \in Seq(Revision) /\ Len(<<first>>) = 1 /\ <<first>>[1] = first /\ DOMAIN <<first>> = 1..1
  BY <1>2
<1>6. catalog'[i] = <<first>> /\ head'[i] = 1 /\ \A j \in Instance \ {i} : catalog'[j] = catalog[j] /\ head'[j] = head[j]
  BY <1>1, <1>4
<1>7. catalog' \in [Instance -> Seq(Revision)] /\ head' \in [Instance -> Nat]
  BY <1>1, <1>4, <1>5
<1>8. \A j \in Instance : head'[j] <= Len(catalog'[j])
  <2> TAKE j \in Instance
  <2>1. CASE j = i
    BY <1>5, <1>6, <2>1
  <2>2. CASE j # i
    BY <1>4, <1>6, <2>2
  <2> QED
    BY <2>1, <2>2
<1> QED
  BY <1>1, <1>3, <1>5, <1>6, <1>7, <1>8 DEF first

LEMMA CatalogStages ==
  ASSUME StoreInv, CommitStages
  PROVE  /\ op.plan \in Plan /\ op.plan.of \in Instance /\ op.plan.expected = head[op.plan.of]
         /\ catalog' \in [Instance -> Seq(Revision)] /\ head' = head
         /\ \A j \in Instance : head'[j] <= Len(catalog'[j])
         /\ \A j \in Instance \ {op.plan.of} : catalog'[j] = catalog[j]
         /\ Len(catalog'[op.plan.of]) = Len(catalog[op.plan.of]) + 1 /\ Len(catalog'[op.plan.of]) <= MaxRevisions
         /\ DOMAIN catalog'[op.plan.of] = 1..Len(catalog[op.plan.of]) + 1
         /\ \A k \in 1..Len(catalog[op.plan.of]) : catalog'[op.plan.of][k] = catalog[op.plan.of][k]
         /\ catalog'[op.plan.of][Len(catalog[op.plan.of]) + 1] = Planned(op.plan)
<1> DEFINE i == op.plan.of
<1>1. TypeOK /\ op # None /\ op.kind = "commit" /\ Len(catalog[i]) < MaxRevisions /\ head' = head
  BY DEF StoreInv, CommitStages, Doing
<1>2. op.plan \in Plan /\ i \in Instance /\ Planned(op.plan) \in Revision
  BY <1>1, OpShapes, PlanType
<1>3. op.plan.expected = head[i]
  BY <1>1 DEF StoreInv, CommitFits
<1>4. catalog' = [catalog EXCEPT ![i] = Append(catalog[i], Planned(op.plan))]
  BY DEF CommitStages, Planned
<1>5. catalog \in [Instance -> Seq(Revision)] /\ head \in [Instance -> Nat] /\ \A j \in Instance : head[j] <= Len(catalog[j])
  BY <1>1 DEF TypeOK
<1> HIDE DEF i
<1> DEFINE s == catalog[i]
           x == Planned(op.plan)
<1>6. s \in Seq(Revision) /\ x \in Revision
  BY <1>2, <1>5
<1> HIDE DEF x, s
<1>7. /\ Append(s, x) \in Seq(Revision) /\ Len(Append(s, x)) = Len(s) + 1
      /\ Append(s, x)[Len(s) + 1] = x
      /\ \A k \in 1..Len(s) : Append(s, x)[k] = s[k]
      /\ DOMAIN Append(s, x) = 1..Len(s) + 1
  BY <1>6, AppendTyped
<1>8. catalog'[i] = Append(s, x) /\ \A j \in Instance \ {i} : catalog'[j] = catalog[j]
  BY <1>2, <1>4, <1>5 DEF s, x
<1>9. catalog' \in [Instance -> Seq(Revision)]
  BY <1>2, <1>4, <1>5, <1>7 DEF s, x
<1>10. \A j \in Instance : head'[j] <= Len(catalog'[j])
  <2> TAKE j \in Instance
  <2>1. CASE j = i
    <3>1. head[i] <= Len(s) /\ Len(s) \in Nat /\ head[i] \in Nat
      BY <1>2, <1>5, <1>6 DEF s
    <3> QED
      BY <1>1, <1>7, <1>8, <2>1, <3>1
  <2>2. CASE j # i
    BY <1>1, <1>5, <1>8, <2>2
  <2> QED
    BY <2>1, <2>2
<1>11. Len(s) + 1 <= MaxRevisions
  <2>1. Len(s) \in Nat /\ MaxRevisions \in Nat
    BY <1>6, InstancesAssumption
  <2> QED
    BY <1>1, <2>1 DEF s, i
<1>12. /\ Len(catalog'[i]) = Len(catalog[i]) + 1 /\ Len(catalog'[i]) <= MaxRevisions
       /\ DOMAIN catalog'[i] = 1..Len(catalog[i]) + 1
       /\ \A k \in 1..Len(catalog[i]) : catalog'[i][k] = catalog[i][k]
       /\ catalog'[i][Len(catalog[i]) + 1] = Planned(op.plan)
  BY <1>7, <1>8, <1>11 DEF s, x
<1> QED
  BY <1>1, <1>2, <1>3, <1>8, <1>9, <1>10, <1>12 DEF i

LEMMA HeadMoves ==
  ASSUME StoreInv, CommitMovesHead
  PROVE  /\ op.plan \in Plan /\ op.plan.of \in Instance /\ op.plan.expected = head[op.plan.of]
         /\ catalog' = catalog /\ head' \in [Instance -> Nat]
         /\ \A j \in Instance : head'[j] <= Len(catalog'[j])
         /\ \A j \in Instance \ {op.plan.of} : head'[j] = head[j]
         /\ head'[op.plan.of] = Len(catalog[op.plan.of]) /\ head[op.plan.of] < Len(catalog[op.plan.of])
         /\ head[op.plan.of] # 0
         /\ catalog[op.plan.of][Len(catalog[op.plan.of])] = Planned(op.plan)
<1> DEFINE i == op.plan.of
<1>1. TypeOK /\ op # None /\ op.kind = "commit" /\ op.at = "head" /\ catalog' = catalog
  BY DEF StoreInv, CommitMovesHead, Doing
<1>2. op.plan \in Plan /\ i \in Instance /\ op.plan.expected \in Nat \ {0}
  BY <1>1, OpShapes, PlanType, RecordShapes
<1>3. /\ op.plan.expected = head[i] /\ op.plan.expected < Len(catalog[i])
      /\ catalog[i][Len(catalog[i])] = Planned(op.plan)
  BY <1>1 DEF StoreInv, CommitFits
<1>4. head' = [head EXCEPT ![i] = Len(catalog[i])]
  BY DEF CommitMovesHead
<1>5. catalog \in [Instance -> Seq(Revision)] /\ head \in [Instance -> Nat] /\ \A j \in Instance : head[j] <= Len(catalog[j])
  BY <1>1 DEF TypeOK
<1>6. Len(catalog[i]) \in Nat
  BY <1>1, <1>2, CatalogType
<1> HIDE DEF i
<1>7. head'[i] = Len(catalog[i]) /\ head' \in [Instance -> Nat] /\ \A j \in Instance \ {i} : head'[j] = head[j]
  BY <1>2, <1>4, <1>5, <1>6
<1>8. \A j \in Instance : head'[j] <= Len(catalog'[j])
  <2> TAKE j \in Instance
  <2>1. CASE j = i
    BY <1>1, <1>6, <1>7, <2>1
  <2>2. CASE j # i
    BY <1>1, <1>5, <1>7, <2>2
  <2> QED
    BY <2>1, <2>2
<1> QED
  BY <1>1, <1>2, <1>3, <1>7, <1>8 DEF i

\* The parts that do not speak of catalogs and runs.
LEMMA RestKept ==
  ASSUME StoreInv, [Next]_vars
  PROVE  RestTyped'
<1>1. TypeOK /\ RestTyped /\ Len(runs) <= MaxRuns /\ \A i \in Instance : CatalogFits(i)
  BY TypedParts DEF StoreInv
<1>2. \A n \in 0..MaxFaults : n < MaxFaults => n + 1 \in 0..MaxFaults
  BY InstancesAssumption
<1>3. ASSUME NEW i \in Instance, InitInstance(i) PROVE RestTyped'
  BY <1>1, <1>3 DEF InitInstance, RestTyped
<1>4. ASSUME NEW i \in Instance, InitIsCut(i) PROVE RestTyped'
  BY <1>1, <1>2, <1>4 DEF InitIsCut, RestTyped
<1>5. ASSUME NEW i \in Instance, NEW k \in DOMAIN catalog[i], RunState(i, k) PROVE RestTyped'
  BY <1>1, <1>5 DEF RunState, RestTyped
<1>6. ASSUME NEW i \in Instance, NEW r \in DOMAIN runs, NEW manifest \in {None} \cup Offered, CommitBegins(i, r, manifest)
      PROVE  RestTyped'
  <2>0. PICK expected \in History(i) :
          \E checkpoint \in Prepare(i, expected, runs[r].input, manifest) :
            LET plan == [of |-> i, expected |-> expected, run |-> r, checkpoint |-> checkpoint] IN
            /\ journal' = journal \cup {plan}
            /\ op' = [kind |-> "commit", at |-> "stage", plan |-> plan]
    BY <1>6 DEF CommitBegins
  <2>1. PICK checkpoint \in Prepare(i, expected, runs[r].input, manifest) :
          LET plan == [of |-> i, expected |-> expected, run |-> r, checkpoint |-> checkpoint] IN
          /\ journal' = journal \cup {plan}
          /\ op' = [kind |-> "commit", at |-> "stage", plan |-> plan]
    BY <2>0
  <2>2. checkpoint \in Checkpoint \cup {None} /\ expected \in Rev /\ r \in Run
    BY <1>1, CheckpointTyped, HistoryFits, RunsType
  <2> DEFINE plan == [of |-> i, expected |-> expected, run |-> r, checkpoint |-> checkpoint]
  <2>3. plan \in Plan
    BY <2>2 DEF Plan
  <2>4. journal' = journal \cup {plan} /\ op' = [kind |-> "commit", at |-> "stage", plan |-> plan]
    BY <2>1
  <2> HIDE DEF plan
  <2>5. op' \in Operation
    BY <2>3, <2>4 DEF Operation
  <2>6. UNCHANGED <<halfMade, product, reclaim, attempts, acks, calls, stale, faults>>
    BY <1>6 DEF CommitBegins
  <2> QED
    BY <1>1, <2>3, <2>4, <2>5, <2>6 DEF RestTyped
<1>7. ASSUME NEW r \in DOMAIN runs, RunSeals(r) PROVE RestTyped'
  BY <1>1, <1>7 DEF RunSeals, RestTyped
<1>8. CASE CommitStages
  <2>1. op # None /\ op.kind = "commit"
    BY <1>8 DEF CommitStages, Doing
  <2>2. op = [kind |-> "commit", at |-> op.at, plan |-> op.plan] /\ op.plan \in Plan /\ op.plan.run \in Run
    BY <1>1, <2>1, OpShapes, PlanType
  <2>3. op' = [op EXCEPT !.at = "head"]
    BY <1>8 DEF CommitStages
  <2>4. op' = [kind |-> "commit", at |-> "head", plan |-> op.plan]
    BY <2>2, <2>3
  <2>5. op' \in Operation
    BY <2>2, <2>4 DEF Operation
  <2>6. UNCHANGED <<halfMade, reclaim, journal, attempts, acks, calls, stale, faults>>
    BY <1>8 DEF CommitStages
  <2>7. product' \in [Run -> {"none", "here", "gone"}]
    BY <1>1, <1>8, <2>2 DEF CommitStages, RestTyped
  <2> QED
    BY <1>1, <2>5, <2>6, <2>7 DEF RestTyped
<1>9. CASE CommitMovesHead
  BY <1>1, <1>9 DEF CommitMovesHead, RestTyped
<1>10. ASSUME NEW e \in Events, ReclaimBegins(e) PROVE RestTyped'
  <2>1. e \in Event /\ IsEvent(e)
    BY <1>10 DEF Events, ReclaimBegins
  <2>2. At(e).run \in Run
    <3>1. e.of \in Instance /\ e.rev \in History(e.of)
      BY <2>1, RecordShapes DEF IsEvent, Committed
    <3>2. CatalogFits(e.of) /\ e.rev \in DOMAIN catalog[e.of]
      BY <1>1, <3>1, HistoryFits, CatalogType
    <3>3. catalog[e.of][e.rev].run \in DOMAIN runs
      BY <2>1, <3>2 DEF CatalogFits, RevisionFits, IsEvent, At
    <3> QED
      BY <1>1, <3>3, RunsType DEF At
  <2>3. /\ reclaim' = [reclaim EXCEPT ![At(e).run] = "intent"]
        /\ op' = [kind |-> "reclaim", at |-> "remove", run |-> At(e).run]
        /\ UNCHANGED <<halfMade, product, journal, attempts, acks, calls, stale, faults>>
    BY <1>10 DEF ReclaimBegins
  <2>4. op' \in Operation
    BY <2>2, <2>3 DEF Operation
  <2> QED
    BY <1>1, <2>2, <2>3, <2>4 DEF RestTyped
<1>11. ASSUME NEW e \in Events, NEW to \in Instance, Acknowledge(e, to) PROVE RestTyped'
  <2>1. FirstAt(to, e) \in Rev
    <3>1. ConsumedAt(to, e) # {} /\ ConsumedAt(to, e) \subseteq Rev /\ Rev \subseteq Nat
      BY <1>1, <1>11, HistoryFits, RecordShapes DEF Acknowledge, ConsumedAt
    <3>2. \E m \in ConsumedAt(to, e) : \A j \in ConsumedAt(to, e) : m <= j
      BY <3>1, Smallest
    <3> QED
      BY <3>1, <3>2 DEF FirstAt
  <2>2. e \in Event
    BY DEF Events
  <2>3. /\ acks' = acks \cup {[event |-> e, to |-> to, rev |-> FirstAt(to, e)]}
        /\ UNCHANGED <<halfMade, product, reclaim, journal, attempts, calls, op, stale, faults>>
    BY <1>11 DEF Acknowledge
  <2> QED
    BY <1>1, <2>1, <2>2, <2>3 DEF RestTyped
<1>12. ASSUME NEW e \in Events, NEW to \in Instance, DeliverBegins(e, to) PROVE RestTyped'
  <2> DEFINE attempt == [event |-> e, to |-> to, expected |-> head[to]]
  <2>1. head[to] \in Rev
    <3>1. head[to] # 0
      BY <1>12 DEF DeliverBegins
    <3> QED
      BY <1>1, <3>1, HistoryFits
  <2>2. attempt \in Attempt
    BY <2>1 DEF Attempt, Events
  <2>3. /\ attempts' = attempts \cup {attempt} /\ calls' = calls \cup {attempt}
        /\ UNCHANGED <<halfMade, product, reclaim, journal, acks, op, stale, faults>>
    BY <1>12 DEF DeliverBegins
  <2> HIDE DEF attempt
  <2> QED
    BY <1>1, <2>2, <2>3 DEF RestTyped
<1>13. ASSUME NEW a \in calls, DeliverRuns(a) PROVE RestTyped'
  BY <1>1, <1>13 DEF DeliverRuns, RestTyped
<1>14. ASSUME NEW a \in calls, DeliverIsCut(a) PROVE RestTyped'
  BY <1>1, <1>2, <1>14 DEF DeliverIsCut, RestTyped
<1>15. CASE ReclaimRemoves
  <2>1. op # None /\ op.kind = "reclaim"
    BY <1>15 DEF ReclaimRemoves, Doing
  <2>2. op = [kind |-> "reclaim", at |-> op.at, run |-> op.run] /\ op.run \in Run
    BY <1>1, <2>1, OpShapes
  <2>3. op' = [op EXCEPT !.at = "receipt"] /\ product' = [product EXCEPT ![op.run] = "gone"]
        /\ UNCHANGED <<halfMade, reclaim, journal, attempts, acks, calls, stale, faults>>
    BY <1>15 DEF ReclaimRemoves
  <2>4. op' = [kind |-> "reclaim", at |-> "receipt", run |-> op.run]
    BY <2>2, <2>3
  <2>5. op' \in Operation
    BY <2>2, <2>4 DEF Operation
  <2> QED
    BY <1>1, <2>2, <2>3, <2>5 DEF RestTyped
<1>16. CASE ReclaimReceipt
  BY <1>1, <1>16 DEF ReclaimReceipt, RestTyped
<1>17. CASE OpIsCut
  BY <1>1, <1>2, <1>17 DEF OpIsCut, RestTyped
<1>18. CASE OperatorUnlocks
  BY <1>1, <1>18 DEF OperatorUnlocks, RestTyped
<1>19. CASE UNCHANGED vars
  BY <1>1, <1>19 DEF vars, RestTyped
<1> QED
  BY <1>3, <1>4, <1>5, <1>6, <1>7, <1>8, <1>9, <1>10, <1>11, <1>12, <1>13, <1>14, <1>15, <1>16,
     <1>17, <1>18, <1>19 DEF Next

LEMMA WhoPublishes ==
  ASSUME [Next]_vars
  PROVE  \/ UNCHANGED <<catalog, head>>
         \/ \E i \in Instance : InitInstance(i)
         \/ CommitStages \/ CommitMovesHead
BY DEF Next, vars, InitIsCut, RunState, RunSeals, CommitBegins, Acknowledge, DeliverBegins, DeliverRuns,
       DeliverIsCut, ReclaimBegins, ReclaimRemoves, ReclaimReceipt, OpIsCut, OperatorUnlocks

LEMMA WhoRuns ==
  ASSUME [Next]_vars
  PROVE  \/ runs' = runs
         \/ \E r \in DOMAIN runs : RunSeals(r)
         \/ \E i \in Instance : \E k \in DOMAIN catalog[i] : RunState(i, k)
         \/ \E a \in calls : DeliverRuns(a) /\ runs' # runs
BY DEF Next, vars, InitInstance, InitIsCut, CommitBegins, CommitStages, CommitMovesHead, Acknowledge,
       DeliverBegins, DeliverIsCut, ReclaimBegins, ReclaimRemoves, ReclaimReceipt, OpIsCut, OperatorUnlocks

LEMMA CatalogsTyped ==
  ASSUME StoreInv, [Next]_vars
  PROVE  /\ catalog' \in [Instance -> Seq(Revision)] /\ head' \in [Instance -> Nat]
         /\ \A i \in Instance : head'[i] <= Len(catalog'[i])
<1>1. CASE UNCHANGED <<catalog, head>>
  BY <1>1 DEF StoreInv, TypeOK
<1>2. ASSUME NEW i \in Instance, InitInstance(i)
      PROVE  /\ catalog' \in [Instance -> Seq(Revision)] /\ head' \in [Instance -> Nat]
             /\ \A j \in Instance : head'[j] <= Len(catalog'[j])
  BY <1>2, CatalogBegins
<1>3. CASE CommitStages
  <2>1. head' = head /\ head \in [Instance -> Nat]
    BY <1>3, CatalogStages DEF StoreInv, TypeOK
  <2> QED
    BY <1>3, <2>1, CatalogStages
<1>4. CASE CommitMovesHead
  <2>1. catalog' = catalog /\ catalog \in [Instance -> Seq(Revision)]
    BY <1>4, HeadMoves DEF StoreInv, TypeOK
  <2> QED
    BY <1>4, <2>1, HeadMoves
<1> QED
  BY <1>1, <1>2, <1>3, <1>4, WhoPublishes

\* A run of a delivery is of the attempt that is called.
Fresh(input) ==
  \/ input.kind = "state"
  \/ input.kind = "delivery" /\ input.attempt \in calls /\ calls' = calls \ {input.attempt}

LEMMA RunsGoOn ==
  ASSUME StoreInv, [Next]_vars
  PROVE  /\ runs' \in Seq([input : Input, sealed : BOOLEAN]) /\ Len(runs') <= MaxRuns
         /\ \A r \in DOMAIN runs : r \in DOMAIN runs' /\ runs'[r].input = runs[r].input
         /\ \/ DOMAIN runs' = DOMAIN runs
            \/ /\ DOMAIN runs' = DOMAIN runs \cup {Len(runs) + 1} /\ Len(runs) + 1 \notin DOMAIN runs
               /\ runs'[Len(runs) + 1].input \in Input /\ Fresh(runs'[Len(runs) + 1].input)
<1>1. TypeOK /\ Len(runs) <= MaxRuns /\ Len(runs) \in Nat /\ MaxRuns \in Nat /\ runs \in Seq([input : Input, sealed : BOOLEAN])
  BY RunsType, InstancesAssumption DEF StoreInv
<1>2. CASE runs' = runs
  BY <1>1, <1>2
<1>3. ASSUME NEW r \in DOMAIN runs, RunSeals(r)
      PROVE  /\ runs' \in Seq([input : Input, sealed : BOOLEAN]) /\ Len(runs') = Len(runs)
             /\ DOMAIN runs' = DOMAIN runs /\ \A s \in DOMAIN runs : runs'[s].input = runs[s].input
  <2>1. runs' = [runs EXCEPT ![r].sealed = TRUE]
    BY <1>3 DEF RunSeals
  <2> QED
    BY <1>1, <2>1, RunsSealed
<1>4. ASSUME NEW input \in Input, Started(input), Len(runs) < MaxRuns, Fresh(input)
      PROVE  /\ runs' \in Seq([input : Input, sealed : BOOLEAN]) /\ Len(runs') <= MaxRuns
             /\ \A r \in DOMAIN runs : r \in DOMAIN runs' /\ runs'[r].input = runs[r].input
             /\ DOMAIN runs' = DOMAIN runs \cup {Len(runs) + 1} /\ Len(runs) + 1 \notin DOMAIN runs
             /\ runs'[Len(runs) + 1].input \in Input /\ Fresh(runs'[Len(runs) + 1].input)
  <2>1. /\ runs' \in Seq([input : Input, sealed : BOOLEAN])
        /\ Len(runs') = Len(runs) + 1 /\ DOMAIN runs' = DOMAIN runs \cup {Len(runs) + 1}
        /\ \A r \in DOMAIN runs : runs'[r] = runs[r]
        /\ runs'[Len(runs) + 1].input = input
        /\ Len(runs) + 1 \notin DOMAIN runs
    BY <1>1, <1>4, RunsGrow
  <2>2. Len(runs') <= MaxRuns
    BY <1>1, <1>4, <2>1
  <2> QED
    BY <1>4, <2>1, <2>2
<1>5. ASSUME NEW i \in Instance, NEW k \in DOMAIN catalog[i], RunState(i, k)
      PROVE  \E input \in Input : Started(input) /\ Len(runs) < MaxRuns /\ Fresh(input)
  <2> DEFINE input == [kind |-> "state", of |-> i, rev |-> k]
  <2>1. k \in Rev /\ Started(input) /\ Len(runs) < MaxRuns
    BY <1>1, <1>5, HistoryFits DEF StoreInv, RunState
  <2>2. input \in Input /\ Fresh(input)
    BY <2>1 DEF Input, Fresh
  <2> QED
    BY <2>1, <2>2
<1>6. ASSUME NEW a \in calls, DeliverRuns(a), runs' # runs
      PROVE  \E input \in Input : Started(input) /\ Len(runs) < MaxRuns /\ Fresh(input)
  <2> DEFINE input == [kind |-> "delivery", attempt |-> a]
  <2>1. a \in Attempt
    BY <1>1 DEF TypeOK
  <2>2. Started(input) /\ Len(runs) < MaxRuns /\ calls' = calls \ {a}
    BY <1>6 DEF DeliverRuns
  <2>3. input \in Input /\ Fresh(input)
    BY <2>1, <2>2 DEF Input, Fresh
  <2> QED
    BY <2>2, <2>3
<1>7. CASE \E r \in DOMAIN runs : RunSeals(r)
  BY <1>1, <1>3, <1>7
<1>8. CASE \E input \in Input : Started(input) /\ Len(runs) < MaxRuns /\ Fresh(input)
  BY <1>4, <1>8
<1> QED
  BY <1>2, <1>5, <1>6, <1>7, <1>8, WhoRuns

LEMMA StoreTypes ==
  ASSUME StoreInv, [Next]_vars
  PROVE  TypeOK' /\ Len(runs') <= MaxRuns
BY RestKept, CatalogsTyped, RunsGoOn DEF TypeOK, RestTyped

LEMMA FollowsTyped ==
  ASSUME StoreInv, NEW i \in Instance, catalog'[i] = catalog[i], head'[i] = head[i]
  PROVE  Follows(i) /\ Backward(catalog'[i]) /\ Len(catalog'[i]) <= MaxRevisions /\ (head'[i] = 0 => catalog'[i] = <<>>)
<1>1. TypeOK /\ CatalogFits(i)
  BY DEF StoreInv
<1>2. Backward(catalog[i]) /\ Len(catalog[i]) \in Nat
  BY <1>1, HistoryFits, CatalogType
<1>3. Len(catalog'[i]) = Len(catalog[i])
  OBVIOUS
<1>4. Follows(i)
  BY <1>2, <1>3 DEF Follows
<1>5. Len(catalog[i]) <= MaxRevisions /\ (head[i] = 0 => catalog[i] = <<>>)
  BY <1>1 DEF CatalogFits
<1> QED
  BY <1>2, <1>3, <1>4, <1>5

LEMMA StoreOnward ==
  ASSUME StoreInv, [Next]_vars
  PROVE  Onward /\ \A i \in Instance : Len(catalog'[i]) <= MaxRevisions /\ (head'[i] = 0 => catalog'[i] = <<>>)
<1> DEFINE Good(j) == Follows(j) /\ Backward(catalog'[j]) /\ Len(catalog'[j]) <= MaxRevisions /\ (head'[j] = 0 => catalog'[j] = <<>>)
<1>0. TypeOK /\ \A j \in Instance : CatalogFits(j)
  BY DEF StoreInv
<1>1. CASE UNCHANGED <<catalog, head>>
  <2>1. \A j \in Instance : Good(j)
    BY <1>1, FollowsTyped
  <2> QED
    BY <2>1, RunsGoOn DEF Onward
<1>2. ASSUME NEW i \in Instance, InitInstance(i)
      PROVE  \A j \in Instance : Good(j)
  <2>1. \A j \in Instance \ {i} : Good(j)
    BY <1>2, CatalogBegins, FollowsTyped
  <2>2. Good(i)
    <3>1. /\ catalog[i] = <<>> /\ head[i] = 0 /\ head'[i] = 1 /\ Len(catalog'[i]) = 1 /\ DOMAIN catalog'[i] = 1..1
          /\ catalog'[i][1] = [parent |-> 0, run |-> 0, checkpoint |-> None]
      BY <1>2, CatalogBegins
    <3>2. Backward(catalog'[i])
      BY <3>1 DEF Backward
    <3>3. Follows(i)
      <4>1. Len(catalog[i]) = 0 /\ catalog'[i][1].parent = 0
        BY <3>1
      <4> QED
        BY <3>1, <4>1 DEF Follows
    <3> QED
      BY <3>1, <3>2, <3>3, InstancesAssumption
  <2> QED
    BY <2>1, <2>2
<1>3. ASSUME CommitStages
      PROVE  \A j \in Instance : Good(j)
  <2> DEFINE i == op.plan.of
             N == Len(catalog[i])
  <2>1. /\ op.plan \in Plan /\ i \in Instance /\ op.plan.expected = head[i] /\ head' = head
        /\ \A j \in Instance \ {i} : catalog'[j] = catalog[j]
        /\ Len(catalog'[i]) = N + 1 /\ Len(catalog'[i]) <= MaxRevisions
        /\ DOMAIN catalog'[i] = 1..N + 1
        /\ \A k \in 1..N : catalog'[i][k] = catalog[i][k]
        /\ catalog'[i][N + 1] = Planned(op.plan)
    BY <1>3, CatalogStages
  <2>2. \A j \in Instance \ {i} : Good(j)
    BY <2>1, FollowsTyped
  <2>3. N \in Nat /\ DOMAIN catalog[i] = 1..N /\ Backward(catalog[i]) /\ head[i] \in 0..N
    BY <1>0, <2>1, HistoryFits, CatalogType
  <2>4. head[i] # 0
    BY <2>1, PlanType, RecordShapes
  <2>5. Backward(catalog'[i])
    <3> SUFFICES ASSUME NEW k \in 1..N + 1
                 PROVE  catalog'[i][k].parent \in 0..k-1
      BY <2>1 DEF Backward
    <3>1. CASE k \in 1..N
      BY <2>1, <2>3, <3>1 DEF Backward
    <3>2. CASE k = N + 1
      <4>1. catalog'[i][k].parent = head[i]
        BY <2>1, <3>2 DEF Planned
      <4> QED
        BY <2>3, <3>2, <4>1
    <3>3. k \in 1..N \/ k = N + 1
      <4>1. N \in Nat
        BY <2>3
      <4> HIDE DEF N
      <4> QED
        BY <4>1
    <3> QED
      BY <3>1, <3>2, <3>3
  <2>6. Follows(i)
    <3>1. N <= Len(catalog'[i]) /\ head'[i] = head[i]
      BY <2>1, <2>3
    <3> QED
      BY <2>1, <3>1 DEF Follows
  <2> QED
    BY <2>1, <2>2, <2>4, <2>5, <2>6
<1>4. ASSUME CommitMovesHead
      PROVE  \A j \in Instance : Good(j)
  <2> DEFINE i == op.plan.of
  <2>1. /\ i \in Instance /\ op.plan.expected = head[i] /\ catalog' = catalog
        /\ \A j \in Instance \ {i} : head'[j] = head[j]
        /\ head'[i] = Len(catalog[i]) /\ head[i] < Len(catalog[i])
        /\ catalog[i][Len(catalog[i])] = Planned(op.plan)
    BY <1>4, HeadMoves
  <2>2. \A j \in Instance \ {i} : Good(j)
    BY <2>1, FollowsTyped
  <2>3. Backward(catalog[i]) /\ Len(catalog[i]) \in Nat /\ head[i] \in Nat /\ Len(catalog[i]) <= MaxRevisions
    BY <1>0, <2>1, HistoryFits, CatalogType DEF CatalogFits
  <2>4. catalog'[i][head'[i]].parent = head[i]
    BY <2>1 DEF Planned
  <2>5. Follows(i)
    BY <2>1, <2>3, <2>4 DEF Follows
  <2> QED
    BY <2>1, <2>2, <2>3, <2>5
<1> HIDE DEF Good
<1>5. \A j \in Instance : Good(j)
  <2>1. CASE UNCHANGED <<catalog, head>>
    BY <1>1, <2>1, FollowsTyped DEF Good
  <2> QED
    BY <1>2, <1>3, <1>4, <2>1, WhoPublishes
<1>6. \A r \in DOMAIN runs : r \in DOMAIN runs' /\ runs'[r].input = runs[r].input
  BY RunsGoOn
<1> QED
  BY <1>5, <1>6 DEF Good, Onward

\* What each step may use.
Stays ==
  /\ TypeOK /\ TypeOK' /\ (\A i \in Instance : CatalogFits(i)) /\ Onward

LEMMA StoreStays ==
  ASSUME StoreInv, [Next]_vars
  PROVE  Stays
BY StoreTypes, StoreOnward DEF Stays, StoreInv

LEMMA AddsStay ==
  ASSUME Stays, NEW i \in Instance, NEW rev \in Revision, NEW previous, rev.run \in DOMAIN runs, Adds(i, rev, previous)
  PROVE  Adds(i, rev, previous)'
<1>1. \A e \in Event, to \in Instance : IsFor(e, to) => IsFor(e, to)'
  BY FactsStay DEF Stays
<1>2. runs'[rev.run].input = runs[rev.run].input
  BY DEF Stays, Onward
<1>3. Consumed(rev) \subseteq Event
  BY CheckpointType
<1> QED
  BY <1>1, <1>2, <1>3 DEF Adds

LEMMA RevisionStays ==
  ASSUME Stays, NEW i \in Instance, NEW k \in 1..Len(catalog[i])
  PROVE  RevisionFits(i, k)'
<1> DEFINE N == Len(catalog[i])
<1>1. /\ N \in Nat /\ DOMAIN catalog[i] = 1..N /\ \A j \in 1..N : catalog[i][j] \in Revision
      /\ \A j \in 1..N : catalog'[i][j] = catalog[i][j]
  BY CatalogType DEF Stays, Onward, Follows
<1>2. PICK rev \in Revision : rev = catalog[i][k] /\ rev = catalog'[i][k]
  BY <1>1
<1>3. RevisionFits(i, k)
  BY <1>1 DEF Stays, CatalogFits
<1>4. rev.parent = 0 => rev.run = 0 /\ rev.checkpoint = None
  BY <1>2, <1>3 DEF RevisionFits
<1>5. ASSUME rev.parent # 0
      PROVE  /\ rev.parent < k
             /\ rev.run \in DOMAIN runs' /\ Binds(runs'[rev.run].input, i, rev.parent)
             /\ Adds(i, rev, catalog[i][rev.parent])'
  <2>1. PICK previous : previous = catalog[i][rev.parent]
    OBVIOUS
  <2>2. /\ rev.parent < k /\ rev.run \in DOMAIN runs /\ Binds(runs[rev.run].input, i, rev.parent)
        /\ Adds(i, rev, previous)
    BY <1>2, <1>3, <1>5, <2>1 DEF RevisionFits
  <2>3. Adds(i, rev, previous)'
    BY <2>2, AddsStay
  <2>4. rev.run \in DOMAIN runs' /\ runs'[rev.run].input = runs[rev.run].input
    BY <2>2 DEF Stays, Onward
  <2>5. rev.parent \in 1..N
    BY <1>1, <1>5, <2>2, CheckpointType
  <2>6. previous = catalog'[i][rev.parent]
    BY <1>1, <2>1, <2>5
  <2> QED
    BY <2>2, <2>3, <2>4, <2>6
<1> QED
  BY <1>2, <1>4, <1>5 DEF RevisionFits

LEMMA CatalogStaysFit ==
  ASSUME StoreInv, [Next]_vars, NEW i \in Instance
  PROVE  CatalogFits(i)'
<1> DEFINE N == Len(catalog[i])
<1>1. Stays /\ Len(catalog'[i]) <= MaxRevisions /\ (head'[i] = 0 => catalog'[i] = <<>>)
  BY StoreStays, StoreOnward
<1>2. N \in Nat /\ DOMAIN catalog[i] = 1..N /\ \A k \in 1..N : RevisionFits(i, k)'
  BY <1>1, CatalogType, RevisionStays DEF Stays
<1>3. \A k \in DOMAIN catalog'[i] : k \in 1..N \/ RevisionFits(i, k)'
  <2>1. CASE catalog'[i] = catalog[i]
    BY <1>2, <2>1
  <2>2. ASSUME NEW j \in Instance, InitInstance(j), j = i
        PROVE  \A k \in DOMAIN catalog'[i] : RevisionFits(i, k)'
    <3>1. DOMAIN catalog'[i] = 1..1 /\ catalog'[i][1] = [parent |-> 0, run |-> 0, checkpoint |-> None]
      BY <2>2, CatalogBegins
    <3>2. /\ catalog'[i][1].parent = 0 /\ catalog'[i][1].run = 0 /\ catalog'[i][1].checkpoint = None
      BY <3>1
    <3> QED
      BY <3>1, <3>2 DEF RevisionFits
  <2>3. ASSUME CommitStages, op.plan.of = i
        PROVE  \A k \in DOMAIN catalog'[i] : k \in 1..N \/ RevisionFits(i, k)'
    <3> DEFINE plan == op.plan
    <3>1. /\ plan \in Plan /\ plan.expected = head[i]
          /\ DOMAIN catalog'[i] = 1..N + 1 /\ \A k \in 1..N : catalog'[i][k] = catalog[i][k]
          /\ catalog'[i][N + 1] = Planned(plan)
      BY <2>3, CatalogStages
    <3>2. /\ plan.run \in DOMAIN runs /\ Binds(runs[plan.run].input, i, plan.expected)
          /\ Adds(i, Planned(plan), catalog[i][plan.expected])
      BY <2>3 DEF CommitStages, Doing, StoreInv, CommitFits
    <3>3. plan.expected \in 1..N /\ Planned(plan) \in Revision
      <4>1. plan.expected \in Rev /\ head[i] \in 0..N
        BY <1>1, <3>1, PlanType, CatalogType DEF Stays
      <4> QED
        BY <1>2, <3>1, <4>1, PlanType, RecordShapes
    <3>4. PICK previous, rev \in Revision :
            /\ previous = catalog[i][plan.expected] /\ previous = catalog'[i][plan.expected]
            /\ rev = Planned(plan)
      BY <1>2, <3>1, <3>3, CatalogType, <1>1 DEF Stays
    <3>5. rev.parent = plan.expected /\ rev.run = plan.run
      BY <3>4 DEF Planned
    <3>6. Adds(i, rev, previous)'
      BY <1>1, <3>2, <3>4, <3>5, AddsStay
    <3>7. rev.run \in DOMAIN runs' /\ Binds(runs'[rev.run].input, i, rev.parent)
      BY <1>1, <3>2, <3>5 DEF Stays, Onward
    <3>8. rev.parent # 0 /\ rev.parent < N + 1 /\ previous = catalog'[i][rev.parent] /\ rev = catalog'[i][N + 1]
      BY <1>2, <3>1, <3>3, <3>4, <3>5
    <3>9. ASSUME NEW n \in 1..N + 1, n = N + 1
          PROVE  RevisionFits(i, n)'
      BY <3>6, <3>7, <3>8, <3>9 DEF RevisionFits
    <3>10. \A k \in 1..N + 1 : k \in 1..N \/ k = N + 1
      BY <1>2
    <3> QED
      BY <3>1, <3>9, <3>10
  <2>4. CASE CommitMovesHead
    BY <2>1, <2>4, HeadMoves
  <2> QED
    BY <2>1, <2>2, <2>3, <2>4, WhoPublishes, CatalogBegins, CatalogStages
<1> QED
  BY <1>1, <1>2, <1>3 DEF CatalogFits

LEMMA OneLineStays ==
  ASSUME StoreInv, [Next]_vars, NEW i \in Instance
  PROVE  OneLine(i)'
<1>1. Stays /\ Follows(i) /\ OneLine(i)
  BY StoreStays DEF Stays, Onward, StoreInv
<1>2. /\ History(i) \subseteq 1..head[i] /\ head[i] \in Nat
      /\ \A k \in History(i) : catalog'[i][k] = catalog[i][k]
  BY <1>1, HistoryFits, FactsStay, CatalogType DEF Stays
<1>3. CASE head'[i] = head[i]
  <2>1. History(i)' = History(i)
    BY <1>1, <1>3, HistoryMoves DEF Stays, Onward
  <2> QED
    BY <1>1, <1>2, <2>1 DEF OneLine
<1>4. CASE head'[i] # head[i]
  <2> DEFINE h == head'[i]
  <2>1. History(i)' = {h} \cup History(i)
    BY <1>1, <1>4, HistoryMoves DEF Stays, Onward
  <2>2. catalog'[i][h].parent = head[i] /\ h # 0
    BY <1>1, <1>4 DEF Follows
  <2>3. h \in Nat /\ head[i] < h
    <3>1. h \in Nat /\ h <= Len(catalog'[i]) /\ catalog'[i] \in Seq(Revision)
      BY <1>1 DEF Stays, TypeOK
    <3>2. h \in DOMAIN catalog'[i]
      BY <2>2, <3>1
    <3> QED
      BY <1>1, <1>2, <2>2, <3>1, <3>2 DEF Stays, Onward, Backward
  <2> SUFFICES ASSUME NEW k \in {h} \cup History(i), NEW l \in {h} \cup History(i), k < l
               PROVE  k <= catalog'[i][l].parent
    BY <2>1 DEF OneLine
  <2>4. CASE l = h
    BY <1>2, <2>2, <2>3, <2>4
  <2>5. CASE l \in History(i)
    <3>1. k \in History(i)
      BY <1>2, <2>3, <2>5
    <3> QED
      BY <1>1, <1>2, <2>5, <3>1 DEF OneLine
  <2> QED
    BY <2>4, <2>5
<1> QED
  BY <1>3, <1>4

LEMMA AcksStayFit ==
  ASSUME StoreInv, [Next]_vars
  PROVE  AcksFit'
<1>1. Stays /\ AcksFit /\ TypeOK
  BY StoreStays DEF StoreInv
<1>2. \A i \in Instance : History(i) \subseteq History(i)' /\ \A k \in History(i) : catalog'[i][k] = catalog[i][k]
  BY <1>1, FactsStay DEF Stays
<1>3. \A ack \in acks : ack.rev \in History(ack.to)' /\ ack.event \in Consumed(catalog'[ack.to][ack.rev])
  <2> TAKE ack \in acks
  <2>1. ack.to \in Instance /\ ack.rev \in History(ack.to) /\ ack.event \in Consumed(catalog[ack.to][ack.rev])
    BY <1>1 DEF TypeOK, AcksFit
  <2>2. catalog'[ack.to][ack.rev] = catalog[ack.to][ack.rev]
    BY <1>2, <2>1
  <2>3. ack.event \in Consumed(catalog'[ack.to][ack.rev])
    BY <2>1, <2>2
  <2> QED
    BY <1>2, <2>1, <2>3
<1>4. ASSUME NEW e \in Events, NEW to \in Instance, Acknowledge(e, to)
      PROVE  AcksFit'
  <2>1. FirstAt(to, e) \in ConsumedAt(to, e)
    <3>1. ConsumedAt(to, e) # {} /\ ConsumedAt(to, e) \subseteq Nat
      BY <1>1, <1>4, HistoryFits, RecordShapes DEF Stays, Acknowledge, ConsumedAt
    <3>2. \E m \in ConsumedAt(to, e) : \A j \in ConsumedAt(to, e) : m <= j
      BY <3>1, Smallest
    <3> QED
      BY <3>2 DEF FirstAt
  <2>2. FirstAt(to, e) \in History(to) /\ e \in Consumed(catalog[to][FirstAt(to, e)])
    BY <2>1 DEF ConsumedAt
  <2>3. PICK n : n = FirstAt(to, e)
    OBVIOUS
  <2>4. n \in History(to)' /\ catalog'[to][n] = catalog[to][n] /\ e \in Consumed(catalog[to][n])
    BY <1>2, <2>2, <2>3
  <2>5. e \in Consumed(catalog'[to][n])
    BY <2>4
  <2>6. acks' = acks \cup {[event |-> e, to |-> to, rev |-> n]}
    BY <1>4, <2>3 DEF Acknowledge
  <2> QED
    BY <1>3, <2>4, <2>5, <2>6 DEF AcksFit
<1>5. CASE acks' = acks
  BY <1>3, <1>5 DEF AcksFit
<1>6. acks' = acks \/ \E e \in Events : \E to \in Instance : Acknowledge(e, to)
  BY DEF Next, vars, InitInstance, InitIsCut, RunState, RunSeals, CommitBegins, CommitStages, CommitMovesHead,
         DeliverBegins, DeliverRuns, DeliverIsCut, ReclaimBegins, ReclaimRemoves, ReclaimReceipt, OpIsCut, OperatorUnlocks
<1> QED
  BY <1>4, <1>5, <1>6

LEMMA WhoAttempts ==
  ASSUME [Next]_vars
  PROVE  \/ UNCHANGED <<attempts, calls>>
         \/ \E e \in Events : \E to \in Instance : DeliverBegins(e, to)
         \/ \E a \in calls : attempts' = attempts /\ calls' = calls \ {a}
BY DEF Next, vars, InitInstance, InitIsCut, RunState, RunSeals, CommitBegins, CommitStages, CommitMovesHead, Acknowledge,
       DeliverRuns, DeliverIsCut, ReclaimBegins, ReclaimRemoves, ReclaimReceipt, OpIsCut, OperatorUnlocks

LEMMA AttemptsStayFit ==
  ASSUME StoreInv, [Next]_vars
  PROVE  AttemptsFit'
<1>1. TypeOK /\ AttemptsFit /\ calls \subseteq attempts
  BY DEF StoreInv, TypeOK
<1>2. \A r \in DOMAIN runs : r \in DOMAIN runs' /\ runs'[r].input = runs[r].input
  BY RunsGoOn
<1>3. \A a, b \in attempts' : a.event = b.event /\ a.to = b.to => a = b
  <2>1. ASSUME NEW e \in Events, NEW to \in Instance, DeliverBegins(e, to)
        PROVE  \A a, b \in attempts' : a.event = b.event /\ a.to = b.to => a = b
    <3> DEFINE attempt == [event |-> e, to |-> to, expected |-> head[to]]
    <3>1. attempts' = attempts \cup {attempt} /\ \A a \in attempts : ~(a.event = e /\ a.to = to)
      BY <2>1 DEF DeliverBegins, Attempted
    <3>2. attempt.event = e /\ attempt.to = to
      OBVIOUS
    <3> HIDE DEF attempt
    <3> QED
      BY <1>1, <3>1, <3>2 DEF AttemptsFit
  <2>2. CASE attempts' = attempts
    BY <1>1, <2>2 DEF AttemptsFit
  <2> QED
    BY <2>1, <2>2, WhoAttempts
<1>4. attempts \subseteq attempts' /\ \A a \in calls' : a \in calls \/ a \notin attempts
  <2>1. ASSUME NEW e \in Events, NEW to \in Instance, DeliverBegins(e, to)
        PROVE  attempts \subseteq attempts' /\ \A a \in calls' : a \in calls \/ a \notin attempts
    <3> DEFINE attempt == [event |-> e, to |-> to, expected |-> head[to]]
    <3>1. attempts' = attempts \cup {attempt} /\ calls' = calls \cup {attempt} /\ \A a \in attempts : ~(a.event = e /\ a.to = to)
      BY <2>1 DEF DeliverBegins, Attempted
    <3>2. attempt.event = e /\ attempt.to = to
      OBVIOUS
    <3> HIDE DEF attempt
    <3> QED
      BY <3>1, <3>2
  <2> QED
    BY <2>1, WhoAttempts
<1>5. \A r \in DOMAIN runs : runs[r].input.kind = "delivery" => runs[r].input.attempt \in attempts' \ calls'
  BY <1>1, <1>4 DEF AttemptsFit
<1>6. CASE DOMAIN runs' = DOMAIN runs
  BY <1>1, <1>2, <1>3, <1>5, <1>6 DEF AttemptsFit
<1>7. ASSUME NEW n, DOMAIN runs' = DOMAIN runs \cup {n}, n \notin DOMAIN runs,
             runs'[n].input \in Input, Fresh(runs'[n].input)
      PROVE  AttemptsFit'
  <2>1. runs'[n].input.kind = "delivery" =>
          runs'[n].input.attempt \in calls /\ runs'[n].input.attempt \notin calls'
    BY <1>7 DEF Fresh
  <2>2. \A r \in DOMAIN runs : /\ runs'[r].input = runs[r].input
                               /\ runs[r].input.kind = "delivery" => runs[r].input.attempt \notin calls
    BY <1>1, <1>2 DEF AttemptsFit
  <2>3. \A r \in DOMAIN runs' : runs'[r].input.kind = "delivery" => runs'[r].input.attempt \in attempts' \ calls'
    <3>1. runs'[n].input.kind = "delivery" => runs'[n].input.attempt \in attempts' \ calls'
      BY <1>1, <1>4, <2>1
    <3> QED
      BY <1>5, <1>7, <2>2, <3>1
  <2>4. ASSUME NEW r \in DOMAIN runs', NEW s \in DOMAIN runs',
               runs'[r].input.kind = "delivery", runs'[s].input.kind = "delivery",
               runs'[r].input.attempt = runs'[s].input.attempt
        PROVE  r = s
    <3>1. CASE r = n /\ s # n
      BY <1>7, <2>1, <2>2, <2>4, <3>1
    <3>2. CASE r # n /\ s = n
      BY <1>7, <2>1, <2>2, <2>4, <3>2
    <3>3. CASE r # n /\ s # n
      <4>1. r \in DOMAIN runs /\ s \in DOMAIN runs
        BY <1>7, <3>3
      <4> QED
        BY <1>1, <2>2, <2>4, <4>1 DEF AttemptsFit
    <3> QED
      BY <3>1, <3>2, <3>3
  <2> QED
    BY <1>3, <2>3, <2>4 DEF AttemptsFit
<1> QED
  BY <1>6, <1>7, RunsGoOn

LEMMA WhoOperates ==
  ASSUME [Next]_vars
  PROVE  \/ op' = None
         \/ op' = op /\ UNCHANGED <<catalog, head, product>>
         \/ \E i \in Instance : \E r \in DOMAIN runs, manifest \in {None} \cup Offered : CommitBegins(i, r, manifest)
         \/ CommitStages
         \/ \E e \in Events : ReclaimBegins(e)
         \/ ReclaimRemoves
BY DEF Next, vars, InitInstance, InitIsCut, RunState, RunSeals, CommitMovesHead, Acknowledge, Free,
       DeliverBegins, DeliverRuns, DeliverIsCut, ReclaimReceipt, OpIsCut, OperatorUnlocks

\* A checkpoint is prepared of what the state had and what the run was given.
LEMMA PrepareAdds ==
  ASSUME TypeOK, Len(runs) <= MaxRuns, NEW i \in Instance, CatalogFits(i), NEW expected \in History(i),
         NEW r \in DOMAIN runs, NEW manifest \in {None} \cup Offered,
         NEW checkpoint \in Prepare(i, expected, runs[r].input, manifest),
         NEW plan, plan = [of |-> i, expected |-> expected, run |-> r, checkpoint |-> checkpoint]
  PROVE  /\ Binds(runs[r].input, i, expected)
         /\ Adds(i, Planned(plan), catalog[i][expected])
         /\ \A e \in Refs(Planned(plan)) : Available(e)
<1> DEFINE input == runs[r].input
           previous == catalog[i][expected]
           own == input = [kind |-> "state", of |-> i, rev |-> expected]
           rev == Planned(plan)
<1>1. rev.parent = expected /\ rev.run = r /\ rev.checkpoint = checkpoint
  BY DEF Planned
<1>2. CASE manifest = None
  <2>1. previous.checkpoint = None /\ own /\ checkpoint = None
    BY <1>2 DEF Prepare
  <2>2. Consumed(rev) = {} /\ Refs(rev) = {} /\ Consumed(previous) = {}
    BY <1>1, <2>1 DEF Consumed, Refs
  <2> QED
    BY <1>1, <2>1, <2>2 DEF Adds, Binds
<1>3. CASE manifest # None
  <2>1. /\ \A e \in manifest.refs : Available(e)
        /\ own \/ VerifyInput(i, expected, input)
        /\ checkpoint = [manifest |-> manifest,
                         consumed |-> Consumed(previous) \cup IF own THEN {} ELSE {input.attempt.event}]
    BY <1>3 DEF Prepare
  <2>2. checkpoint # None
    <3>1. checkpoint \in Checkpoint \cup {None}
      BY CheckpointTyped
    <3>2. manifest \in Manifest
      BY <1>3, OfferedType
    <3>3. Consumed(previous) \cup (IF own THEN {} ELSE {input.attempt.event}) \subseteq Event
      <4>1. input \in Input /\ previous \in Revision
        BY RunsType, HistoryFits, CatalogType
      <4>2. Consumed(previous) \subseteq Event
        BY <4>1, CheckpointType
      <4>3. ~own => input.attempt.event \in Event
        BY <2>1, <4>1, RecordShapes DEF VerifyInput
      <4> HIDE DEF own, input, previous
      <4> QED
        BY <4>2, <4>3
    <3>4. checkpoint \in Checkpoint
      BY <2>1, <3>2, <3>3 DEF Checkpoint
    <3> QED
      BY <3>4, InstancesAssumption
  <2>3. /\ Refs(rev) = manifest.refs
        /\ Consumed(rev) = Consumed(previous) \cup IF own THEN {} ELSE {input.attempt.event}
    <3>1. checkpoint.manifest = manifest /\ checkpoint.consumed = Consumed(previous) \cup IF own THEN {} ELSE {input.attempt.event}
      BY <2>1
    <3> HIDE DEF rev, own, input, previous
    <3> QED
      BY <1>1, <2>2, <3>1 DEF Refs, Consumed
  <2>4. CASE own
    <3>1. Consumed(rev) = Consumed(previous)
      BY <2>3, <2>4
    <3> QED
      BY <1>1, <2>1, <2>2, <2>3, <2>4, <3>1 DEF Adds, Binds
  <2>5. CASE ~own
    <3>1. /\ input.kind = "delivery" /\ input.attempt.to = i /\ input.attempt.expected = expected
          /\ Available(input.attempt.event)
          /\ i \in At(input.attempt.event).checkpoint.manifest.recipients
          /\ input.attempt \in attempts
      BY <2>1, <2>5 DEF VerifyInput
    <3>2. input = [kind |-> "delivery",
                   attempt |-> [event |-> input.attempt.event, to |-> i, expected |-> expected]]
      <4>1. input \in Input
        BY RunsType
      <4>2. input.attempt \in Attempt /\ input = [kind |-> "delivery", attempt |-> input.attempt]
        BY <3>1, <4>1 DEF Input
      <4>3. input.attempt = [event |-> input.attempt.event, to |-> i, expected |-> expected]
        BY <3>1, <4>2 DEF Attempt
      <4> QED
        BY <4>2, <4>3
    <3>3. IsFor(input.attempt.event, i)
      BY <3>1 DEF IsFor, Available
    <3>4. Consumed(rev) = Consumed(previous) \cup {input.attempt.event}
      BY <2>3, <2>5
    <3>5. Binds(input, i, expected)
      BY <3>1 DEF Binds
    <3>6. Adds(i, rev, previous)
      <4> HIDE DEF own
      <4> QED
        BY <1>1, <2>2, <3>2, <3>3, <3>4 DEF Adds
    <3> QED
      BY <2>1, <2>3, <3>5, <3>6
  <2> QED
    BY <2>4, <2>5
<1> QED
  BY <1>2, <1>3

LEMMA EventShape ==
  ASSUME TypeOK, Len(runs) <= MaxRuns, NEW e \in Event, IsEvent(e), CatalogFits(e.of)
  PROVE  /\ e.of \in Instance /\ e.rev \in History(e.of) /\ e.rev \in 1..Len(catalog[e.of]) /\ e.rev \in Nat
         /\ At(e) = catalog[e.of][e.rev] /\ At(e) \in Revision
         /\ At(e).parent # 0 /\ At(e).parent < e.rev /\ At(e).run \in DOMAIN runs
         /\ Binds(runs[At(e).run].input, e.of, At(e).parent)
<1>1. e.of \in Instance /\ e.rev \in History(e.of) /\ At(e).checkpoint # None /\ At(e) = catalog[e.of][e.rev]
  BY RecordShapes DEF IsEvent, Committed, At
<1>2. e.rev \in 1..Len(catalog[e.of]) /\ DOMAIN catalog[e.of] = 1..Len(catalog[e.of]) /\ At(e) \in Revision
  BY <1>1, HistoryFits, CatalogType
<1>3. RevisionFits(e.of, e.rev)
  BY <1>2 DEF CatalogFits
<1> QED
  BY <1>1, <1>2, <1>3 DEF RevisionFits

\* A run is committed once at most.
LEMMA RunsOnce ==
  ASSUME StoreInv, NEW e \in Event, NEW f \in Event, IsEvent(e), IsEvent(f), At(e).run = At(f).run
  PROVE  e = f
<1>1. TypeOK /\ Len(runs) <= MaxRuns /\ \A i \in Instance : CatalogFits(i) /\ OneLine(i)
  BY DEF StoreInv
<1> DEFINE p == At(e).parent
           q == At(f).parent
           input == runs[At(e).run].input
<1>2. /\ e.of \in Instance /\ e.rev \in History(e.of) /\ e.rev \in Nat
      /\ At(e) = catalog[e.of][e.rev] /\ p \in Nat /\ p < e.rev /\ Binds(input, e.of, p)
  BY <1>1, EventShape, RecordShapes, CheckpointType
<1>3. /\ f.of \in Instance /\ f.rev \in History(f.of) /\ f.rev \in Nat
      /\ At(f) = catalog[f.of][f.rev] /\ q \in Nat /\ q < f.rev /\ Binds(input, f.of, q)
  BY <1>1, EventShape, RecordShapes, CheckpointType
<1> HIDE DEF input
<1>4. e.of = f.of /\ p = q
  <2>1. CASE input = [kind |-> "state", of |-> e.of, rev |-> p]
    <3>1. input.kind = "state" /\ input.of = e.of /\ input.rev = p
      BY <2>1
    <3>2. input = [kind |-> "state", of |-> f.of, rev |-> q]
      BY <1>3, <3>1 DEF Binds
    <3>3. input.of = f.of /\ input.rev = q
      BY <3>2
    <3> QED
      BY <3>1, <3>3
  <2>2. CASE input.kind = "delivery" /\ input.attempt.to = e.of /\ input.attempt.expected = p
    <3>1. input # [kind |-> "state", of |-> f.of, rev |-> q]
      BY <2>2
    <3> QED
      BY <1>3, <2>2, <3>1 DEF Binds
  <2> QED
    BY <1>2, <2>1, <2>2 DEF Binds
<1>5. ~(e.rev < f.rev) /\ ~(f.rev < e.rev)
  <2>1. ASSUME e.rev < f.rev PROVE FALSE
    <3>1. e.rev <= catalog[e.of][f.rev].parent
      BY <1>1, <1>2, <1>3, <1>4, <2>1 DEF OneLine
    <3> QED
      BY <1>2, <1>3, <1>4, <3>1
  <2>2. ASSUME f.rev < e.rev PROVE FALSE
    <3>1. f.rev <= catalog[e.of][e.rev].parent
      BY <1>1, <1>2, <1>3, <1>4, <2>2 DEF OneLine
    <3> QED
      BY <1>2, <1>3, <1>4, <3>1
  <2> QED
    BY <2>1, <2>2
<1>6. e.rev = f.rev
  BY <1>2, <1>3, <1>5
<1> QED
  BY <1>4, <1>6 DEF Event

LEMMA AvailableStays ==
  ASSUME Stays, NEW e \in Event, Available(e), \A r \in Run : product[r] = "here" => product'[r] = "here", Len(runs) <= MaxRuns
  PROVE  Available(e)'
<1>1. IsEvent(e) /\ product[At(e).run] = "here"
  BY DEF Available
<1>2. IsEvent(e)' /\ At(e)' = At(e)
  BY <1>1, FactsStay DEF Stays, IsEvent
<1>3. At(e).run \in Run
  <2>1. At(e).run \in DOMAIN runs
    BY <1>1, RecordShapes, EventShape DEF Stays
  <2> QED
    BY <2>1, RunsType DEF Stays
<1> QED
  BY <1>1, <1>2, <1>3 DEF Available

LEMMA CommitStaysFit ==
  ASSUME StoreInv, [Next]_vars
  PROVE  CommitFits'
<1>1. Stays /\ TypeOK /\ CommitFits /\ Len(runs) <= MaxRuns /\ \A i \in Instance : CatalogFits(i)
  BY StoreStays DEF StoreInv
<1>2. CASE op' = None
  BY <1>2 DEF CommitFits
<1>3. ASSUME op' = op, UNCHANGED <<catalog, head, product>>, op # None, op.kind = "commit"
      PROVE  CommitFits'
  <2>1. PICK plan \in Plan : plan = op.plan
    BY <1>1, <1>3, OpShapes
  <2>2. plan.of \in Instance /\ plan.expected \in 1..Len(catalog[plan.of]) /\ Planned(plan) \in Revision
    <3>1. plan.expected = head[plan.of] /\ plan.of \in Instance /\ plan.expected \in Rev /\ Planned(plan) \in Revision
      BY <1>1, <1>3, <2>1, PlanType DEF CommitFits
    <3> QED
      BY <1>1, <3>1, CatalogType, RecordShapes
  <2>3. PICK rev \in Revision, previous \in Revision : rev = Planned(plan) /\ previous = catalog[plan.of][plan.expected]
    BY <1>1, <2>2, CatalogType
  <2>4. rev.run = plan.run /\ plan.run \in DOMAIN runs /\ Adds(plan.of, rev, previous)
    BY <1>1, <1>3, <2>1, <2>3 DEF CommitFits, Planned
  <2>5. Adds(plan.of, rev, previous)'
    BY <1>1, <2>2, <2>4, AddsStay
  <2>6. plan.run \in DOMAIN runs' /\ Binds(runs'[plan.run].input, plan.of, plan.expected)
    BY <1>1, <1>3, <2>1, <2>4 DEF CommitFits, Stays, Onward
  <2>7. \A e \in Refs(rev) : Available(e)'
    <3> TAKE e \in Refs(rev)
    <3>1. e \in Event /\ Available(e)
      BY <1>1, <1>3, <2>1, <2>3, CheckpointType DEF CommitFits
    <3> QED
      BY <1>1, <1>3, <3>1, AvailableStays
  <2>8. op.at = "head" =>
          /\ catalog[plan.of][Len(catalog[plan.of])] = rev
          /\ plan.expected < Len(catalog[plan.of])
          /\ plan.checkpoint # None => product[plan.run] = "here"
    BY <1>1, <1>3, <2>1, <2>3 DEF CommitFits
  <2>9. op'.plan = plan /\ head'[plan.of] = plan.expected /\ Planned(plan) = rev /\ previous = catalog'[plan.of][plan.expected]
    BY <1>1, <1>3, <2>1, <2>3 DEF CommitFits
  <2> QED
    BY <1>3, <2>5, <2>6, <2>7, <2>8, <2>9 DEF CommitFits
<1>4. ASSUME op' = op, op = None \/ op.kind # "commit"
      PROVE  CommitFits'
  BY <1>4 DEF CommitFits
<1>5. ASSUME NEW i \in Instance, NEW r \in DOMAIN runs, NEW manifest \in {None} \cup Offered, CommitBegins(i, r, manifest)
      PROVE  CommitFits'
  <2>1. PICK expected \in History(i) :
          /\ head[i] = expected
          /\ \E checkpoint \in Prepare(i, expected, runs[r].input, manifest) :
               LET plan == [of |-> i, expected |-> expected, run |-> r, checkpoint |-> checkpoint] IN
               op' = [kind |-> "commit", at |-> "stage", plan |-> plan]
    BY <1>5 DEF CommitBegins, IsHead
  <2>2. PICK checkpoint \in Prepare(i, expected, runs[r].input, manifest) :
          LET plan == [of |-> i, expected |-> expected, run |-> r, checkpoint |-> checkpoint] IN
          op' = [kind |-> "commit", at |-> "stage", plan |-> plan]
    BY <2>1
  <2>3. PICK plan : plan = [of |-> i, expected |-> expected, run |-> r, checkpoint |-> checkpoint]
    OBVIOUS
  <2>4. UNCHANGED <<catalog, head, product, runs>>
    BY <1>5 DEF CommitBegins
  <2>5. /\ Binds(runs[r].input, i, expected)
        /\ Adds(i, Planned(plan), catalog[i][expected])
        /\ \A e \in Refs(Planned(plan)) : Available(e)
    BY <1>1, <2>3, PrepareAdds
  <2>6. checkpoint \in Checkpoint \cup {None} /\ expected \in Rev /\ r \in Run
    BY <1>1, CheckpointTyped, HistoryFits, RunsType
  <2>7. plan \in Plan
    BY <2>3, <2>6 DEF Plan
  <2>8. PICK rev \in Revision, previous \in Revision : rev = Planned(plan) /\ previous = catalog[i][expected]
    BY <1>1, <2>7, PlanType, CatalogType, HistoryFits
  <2>9. plan.of = i /\ plan.expected = expected /\ plan.run = r /\ rev.run = r
    BY <2>3, <2>8 DEF Planned
  <2>10. Adds(i, rev, previous)'
    BY <1>1, <2>5, <2>8, <2>9, AddsStay
  <2>11. \A e \in Refs(rev) : Available(e)'
    <3> TAKE e \in Refs(rev)
    <3>1. e \in Event /\ Available(e)
      BY <2>5, <2>8, CheckpointType
    <3> QED
      BY <1>1, <2>4, <3>1, AvailableStays
  <2>12. op'.plan = plan /\ op'.at = "stage"
    BY <2>2, <2>3
  <2>13. head'[i] = expected /\ r \in DOMAIN runs' /\ Binds(runs'[r].input, i, expected) /\ previous = catalog'[i][expected]
    BY <2>1, <2>4, <2>5, <2>8
  <2> QED
    BY <2>8, <2>9, <2>10, <2>11, <2>12, <2>13 DEF CommitFits
<1>6. CASE CommitStages
  <2>1. op # None /\ op.kind = "commit" /\ op' = [op EXCEPT !.at = "head"] /\ runs' = runs
    BY <1>6 DEF CommitStages, Doing
  <2>2. PICK plan \in Plan : plan = op.plan /\ op = [kind |-> "commit", at |-> op.at, plan |-> plan]
    BY <1>1, <2>1, OpShapes
  <2>3. op' = [kind |-> "commit", at |-> "head", plan |-> plan]
    BY <2>1, <2>2
  <2> DEFINE i == plan.of
             N == Len(catalog[i])
  <2>4. /\ i \in Instance /\ plan.expected = head[i] /\ head' = head
        /\ Len(catalog'[i]) = N + 1
        /\ \A k \in 1..N : catalog'[i][k] = catalog[i][k]
        /\ catalog'[i][N + 1] = Planned(plan)
    BY <1>6, <2>2, CatalogStages
  <2>5. /\ plan.run \in DOMAIN runs /\ Binds(runs[plan.run].input, i, plan.expected)
        /\ Adds(i, Planned(plan), catalog[i][plan.expected])
        /\ \A e \in Refs(Planned(plan)) : Available(e)
    BY <1>1, <2>1, <2>2 DEF CommitFits
  <2>6. N \in Nat /\ plan.expected \in 1..N /\ plan.run \in Run /\ Planned(plan) \in Revision
    <3>1. plan.expected \in Rev /\ plan.run \in Run /\ Planned(plan) \in Revision
      BY PlanType
    <3> QED
      BY <1>1, <2>4, <3>1, CatalogType, RecordShapes
  <2>7. PICK rev \in Revision, previous \in Revision : rev = Planned(plan) /\ previous = catalog[i][plan.expected]
    BY <1>1, <2>4, <2>6, CatalogType
  <2>8. previous = catalog'[i][plan.expected] /\ rev.run = plan.run /\ rev = catalog'[i][Len(catalog'[i])] /\ plan.expected < Len(catalog'[i])
    BY <2>4, <2>6, <2>7 DEF Planned
  <2>9. Adds(i, rev, previous)'
    BY <1>1, <2>4, <2>5, <2>7, <2>8, AddsStay
  <2>10. product \in [Run -> {"none", "here", "gone"}]
    BY <1>1 DEF TypeOK
  <2>11. (\A r \in Run : product[r] = "here" => product'[r] = "here") /\ (plan.checkpoint # None => product'[plan.run] = "here")
    <3>1. CASE plan.checkpoint = None
      BY <1>6, <2>2, <3>1 DEF CommitStages
    <3>2. CASE plan.checkpoint # None
      <4>1. product' = [product EXCEPT ![plan.run] = "here"]
        BY <1>6, <2>2, <3>2 DEF CommitStages
      <4> QED
        BY <2>6, <2>10, <4>1
    <3> QED
      BY <3>1, <3>2
  <2>12. \A e \in Refs(rev) : Available(e)'
    <3> TAKE e \in Refs(rev)
    <3>1. e \in Event /\ Available(e)
      BY <2>5, <2>7, CheckpointType
    <3> QED
      BY <1>1, <2>11, <3>1, AvailableStays
  <2>13. op'.plan = plan /\ op'.at = "head" /\ op'.kind = "commit"
    BY <2>3
  <2>14. head'[i] = plan.expected /\ plan.run \in DOMAIN runs' /\ Binds(runs'[plan.run].input, i, plan.expected)
    BY <2>1, <2>4, <2>5
  <2> QED
    BY <2>7, <2>8, <2>9, <2>11, <2>12, <2>13, <2>14 DEF CommitFits
<1>7. ASSUME NEW e \in Events, ReclaimBegins(e)
      PROVE  CommitFits'
  <2>1. op' = [kind |-> "reclaim", at |-> "remove", run |-> At(e).run]
    BY <1>7 DEF ReclaimBegins
  <2>2. op'.kind = "reclaim"
    BY <2>1
  <2> QED
    BY <2>2 DEF CommitFits
<1>8. CASE ReclaimRemoves
  <2>1. op # None /\ op.kind = "reclaim" /\ op' = [op EXCEPT !.at = "receipt"]
    BY <1>8 DEF ReclaimRemoves, Doing
  <2>2. op = [kind |-> "reclaim", at |-> op.at, run |-> op.run]
    BY <1>1, <2>1, OpShapes
  <2>3. op' = [kind |-> "reclaim", at |-> "receipt", run |-> op.run]
    BY <2>1, <2>2
  <2>4. op'.kind = "reclaim"
    BY <2>3
  <2> QED
    BY <2>4 DEF CommitFits
<1> QED
  BY <1>2, <1>3, <1>4, <1>5, <1>6, <1>7, <1>8, WhoOperates

\* What nobody needs is not needed later, unless a commit refers to it.
LEMMA UnneededStays ==
  ASSUME StoreInv, Stays, NEW e \in Event, IsEvent(e), Unneeded(e),
         \A i \in Instance : head'[i] # head[i] => e \notin Refs(catalog'[i][head'[i]])
  PROVE  Unneeded(e)'
<1>1. /\ \A i \in Instance : \A k \in History(i) : catalog'[i][k] = catalog[i][k]
      /\ \A i \in Instance : \A k \in History(i)' : k \in History(i) \/ k = head'[i]
      /\ At(e)' = At(e)
      /\ \A i \in Instance : ConsumedAt(i, e) \subseteq ConsumedAt(i, e)'
  BY FactsStay DEF Stays, IsEvent
<1>2. ASSUME NEW i \in Instance, NEW k \in History(i)'
      PROVE  e \notin Refs(catalog'[i][k])
  <2>1. CASE k \in History(i)
    <3>1. e \notin Refs(catalog[i][k]) /\ catalog'[i][k] = catalog[i][k]
      BY <1>1, <2>1 DEF Unneeded
    <3> QED
      BY <3>1
  <2>2. CASE k \notin History(i)
    <3>1. k = head'[i]
      BY <1>1, <2>2
    <3>2. head'[i] # head[i]
      <4> SUFFICES ASSUME head'[i] = head[i]
                   PROVE  FALSE
        OBVIOUS
      <4>1. CatalogFits(i) /\ Follows(i) /\ Backward(catalog'[i])
        BY DEF Stays, Onward
      <4>2. History(i)' = History(i)
        BY <4>1, HistoryMoves DEF Stays
      <4> QED
        BY <2>2, <4>2
    <3>3. PICK h : h = head'[i]
      OBVIOUS
    <3>4. e \notin Refs(catalog'[i][h])
      BY <3>2, <3>3
    <3>5. h = k
      BY <3>1, <3>3
    <3> QED
      BY <3>4, <3>5
  <2> QED
    BY <2>1, <2>2
<1>3. \A to \in At(e)'.checkpoint.manifest.recipients : ConsumedAt(to, e)' # {}
  <2> TAKE to \in At(e)'.checkpoint.manifest.recipients
  <2>1. to \in At(e).checkpoint.manifest.recipients /\ ConsumedAt(to, e) # {}
    BY <1>1 DEF Unneeded
  <2>2. to \in Instance
    <3>1. At(e) \in Revision /\ At(e).checkpoint # None
      BY EventShape, RecordShapes DEF StoreInv, IsEvent
    <3>2. At(e).checkpoint \in Checkpoint
      BY <3>1, CheckpointType
    <3>3. At(e).checkpoint.manifest.recipients \subseteq Instance
      BY <3>2 DEF Checkpoint, Manifest
    <3> QED
      BY <2>1, <3>3
  <2> QED
    BY <1>1, <2>1, <2>2
<1> QED
  BY <1>2, <1>3 DEF Unneeded

LEMMA SameEvents ==
  ASSUME UNCHANGED <<catalog, head>>, NEW e \in Event
  PROVE  /\ IsEvent(e)' = IsEvent(e) /\ At(e)' = At(e) /\ (Unneeded(e) => Unneeded(e)')
<1>1. e.of \in Instance
  BY RecordShapes
<1>2. \A i : History(i)' = History(i)
  BY DEF History
<1>3. At(e)' = At(e)
  BY DEF At
<1>4. IsEvent(e)' = IsEvent(e)
  BY <1>2, <1>3 DEF IsEvent, Committed
<1>5. \A i : ConsumedAt(i, e)' = ConsumedAt(i, e)
  BY <1>2 DEF ConsumedAt
<1>6. Unneeded(e) => Unneeded(e)'
  BY <1>2, <1>3, <1>5 DEF Unneeded
<1> QED
  BY <1>3, <1>4, <1>6

LEMMA ReclaimStaysFit ==
  ASSUME StoreInv, [Next]_vars
  PROVE  ReclaimFits'
<1>1. TypeOK /\ ReclaimFits
  BY DEF StoreInv
<1>2. CASE op' = None
  BY <1>2 DEF ReclaimFits
<1>3. CASE op' = op /\ UNCHANGED <<catalog, head, product>>
  <2> SUFFICES ASSUME op # None, op.kind = "reclaim", op.at = "remove"
               PROVE  \E e \in Event : IsEvent(e)' /\ At(e)'.run = op.run /\ Unneeded(e)'
    BY <1>3 DEF ReclaimFits
  <2>1. PICK e \in Event : IsEvent(e) /\ At(e).run = op.run /\ Unneeded(e)
    BY <1>1 DEF ReclaimFits
  <2>2. IsEvent(e)' = IsEvent(e) /\ At(e)' = At(e) /\ (Unneeded(e) => Unneeded(e)')
    BY <1>3, SameEvents
  <2> QED
    BY <2>1, <2>2
<1>4. ASSUME NEW i \in Instance, NEW r \in DOMAIN runs, NEW manifest \in {None} \cup Offered, CommitBegins(i, r, manifest)
      PROVE  ReclaimFits'
  <2>1. op'.kind = "commit"
    BY <1>4 DEF CommitBegins
  <2> QED
    BY <2>1 DEF ReclaimFits
<1>5. CASE CommitStages
  <2>1. op # None /\ op.kind = "commit" /\ op' = [op EXCEPT !.at = "head"]
    BY <1>5 DEF CommitStages, Doing
  <2>2. op = [kind |-> "commit", at |-> op.at, plan |-> op.plan]
    BY <1>1, <2>1, OpShapes
  <2>3. op' = [kind |-> "commit", at |-> "head", plan |-> op.plan]
    BY <2>1, <2>2
  <2>4. op'.kind = "commit"
    BY <2>3
  <2> QED
    BY <2>4 DEF ReclaimFits
<1>6. ASSUME NEW e \in Events, ReclaimBegins(e)
      PROVE  ReclaimFits'
  <2>1. /\ UNCHANGED <<catalog, head, product>> /\ IsEvent(e) /\ e \in Event
        /\ \A to \in At(e).checkpoint.manifest.recipients : ConsumedAt(to, e) # {}
        /\ ~Pinned(e)
        /\ op' = [kind |-> "reclaim", at |-> "remove", run |-> At(e).run]
    BY <1>6 DEF ReclaimBegins, Events
  <2>2. Unneeded(e)
    BY <2>1 DEF Unneeded, Pinned
  <2>3. IsEvent(e)' = IsEvent(e) /\ At(e)' = At(e) /\ (Unneeded(e) => Unneeded(e)')
    BY <2>1, SameEvents
  <2>4. op'.run = At(e).run
    BY <2>1
  <2>5. op'.run = At(e)'.run
    BY <2>3, <2>4
  <2> QED
    BY <2>1, <2>2, <2>3, <2>5 DEF ReclaimFits
<1>7. CASE ReclaimRemoves
  <2>1. op # None /\ op.kind = "reclaim" /\ op' = [op EXCEPT !.at = "receipt"]
    BY <1>7 DEF ReclaimRemoves, Doing
  <2>2. op = [kind |-> "reclaim", at |-> op.at, run |-> op.run]
    BY <1>1, <2>1, OpShapes
  <2>3. op' = [kind |-> "reclaim", at |-> "receipt", run |-> op.run]
    BY <2>1, <2>2
  <2>4. op'.at = "receipt"
    BY <2>3
  <2> QED
    BY <2>4 DEF ReclaimFits
<1> QED
  BY <1>2, <1>3, <1>4, <1>5, <1>6, <1>7, WhoOperates

LEMMA WhoStores ==
  ASSUME [Next]_vars
  PROVE  product' = product \/ CommitStages \/ ReclaimRemoves
BY DEF Next, vars, InitInstance, InitIsCut, RunState, RunSeals, CommitBegins, CommitMovesHead, Acknowledge,
       DeliverBegins, DeliverRuns, DeliverIsCut, ReclaimBegins, ReclaimReceipt, OpIsCut, OperatorUnlocks

LEMMA ProductsStayFit ==
  ASSUME StoreInv, [Next]_vars
  PROVE  ProductsFit'
<1>1. Stays /\ TypeOK /\ ProductsFit /\ ReclaimFits /\ CommitFits /\ Len(runs) <= MaxRuns /\ \A i \in Instance : CatalogFits(i)
  BY StoreStays DEF StoreInv
<1>2. \A e \in Event : IsEvent(e) => At(e)' = At(e) /\ At(e).run \in Run
  <2> SUFFICES ASSUME NEW e \in Event, IsEvent(e)
               PROVE  At(e)' = At(e) /\ At(e).run \in Run
    OBVIOUS
  <2>1. At(e).run \in DOMAIN runs
    BY <1>1, RecordShapes, EventShape
  <2> QED
    BY <1>1, <2>1, RunsType, FactsStay DEF Stays, IsEvent
<1>3. product \in [Run -> {"none", "here", "gone"}]
  BY <1>1 DEF TypeOK
<1> SUFFICES ASSUME NEW e \in Event, IsEvent(e)', product'[At(e)'.run] # "here"
             PROVE  Unneeded(e)'
  BY DEF ProductsFit
<1>4. CASE UNCHANGED <<catalog, head>>
  <2>1. IsEvent(e) /\ At(e)' = At(e) /\ (Unneeded(e) => Unneeded(e)')
    BY <1>4, SameEvents
  <2>2. CASE product[At(e).run] # "here"
    BY <1>1, <2>1, <2>2 DEF ProductsFit
  <2>3. CASE product[At(e).run] = "here"
    <3>1. product'[At(e).run] # "here"
      BY <2>1
    <3>2. ReclaimRemoves
      <4>1. ~CommitStages
        <5> SUFFICES ASSUME CommitStages
                     PROVE  FALSE
          OBVIOUS
        <5>1. catalog' = catalog
          BY <1>4
        <5>2. Len(catalog'[op.plan.of]) = Len(catalog[op.plan.of]) + 1 /\ op.plan.of \in Instance
          BY CatalogStages
        <5>3. Len(catalog[op.plan.of]) \in Nat
          BY <1>1, <5>2, CatalogType
        <5> QED
          BY <5>1, <5>2, <5>3
      <4> QED
        BY <2>3, <3>1, <4>1, WhoStores
    <3>3. product' = [product EXCEPT ![op.run] = "gone"] /\ op # None /\ op.kind = "reclaim" /\ op.at = "remove"
      BY <3>2 DEF ReclaimRemoves, Doing
    <3>4. At(e).run = op.run
      BY <1>2, <1>3, <2>1, <2>3, <3>1, <3>3
    <3>5. PICK f \in Event : IsEvent(f) /\ At(f).run = op.run /\ Unneeded(f)
      BY <1>1, <3>3 DEF ReclaimFits
    <3>6. e = f
      BY <2>1, <3>4, <3>5, RunsOnce
    <3> QED
      BY <2>1, <3>5, <3>6
  <2> QED
    BY <2>2, <2>3
<1>5. ASSUME NEW i \in Instance, InitInstance(i)
      PROVE  Unneeded(e)'
  <2>1. /\ \A j \in Instance \ {i} : head'[j] = head[j]
        /\ head'[i] = 1 /\ catalog'[i][1] = [parent |-> 0, run |-> 0, checkpoint |-> None]
    BY <1>5, CatalogBegins
  <2>2. catalog'[i][head'[i]].checkpoint = None
    BY <2>1
  <2>3. IsEvent(e)
    <3>1. e.of \in Instance /\ e.rev \in History(e.of)' /\ At(e)'.checkpoint # None /\ At(e)' = catalog'[e.of][e.rev]
      BY RecordShapes DEF IsEvent, Committed, At
    <3>2. e.rev \in History(e.of) \/ e.rev = head'[e.of]
      BY <1>1, <3>1, FactsStay DEF Stays
    <3>3. e.rev \in History(e.of)
      <4> SUFFICES ASSUME e.rev \notin History(e.of)
                   PROVE  FALSE
        OBVIOUS
      <4>1. e.rev = head'[e.of] /\ e.of # i
        BY <2>2, <3>1, <3>2
      <4>2. head'[e.of] = head[e.of] /\ Follows(e.of) /\ Backward(catalog'[e.of]) /\ CatalogFits(e.of)
        BY <1>1, <2>1, <3>1, <4>1 DEF Stays, Onward
      <4>3. History(e.of)' = History(e.of)
        BY <1>1, <3>1, <4>2, HistoryMoves DEF Stays
      <4> QED
        BY <3>1, <4>3
    <3>4. Committed(e)
      BY <3>3 DEF Committed
    <3>5. At(e)' = At(e)
      BY <1>1, <3>4, FactsStay DEF Stays
    <3> QED
      BY <3>1, <3>4, <3>5 DEF IsEvent
  <2>4. product' = product
    BY <1>5 DEF InitInstance
  <2>5. Unneeded(e)
    BY <1>1, <1>2, <2>3, <2>4 DEF ProductsFit
  <2>6. Refs(catalog'[i][head'[i]]) = {}
    BY <2>2 DEF Refs
  <2> QED
    BY <1>1, <2>1, <2>3, <2>5, <2>6, UnneededStays
<1>6. CASE CommitStages
  <2>1. head' = head
    BY <1>6, CatalogStages
  <2>2. IsEvent(e)
    <3>1. e.of \in Instance /\ e.rev \in History(e.of)' /\ At(e)'.checkpoint # None
      BY RecordShapes DEF IsEvent, Committed
    <3>2. Follows(e.of) /\ Backward(catalog'[e.of]) /\ CatalogFits(e.of) /\ head'[e.of] = head[e.of]
      BY <1>1, <2>1, <3>1 DEF Stays, Onward
    <3>3. History(e.of)' = History(e.of)
      BY <1>1, <3>1, <3>2, HistoryMoves DEF Stays
    <3>4. Committed(e)
      BY <3>1, <3>3 DEF Committed
    <3>5. At(e)' = At(e)
      BY <1>1, <3>4, FactsStay DEF Stays
    <3> QED
      BY <3>1, <3>4, <3>5 DEF IsEvent
  <2>3. product[At(e).run] # "here"
    <3> SUFFICES ASSUME product[At(e).run] = "here"
                 PROVE  FALSE
      OBVIOUS
    <3>1. product' = product \/ product' = [product EXCEPT ![op.plan.run] = "here"]
      BY <1>6 DEF CommitStages
    <3>2. product'[At(e).run] = "here"
      BY <1>2, <1>3, <2>2, <3>1
    <3> QED
      BY <1>2, <2>2, <3>2
  <2>4. Unneeded(e)
    BY <1>1, <2>2, <2>3 DEF ProductsFit
  <2> QED
    BY <1>1, <2>1, <2>2, <2>4, UnneededStays
<1>7. CASE CommitMovesHead
  <2>1. op # None /\ op.kind = "commit" /\ op.at = "head" /\ product' = product
    BY <1>7 DEF CommitMovesHead, Doing
  <2> DEFINE i == op.plan.of
             n == Len(catalog[i])
  <2>2. /\ i \in Instance /\ catalog' = catalog
        /\ \A j \in Instance \ {i} : head'[j] = head[j]
        /\ head'[i] = n /\ catalog[i][n] = Planned(op.plan) /\ Planned(op.plan) \in Revision
    BY <1>7, HeadMoves, PlanType
  <2>3. /\ op.plan.checkpoint # None => product[op.plan.run] = "here"
        /\ \A f \in Refs(Planned(op.plan)) : Available(f)
    BY <1>1, <2>1 DEF CommitFits
  <2> HIDE DEF i, n
  <2>4. IsEvent(e)
    <3>1. e.of \in Instance /\ e.rev \in History(e.of)' /\ At(e)'.checkpoint # None /\ At(e)' = catalog'[e.of][e.rev]
      BY RecordShapes DEF IsEvent, Committed, At
    <3>2. e.rev \in History(e.of) \/ e.rev = head'[e.of]
      BY <1>1, <3>1, FactsStay DEF Stays
    <3>3. e.rev \in History(e.of)
      <4> SUFFICES ASSUME e.rev \notin History(e.of)
                   PROVE  FALSE
        OBVIOUS
      <4>1. CASE e.of = i
        <5>1. e.rev = n
          BY <2>2, <3>2, <4>1
        <5>2. At(e)' = Planned(op.plan)
          BY <2>2, <3>1, <4>1, <5>1
        <5>3. At(e)'.checkpoint = op.plan.checkpoint /\ At(e)'.run = op.plan.run
          BY <5>2 DEF Planned
        <5> QED
          BY <2>1, <2>3, <3>1, <5>3
      <4>2. CASE e.of # i
        <5>1. head'[e.of] = head[e.of] /\ Follows(e.of) /\ Backward(catalog'[e.of]) /\ CatalogFits(e.of)
          BY <1>1, <2>2, <3>1, <4>2 DEF Stays, Onward
        <5>2. History(e.of)' = History(e.of)
          BY <1>1, <3>1, <5>1, HistoryMoves DEF Stays
        <5> QED
          BY <3>1, <5>2
      <4> QED
        BY <4>1, <4>2
    <3>4. Committed(e)
      BY <3>3 DEF Committed
    <3>5. At(e)' = At(e)
      BY <1>1, <3>4, FactsStay DEF Stays
    <3> QED
      BY <3>1, <3>4, <3>5 DEF IsEvent
  <2>5. product[At(e).run] # "here" /\ Unneeded(e)
    BY <1>1, <1>2, <2>1, <2>4 DEF ProductsFit
  <2>6. e \notin Refs(catalog'[i][n])
    BY <2>2, <2>3, <2>5 DEF Available
  <2>7. \A j \in Instance : head'[j] # head[j] => e \notin Refs(catalog'[j][head'[j]])
    BY <2>2, <2>6
  <2> QED
    BY <1>1, <2>4, <2>5, <2>7, UnneededStays
<1> QED
  BY <1>4, <1>5, <1>6, <1>7, WhoPublishes

LEMMA StoreStep ==
  ASSUME StoreInv, [Next]_vars
  PROVE  StoreInv'
<1>1. TypeOK' /\ Len(runs') <= MaxRuns
  BY StoreTypes
<1>2. \A i \in Instance : CatalogFits(i)' /\ OneLine(i)'
  BY CatalogStaysFit, OneLineStays
<1>3. AcksFit' /\ AttemptsFit' /\ CommitFits' /\ ReclaimFits' /\ ProductsFit'
  BY AcksStayFit, AttemptsStayFit, CommitStaysFit, ReclaimStaysFit, ProductsStayFit
<1> QED
  BY <1>1, <1>2, <1>3 DEF StoreInv

LEMMA StoreBegins ==
  ASSUME Init
  PROVE  StoreInv
<1>1. /\ \A i \in Instance : catalog[i] = <<>> /\ head[i] = 0
      /\ runs = <<>> /\ acks = {} /\ attempts = {} /\ calls = {} /\ op = None
  BY DEF Init
<1>2. TypeOK
  <2>1. catalog \in [Instance -> Seq(Revision)] /\ head \in [Instance -> Nat] /\ \A i \in Instance : head[i] <= Len(catalog[i])
    BY DEF Init
  <2>2. runs \in Seq([input : Input, sealed : BOOLEAN])
    BY <1>1
  <2>3. RestTyped
    <3>1. 0 \in 0..MaxFaults /\ FALSE \in BOOLEAN
      BY InstancesAssumption
    <3>2. product \in [Run -> {"none", "here", "gone"}] /\ reclaim \in [Run -> {"none", "intent", "receipt"}]
      BY DEF Init
    <3> QED
      BY <3>1, <3>2 DEF Init, RestTyped
  <2> QED
    BY <2>1, <2>2, <2>3 DEF TypeOK, RestTyped
<1>3. Len(runs) <= MaxRuns /\ DOMAIN runs = {}
  BY <1>1, InstancesAssumption
<1>4. \A i \in Instance : CatalogFits(i)
  BY <1>1, InstancesAssumption DEF CatalogFits
<1>5. \A i \in Instance : History(i) = {}
  BY <1>1, <1>2, <1>4, HistoryFits
<1>6. \A i \in Instance : OneLine(i)
  BY <1>5 DEF OneLine
<1>7. AcksFit /\ AttemptsFit /\ CommitFits /\ ReclaimFits
  BY <1>1, <1>3 DEF AcksFit, AttemptsFit, CommitFits, ReclaimFits
<1>8. ProductsFit
  BY <1>5, RecordShapes DEF ProductsFit, IsEvent, Committed
<1> QED
  BY <1>2, <1>3, <1>4, <1>6, <1>7, <1>8 DEF StoreInv

LEMMA InvIsSafe ==
  ASSUME StoreInv
  PROVE  StoreSafe
<1>1. TypeOK /\ Len(runs) <= MaxRuns /\ \A i \in Instance : CatalogFits(i) /\ OneLine(i)
  BY DEF StoreInv
<1>2. ConsumptionIsTraced
  <2>1. ASSUME NEW i \in Instance, NEW k \in History(i)
        PROVE  LET rev == catalog[i][k]
                   had == IF rev.parent = 0 THEN {} ELSE Consumed(catalog[i][rev.parent]) IN
               /\ rev.checkpoint = None => rev.parent = 0 \/ catalog[i][rev.parent].checkpoint = None
               /\ had \subseteq Consumed(rev)
               /\ \A e \in Consumed(rev) \ had :
                    /\ runs[rev.run].input = [kind |-> "delivery",
                                               attempt |-> [event |-> e, to |-> i, expected |-> rev.parent]]
                    /\ IsFor(e, i)
    <3>1. RevisionFits(i, k)
      BY <1>1, HistoryFits, CatalogType DEF CatalogFits
    <3> DEFINE rev == catalog[i][k]
    <3>2. CASE rev.parent = 0
      <4>1. Consumed(rev) = {}
        BY <3>1, <3>2 DEF RevisionFits, Consumed
      <4> QED
        BY <3>2, <4>1
    <3>3. CASE rev.parent # 0
      <4>1. Adds(i, rev, catalog[i][rev.parent])
        BY <3>1, <3>3 DEF RevisionFits
      <4> QED
        BY <3>3, <4>1 DEF Adds
    <3> QED
      BY <3>2, <3>3
  <2>2. AcksFit
    BY DEF StoreInv
  <2> QED
    BY <2>1, <2>2 DEF ConsumptionIsTraced, AcksFit
<1>3. OneAttempt
  BY DEF StoreInv, AttemptsFit, OneAttempt
<1>4. NeededProductsStay
  BY DEF StoreInv, ProductsFit, Unneeded, NeededProductsStay, Events
<1> QED
  BY <1>1, <1>2, <1>3, <1>4 DEF StoreSafe

\* Consumption is traced to a delivery, an event is run for a recipient once at
\* most, and what is still referred to or not yet consumed keeps its bytes
\* (instance::commit, delivery::deliver, retention::reclaim), whatever is cut short.
THEOREM StoreIsSafe == Spec => []StoreSafe
<1>1. Init => StoreInv
  BY StoreBegins
<1>2. StoreInv /\ [Next]_vars => StoreInv'
  BY StoreStep
<1>3. StoreInv => StoreSafe
  BY InvIsSafe
<1> QED
  BY <1>1, <1>2, <1>3, PTL DEF Spec

\* HEAD moves only to a revision made from what it was, so that of two runs of one
\* state one is published and no published revision is lost (instance::commit).
THEOREM HeadsDoFollow == Spec => HeadsFollow
<1>1. Init => StoreInv
  BY StoreBegins
<1>2. StoreInv /\ [Next]_vars => StoreInv'
  BY StoreStep
<1>3. StoreInv /\ [Next]_vars =>
        [\A i \in Instance : head'[i] # head[i] => catalog'[i][head'[i]].parent = head[i]]_vars
  BY StoreOnward DEF Onward, Follows
<1> QED
  BY <1>1, <1>2, <1>3, PTL DEF Spec, HeadsFollow
=============================================================================

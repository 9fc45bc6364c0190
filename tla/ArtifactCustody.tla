--------------------------- MODULE ArtifactCustody ---------------------------
(***************************************************************************)
(* Who may still read a published version, and when its bytes may go:       *)
(* an-agent-host/src/artifact_versions/{registered,references}.rs and the   *)
(* consumers under native_spool/ (input_references, checkpoint).            *)
(*                                                                         *)
(* A registered version (an accepted output, or a checkpoint of an          *)
(* instance's state) keeps a ledger beside its bytes, changed by SQLite     *)
(* transactions, and a directory of claim files and release markers.  Its   *)
(* readers are the attempts that took it as input, the checkpoints that     *)
(* depend on it, and copies checked out by hand.  Reading and collecting    *)
(* run in different processes, on different roots, each of which may die    *)
(* between any two of its writes; nothing half done is ever resumed.        *)
(***************************************************************************)
EXTENDS Naturals, Sequences, FiniteSets

CONSTANTS Artifacts,    \* versions of accepted outputs
          Checkpoints,  \* versions of the instance's state
          First,        \* the checkpoint the state was initialised with
          Runs,         \* attempts of the instance that keeps this state
          Stateless,    \* attempts of an instance without checkpoints
          Copies,       \* names of copies checked out by hand
          Nobody,
          MaxCrashes    \* bound on the number of processes that die

Versions == Artifacts \cup Checkpoints
Attempts == Runs \cup Stateless
Owners == Attempts \cup Checkpoints

(* A revision, an attempt and a version each have a name of their own. *)
ASSUME OwnersAssumption ==
  /\ First \in Checkpoints /\ Nobody \notin Attempts /\ MaxCrashes \in Nat
  /\ Artifacts \cap Owners = {} /\ Runs \cap Stateless = {} /\ Attempts \cap Checkpoints = {}
  /\ (Owners \cup Artifacts) \cap (Artifacts \X Copies) = {}

VARIABLES ledger,  \* the custody database of each version
          files,   \* the owners with a claim file beside the version
          marks,   \* the owners with a release marker beside it
          phase,   \* how far an owner's own records have come
          inputs,  \* the versions an owner claims, in slot order
          at,      \* the slot its process is working on
          outcome, \* how an attempt settled, with the policy it was accepted under
          asked,   \* attempts with a durable supervisor request
          maker,   \* the attempt whose output a checkpoint committed
          newest,  \* the newest checkpoint
          live,    \* owners, copies and versions whose operation has a process
          crashes

custody == <<ledger, files, marks, phase, inputs, at, outcome, asked, maker, newest, live, crashes>>

AttemptPhases == {"idle", "reserving", "submitted", "withdrawn", "acquiring", "pinned",
                  "registered", "settled", "cleaned", "releasing", "released"}
CheckpointPhases == {"absent", "orphan", "undeclared", "acquiring", "pinned", "registered",
                     "releasing", "released"}

CustodyTypeOK ==
  /\ ledger \in [Versions -> [closed : BOOLEAN, intent : BOOLEAN, bytes : BOOLEAN,
                              pins : SUBSET Owners,
                              copies : [Copies -> {"none", "opening", "read", "copied", "released"}]]]
  /\ files \in [Versions -> SUBSET Owners] /\ marks \in [Versions -> SUBSET Owners]
  /\ phase \in [Owners -> AttemptPhases \cup CheckpointPhases]
  /\ inputs \in [Owners -> Seq(Versions)] /\ at \in [Owners -> Nat \ {0}]
  /\ outcome \in [Attempts -> {"none", "cancelled", "failed", "needs-data", "needs-nothing"}]
  /\ asked \subseteq Attempts /\ maker \in [Checkpoints -> Attempts \cup {Nobody}]
  /\ newest \in Checkpoints /\ live \subseteq Owners \cup Artifacts \cup (Artifacts \X Copies)
  /\ crashes \in 0..MaxCrashes

CustodyInit ==
  /\ ledger = [v \in Versions |-> [closed |-> FALSE, intent |-> FALSE, bytes |-> TRUE, pins |-> {},
                                   copies |-> [k \in Copies |-> "none"]]]
  /\ files = [v \in Versions |-> {}] /\ marks = [v \in Versions |-> {}]
  /\ phase = [o \in Owners |-> IF o \in Attempts THEN "idle"
                               ELSE IF o = First THEN "undeclared" ELSE "absent"]
  /\ inputs = [o \in Owners |-> <<>>] /\ at = [o \in Owners |-> 1]
  /\ outcome = [r \in Attempts |-> "none"]
  /\ asked = {} /\ maker = [c \in Checkpoints |-> Nobody] /\ newest = First
  /\ live = {} /\ crashes = 0

(* ------------------------------ the ledger ------------------------------ *)

(* The bytes are there and no deletion has been submitted. *)
Readable(v) == ledger[v].bytes /\ ~ledger[v].intent
Open(v) == ~ledger[v].closed /\ Readable(v)

SetPhase(o, p) == phase' = [phase EXCEPT ![o] = p]
Slot(o) == inputs[o][at[o]]
Done(o) == at[o] > Len(inputs[o])

(* The consumer's own receipt: released is the phase that input-released.json, *)
(* or the checkpoint's release receipt, closes.                                *)
Finished(o) == phase[o] = "released"

(* The claim an owner wrote beside the version, and its release marker. *)
Mirrored(v, o) == o \in files[v]
Unreleased(v, o) == o \in ledger[v].pins /\ Mirrored(v, o) /\ o \notin marks[v]

(* Every copy is completed and released, every claim is mirrored by its file   *)
(* and its marker, and the consumer itself confirms it is done.                *)
ReadersReleased(v) ==
  /\ \A k \in Copies : ledger[v].copies[k] \in {"none", "released"}
  /\ \A o \in ledger[v].pins : Mirrored(v, o) /\ o \in marks[v] /\ Finished(o)
  /\ files[v] \subseteq ledger[v].pins

(* ------------------------------- the locks ------------------------------ *)

(* The lock of the consuming instance is held from the start of an attempt to  *)
(* its settlement, and by a declaration and an input release; not by closing   *)
(* or releasing a checkpoint, which take that revision's lock.                 *)
SameRoot(o, p) == (o \in Stateless /\ o = p) \/ (o \notin Stateless /\ p \notin Stateless)
RootFree(o) ==
  \A p \in live \cap Owners :
    SameRoot(o, p) => p \in Checkpoints /\ phase[p] = "releasing"

RevisionFree(c) ==
  /\ c \notin live
  /\ \A r \in live \cap Attempts : ~(phase[r] = "reserving" /\ inputs[r][Len(inputs[r])] = c)

(* One catalog holds the artifacts, the other the checkpoints. *)
SameCatalog(v, w) == (v \in Artifacts) <=> (w \in Artifacts)
CatalogFree(v) ==
  \A o \in live \cap Owners : phase[o] = "pinned" => ~SameCatalog(Slot(o), v)

(* A checkpoint is selected from HEAD's own history, never an orphan. *)
InHistory(c) == c \in Checkpoints /\ phase[c] \notin {"absent", "orphan"}

(* ------------------------- attempts take their inputs -------------------- *)

(* Data comes in slot 0, the state in slot 1; only an instance with           *)
(* checkpoints has a state to take.                                           *)
Selectable(r, sel) ==
  /\ \A i \in 1..Len(sel) : Open(sel[i])
  /\ sel[1] \in Artifacts
  /\ Len(sel) = IF r \in Stateless THEN 1 ELSE 2
  /\ r \in Runs => InHistory(sel[2])

(* A supervised start is reserved first, under the state's revision lock, so   *)
(* that closing that state and the reservation have one order.                 *)
Reserve(r, sel) ==
  /\ phase[r] = "idle" /\ RootFree(r) /\ Selectable(r, sel)
  /\ r \in Runs => RevisionFree(sel[2])
  /\ SetPhase(r, "reserving") /\ live' = live \cup {r}
  /\ inputs' = [inputs EXCEPT ![r] = sel]
  /\ UNCHANGED <<ledger, files, marks, at, outcome, asked, maker, newest, crashes>>

(* The request is durable before any claim exists. *)
Submit(r) ==
  /\ phase[r] = "reserving" /\ r \in live
  /\ SetPhase(r, "submitted") /\ asked' = asked \cup {r} /\ live' = live \ {r}
  /\ UNCHANGED <<ledger, files, marks, inputs, at, outcome, maker, newest, crashes>>

(* Cancelled before its start: positive evidence that nothing was claimed. *)
Withdraw(r) ==
  /\ phase[r] = "submitted" /\ SetPhase(r, "withdrawn")
  /\ UNCHANGED <<ledger, files, marks, inputs, at, outcome, asked, maker, newest, live, crashes>>

(* The intent precedes every claim; it can be written only once, so a partial  *)
(* acquisition is retained and never resumed.                                  *)
Acquire(r, sel) ==
  /\ \/ phase[r] = "idle"
     \/ phase[r] = "submitted" /\ inputs[r] = sel
  /\ RootFree(r) /\ Selectable(r, sel)
  /\ SetPhase(r, "acquiring") /\ live' = live \cup {r}
  /\ inputs' = [inputs EXCEPT ![r] = sel]
  /\ UNCHANGED <<ledger, files, marks, at, outcome, asked, maker, newest, crashes>>

(* One checkpoint declares once, while its own admission is open, the accepted *)
(* outputs it depends on.                                                      *)
Declare(c, sel) ==
  /\ phase[c] = "undeclared" /\ RootFree(c) /\ RevisionFree(c) /\ Open(c)
  /\ \A i \in 1..Len(sel) : sel[i] \in Artifacts /\ Open(sel[i])
  /\ SetPhase(c, "acquiring") /\ live' = live \cup {c}
  /\ inputs' = [inputs EXCEPT ![c] = sel]
  /\ UNCHANGED <<ledger, files, marks, at, outcome, asked, maker, newest, crashes>>

(* references::acquire: under the catalog's lock, first the ledger ... *)
Pin(o) ==
  /\ phase[o] = "acquiring" /\ o \in live /\ ~Done(o)
  /\ CatalogFree(Slot(o)) /\ Open(Slot(o)) /\ o \notin ledger[Slot(o)].pins
  /\ ledger' = [ledger EXCEPT ![Slot(o)].pins = @ \cup {o}]
  /\ SetPhase(o, "pinned")
  /\ UNCHANGED <<files, marks, inputs, at, outcome, asked, maker, newest, live, crashes>>

(* ... then the claim file. *)
WriteClaim(o) ==
  /\ phase[o] = "pinned" /\ o \in live
  /\ files' = [files EXCEPT ![Slot(o)] = @ \cup {o}]
  /\ SetPhase(o, "acquiring") /\ at' = [at EXCEPT ![o] = @ + 1]
  /\ UNCHANGED <<ledger, marks, inputs, outcome, asked, maker, newest, live, crashes>>

(* An attempt keeps its process (it now takes snapshots); a declaration ends. *)
Register(o) ==
  /\ phase[o] = "acquiring" /\ o \in live /\ Done(o)
  /\ SetPhase(o, "registered") /\ at' = [at EXCEPT ![o] = 1]
  /\ live' = IF o \in Checkpoints THEN live \ {o} ELSE live
  /\ UNCHANGED <<ledger, files, marks, inputs, outcome, asked, maker, newest, crashes>>

(* The claim in the ledger, not the open admission, lets an attempt read. *)
MaySnapshot(r, v) == Unreleased(v, r) /\ Readable(v)

(* Its inputs are copied one by one before the workload starts. *)
Snapshot(r) ==
  /\ r \in Attempts /\ phase[r] = "registered" /\ r \in live /\ ~Done(r)
  /\ MaySnapshot(r, Slot(r))
  /\ at' = [at EXCEPT ![r] = @ + 1]
  /\ UNCHANGED <<ledger, files, marks, phase, inputs, outcome, asked, maker, newest, live, crashes>>

(* The attempt ends, or a later operator settles it from its evidence.  Only   *)
(* one that took every snapshot succeeds; the policy accepted with its output  *)
(* says whether the state it produced still needs the data it read.            *)
Settle(r, how) ==
  /\ r \in Attempts /\ phase[r] = "registered"
  /\ how \in {"needs-data", "needs-nothing"} => Done(r)
  /\ SetPhase(r, "settled") /\ outcome' = [outcome EXCEPT ![r] = how]
  /\ live' = live \ {r} /\ at' = [at EXCEPT ![r] = 1]
  /\ UNCHANGED <<ledger, files, marks, inputs, asked, maker, newest, crashes>>

Succeeded(r) == outcome[r] \in {"needs-data", "needs-nothing"}

(* A version is published once, staged beside the catalog and renamed into it  *)
(* under the catalog's lock.                                                   *)
Publishable(c) == phase[c] = "absent" /\ CatalogFree(c)

(* The accepted output of an attempt that started from what still is HEAD may  *)
(* become the next checkpoint; admission of its parent may have closed         *)
(* meanwhile.  The intent of a commit that was cut refuses only its own        *)
(* approval, which binds the round's generation: after a pause and a resume    *)
(* (not seen here) the same output may be committed again, as another version. *)
MayCommit(r) ==
  /\ r \in Runs /\ phase[r] \in {"settled", "cleaned"} /\ Succeeded(r) /\ RootFree(r)
  /\ inputs[r][2] = newest

Publish(r, c, as) ==
  /\ MayCommit(r) /\ Publishable(c)
  /\ SetPhase(c, as) /\ maker' = [maker EXCEPT ![c] = r]
  /\ UNCHANGED <<ledger, files, marks, inputs, at, outcome, asked, live>>

Commit(r, c) == Publish(r, c, "undeclared") /\ newest' = c /\ UNCHANGED crashes

(* The process dies between the publication and HEAD: the commit stays         *)
(* unconfirmed and the version an orphan.                                      *)
CommitIsCut(r, c) ==
  /\ Publish(r, c, "orphan") /\ crashes < MaxCrashes /\ crashes' = crashes + 1
  /\ UNCHANGED newest

(* The work copy and the snapshots are removed; the versions they were taken   *)
(* from must still be readable.                                                *)
Clean(r) ==
  /\ r \in Attempts /\ phase[r] = "settled"
  /\ \A i \in 1..Len(inputs[r]) : Readable(inputs[r][i])
  /\ SetPhase(r, "cleaned")
  /\ UNCHANGED <<ledger, files, marks, inputs, at, outcome, asked, maker, newest, live, crashes>>

(* ------------------------- owners give them back ------------------------- *)

(* The declaration's intent and its completion are both there, and no release. *)
Declared(c) == c \in Checkpoints /\ phase[c] = "registered"

\* Mutant: any state committed from the attempt covers its inputs.
CoveredByCommit(r) == \E c \in Checkpoints : maker[c] = r

(* The new state covers the attempt's inputs: a checkpoint committed from it,  *)
(* registered, depends on nothing else, and pins the data if and only if the   *)
(* accepted policy says so.                                                    *)
Covered(r) ==
  \E c \in Checkpoints :
    /\ maker[c] = r /\ Declared(c)
    /\ \A i \in 1..Len(inputs[c]) : inputs[c][i] = inputs[r][1]
    /\ outcome[r] = "needs-data"

(* A cancelled attempt needs no more; a successful one needs a consumed        *)
(* delivery and, with a state, the coverage of the state it produced.          *)
MayRelease(r) ==
  /\ phase[r] = "cleaned"
  /\ \/ outcome[r] = "cancelled"
     \/ Succeeded(r) /\ r \in Stateless
     \/ Succeeded(r) /\ Covered(r)
  /\ \A i \in 1..Len(inputs[r]) : Unreleased(inputs[r][i], r)

ReleaseInputs(r) ==
  /\ r \in Attempts /\ RootFree(r) /\ MayRelease(r)
  /\ SetPhase(r, "releasing") /\ live' = live \cup {r}
  /\ UNCHANGED <<ledger, files, marks, inputs, at, outcome, asked, maker, newest, crashes>>

(* Every submitted request for the checkpoint has an outcome: withdrawn before *)
(* its start, or settled with the claim it took on this state released.        *)
ReservationsOver(c) ==
  \A r \in asked :
    c \in {inputs[r][i] : i \in 1..Len(inputs[r])} =>
      \/ phase[r] = "withdrawn"
      \/ outcome[r] # "none" /\ r \in marks[c]

(* A closed checkpoint whose readers are done gives up its own pins. *)
ReleasePins(c) ==
  /\ Declared(c) /\ RevisionFree(c)
  /\ ledger[c].closed /\ ReadersReleased(c) /\ ReservationsOver(c)
  /\ SetPhase(c, "releasing") /\ live' = live \cup {c} /\ at' = [at EXCEPT ![c] = 1]
  /\ UNCHANGED <<ledger, files, marks, inputs, outcome, asked, maker, newest, crashes>>

MarkRelease(o) ==
  /\ phase[o] = "releasing" /\ o \in live /\ ~Done(o)
  /\ CatalogFree(Slot(o)) /\ o \notin marks[Slot(o)]
  /\ marks' = [marks EXCEPT ![Slot(o)] = @ \cup {o}] /\ at' = [at EXCEPT ![o] = @ + 1]
  /\ UNCHANGED <<ledger, files, phase, inputs, outcome, asked, maker, newest, live, crashes>>

Receipt(o) ==
  /\ phase[o] = "releasing" /\ o \in live /\ Done(o)
  /\ SetPhase(o, "released") /\ live' = live \ {o} /\ at' = [at EXCEPT ![o] = 1]
  /\ UNCHANGED <<ledger, files, marks, inputs, outcome, asked, maker, newest, crashes>>

(* -------------------- copies, closing and collection --------------------- *)

CopyStep(v, k, from, to) ==
  /\ ledger[v].copies[k] = from /\ ledger' = [ledger EXCEPT ![v].copies[k] = to]
  /\ UNCHANGED <<files, marks, phase, inputs, at, outcome, asked, maker, newest, crashes>>

Checkout(a, k) == Open(a) /\ CopyStep(a, k, "none", "opening") /\ live' = live \cup {<<a, k>>}

(* Reading follows the committed reservation, so closing cannot strand it; the *)
(* ledger still says opening until the written copy is recorded.               *)
ReadCopy(a, k) == <<a, k>> \in live /\ ledger[a].bytes /\ CopyStep(a, k, "opening", "read")
                  /\ UNCHANGED live
Copied(a, k) == <<a, k>> \in live /\ CopyStep(a, k, "read", "copied") /\ live' = live \ {<<a, k>>}
ReleaseCopy(a, k) == Readable(a) /\ CopyStep(a, k, "copied", "released")
                     /\ UNCHANGED live

\* Mutant: a checkpoint is closed beside a reservation that checked it.
CloseAnyTime(v) ==
  /\ Open(v)
  /\ v \in Checkpoints => InHistory(v)
  /\ ledger' = [ledger EXCEPT ![v].closed = TRUE]
  /\ UNCHANGED <<files, marks, phase, inputs, at, outcome, asked, maker, newest, live, crashes>>

(* Closing an artifact takes no lock but the transaction; closing a checkpoint *)
(* takes its revision's lock.                                                  *)
Close(v) ==
  /\ Open(v)
  /\ v \in Checkpoints => InHistory(v) /\ RevisionFree(v)
  /\ ledger' = [ledger EXCEPT ![v].closed = TRUE]
  /\ UNCHANGED <<files, marks, phase, inputs, at, outcome, asked, maker, newest, live, crashes>>

(* The intent commits first: a deletion whose process dies stays unconfirmed.  *)
Delete(a) ==
  /\ ledger[a].closed /\ Readable(a) /\ ReadersReleased(a)
  /\ ledger' = [ledger EXCEPT ![a].intent = TRUE] /\ live' = live \cup {a}
  /\ UNCHANGED <<files, marks, phase, inputs, at, outcome, asked, maker, newest, crashes>>

(* The second transaction checks the same evidence again, drops the bytes and  *)
(* records the receipt together.                                               *)
Drop(a) ==
  /\ a \in live /\ ledger[a].intent /\ ledger[a].bytes /\ ReadersReleased(a)
  /\ ledger' = [ledger EXCEPT ![a].bytes = FALSE] /\ live' = live \ {a}
  /\ UNCHANGED <<files, marks, phase, inputs, at, outcome, asked, maker, newest, crashes>>

(* A process dies, or one of its steps fails and it returns: a full disk, a    *)
(* busy catalog, a version closed under it.  What it wrote stays; a start that *)
(* reserved nothing yet leaves nothing.                                        *)
Crash(p) ==
  /\ p \in live /\ crashes < MaxCrashes
  /\ live' = live \ {p} /\ crashes' = crashes + 1
  /\ phase' = [o \in Owners |-> IF o = p /\ phase[o] = "reserving" THEN "idle" ELSE phase[o]]
  /\ UNCHANGED <<ledger, files, marks, inputs, at, outcome, asked, maker, newest>>

Selections(r) == IF r \in Stateless THEN {<<a>> : a \in Artifacts}
                 ELSE {<<a, c>> : a \in Artifacts, c \in Checkpoints}

CustodyNext ==
  \/ \E r \in Attempts :
       \/ \E sel \in Selections(r) : Reserve(r, sel) \/ Acquire(r, sel)
       \/ Submit(r) \/ Withdraw(r) \/ Snapshot(r) \/ Clean(r) \/ ReleaseInputs(r)
       \/ \E how \in {"cancelled", "failed", "needs-data", "needs-nothing"} : Settle(r, how)
       \/ \E c \in Checkpoints : Commit(r, c) \/ CommitIsCut(r, c)
  \/ \E c \in Checkpoints : ReleasePins(c) \/ \E a \in Artifacts : Declare(c, <<a>>)
  \/ \E o \in Owners : Pin(o) \/ WriteClaim(o) \/ Register(o) \/ MarkRelease(o) \/ Receipt(o)
  \/ \E v \in Versions : Close(v)
  \/ \E a \in Artifacts :
       \/ Delete(a) \/ Drop(a)
       \/ \E k \in Copies : Checkout(a, k) \/ ReadCopy(a, k) \/ Copied(a, k) \/ ReleaseCopy(a, k)
  \/ \E p \in live : Crash(p)

CustodySpec == CustodyInit /\ [][CustodyNext]_custody

(* ------------------------------ properties ------------------------------ *)

(* Bytes go only when nobody can read them: an admitted copy that is not       *)
(* released, and an attempt or checkpoint that holds a claim and has not its   *)
(* own final receipt, always find the bytes and no deletion under way, however *)
(* its process died (actions.rs:252, attempts.rs:47).                          *)
AdmittedCanRead ==
  \A v \in Versions :
    \/ ledger[v].bytes /\ ~ledger[v].intent
    \/ /\ \A o \in ledger[v].pins : phase[o] = "released"
       /\ \A k \in Copies : ledger[v].copies[k] \in {"none", "released"}

AskedFor(v) == {r \in asked : v \in {inputs[r][i] : i \in 1..Len(inputs[r])}}

(* Closing and admission have one order: once a version is closed no owner     *)
(* claims it and no copy opens, and no attempt reserves it as its state,       *)
(* whatever was already checked for it before (supervisor.rs:138).             *)
ClosingIsFinal ==
  [][\A v \in Versions : ledger[v].closed =>
       /\ v \in Checkpoints => AskedFor(v)' \subseteq AskedFor(v)
       /\ ledger'[v].pins = ledger[v].pins
       /\ \A k \in Copies : ledger[v].copies[k] = "none" => ledger'[v].copies[k] = "none"]_custody

InUse(r, c) ==
  /\ c \in {inputs[r][i] : i \in 1..Len(inputs[r])}
  /\ r \in asked \/ r \in ledger[c].pins
  /\ phase[r] \notin {"withdrawn", "released"}

(* A state keeps what it was made from: as long as a checkpoint whose policy   *)
(* needs the data of the attempt that made it is open to new attempts, or is   *)
(* asked for or held by one that is not over, that data can be read.  The data *)
(* changes hands on the way, from the attempt's claim to the checkpoint's pin  *)
(* (coverage.rs:155, retirement.rs:163, supervisor.rs:138).                    *)
StateKeepsItsSources ==
  \A c \in Checkpoints :
    (/\ InHistory(c) /\ maker[c] # Nobody /\ outcome[maker[c]] = "needs-data"
     /\ ~ledger[c].closed \/ \E r \in Attempts : InUse(r, c))
      => LET a == inputs[maker[c]][1] IN ledger[a].bytes /\ ~ledger[a].intent

(* Who reads, and who may still have to: bytes are kept for both.              *)
CustodySafe == CustodyTypeOK /\ AdmittedCanRead /\ StateKeepsItsSources
=============================================================================

-------------------------- MODULE WorkspaceLedger --------------------------
(***************************************************************************)
(* The workspace facts of one host process (WorkspaceLedger of             *)
(* an-agent-core and its face in AgentControl): an append-only log of      *)
(* registrations, configurations, environments and events, the             *)
(* content-addressed files the records cite, and env.md, a projection of   *)
(* the environment the log says is current.                                *)
(*                                                                         *)
(* The ledger's mutex makes each of its calls one step.  The admission of  *)
(* a name reads the registration in a call of its own, before.  A digest   *)
(* is the document it is of.                                               *)
(***************************************************************************)
EXTENDS Naturals, Sequences

CONSTANTS
  Thread,      \* threads of the host
  Name,        \* names a plugin may declare
  Document,    \* contents of configurations, environments, registrations
  Admits,      \* registration -> the <<kind, name>> it lists
  MaxRecords,  \* records ever drawn, a bound of the model
  None

Admitted == {"config", "env", "event"}
Kind == Admitted \cup {"register"}

ASSUME AdmitsAssumption == Admits \in [Document -> SUBSET (Admitted \X Name)]
ASSUME MaxRecordsAssumption == MaxRecords \in Nat
ASSUME NoneAssumption == None \notin Name /\ None \notin Document

VARIABLES
  log,         \* the complete lines of log.jsonl
  tail,        \* "none", "torn": an incomplete last line, "fused": see below
  synced,      \* how many lines a power loss cannot take
  blobs,       \* kind -> document -> state of the file that holds it
  safe,        \* environments whose file a power loss cannot take
  projection,  \* the document env.md shows, or None
  shadows,     \* what env.md may show instead after a power loss
  opened,      \* whether a process has the ledger open
  tasks,       \* thread -> the write it was admitted for, or None
  drawn,       \* records drawn so far
  acked        \* ids of environments put_env returned

files == <<blobs, safe>>
shown == <<projection, shadows>>
lines == <<log, tail, synced, drawn>>
vars == <<lines, files, shown, opened, tasks, acked>>

Record == [id : 1..MaxRecords, kind : Kind, name : Name \cup {None},
           sha : Document \cup {None}]
Task == [kind : Admitted, name : Name]

ASSUME NoneTaskAssumption == None \notin Task

TypeOK ==
  /\ log \in Seq(Record)
  /\ tail \in {"none", "torn", "fused"}
  /\ synced \in 0..Len(log)
  /\ blobs \in [{"config", "env", "register"} -> [Document -> {"absent", "torn", "whole"}]]
  /\ safe \in SUBSET Document
  /\ projection \in Document \cup {None}
  /\ shadows \in SUBSET (Document \cup {None})
  /\ opened \in BOOLEAN
  /\ tasks \in [Thread -> Task \cup {None}]
  /\ drawn \in 0..MaxRecords
  /\ acked \in SUBSET (1..MaxRecords)

----------------------------------------------------------------------------
(* Reading the log *)

\* An incomplete or garbled line anywhere refuses every read.
Readable == tail = "none"

Latest(indices) == IF indices = {} THEN 0 ELSE CHOOSE i \in indices : \A j \in indices : j <= i

LastKind(kind) == Latest({i \in DOMAIN log : log[i].kind = kind})
LastNamed(kind, name) ==
  Latest({i \in DOMAIN log : log[i].kind = kind /\ log[i].name = name})

IsLast(index, sha) == index # 0 /\ log[index].sha = sha

ShaAt(index) == IF index = 0 THEN None ELSE log[index].sha
CommittedEnv == ShaAt(LastKind("env"))

----------------------------------------------------------------------------
(* Writing *)

New(kind, name, sha) == [id |-> drawn + 1, kind |-> kind, name |-> name, sha |-> sha]

\* What became of the line: on disk for good, on disk but its sync failed,
\* incomplete, or not there.  A line behind an incomplete one fuses with it.
Outcome == {"synced", "unsynced", "torn", "nothing"}

AppendRecord(record, outcome) ==
  LET whole == outcome \in {"synced", "unsynced"} IN
  /\ drawn < MaxRecords
  /\ drawn' = drawn + 1
  /\ log' = IF whole /\ Readable THEN Append(log, record) ELSE log
  /\ tail' = CASE whole /\ ~Readable -> "fused"
               [] outcome = "torn" /\ Readable -> "torn"
               [] OTHER -> tail
  /\ synced' = IF outcome = "synced" THEN Len(log') ELSE synced

Done(t) == tasks' = [tasks EXCEPT ![t] = None]

\* env.md is replaced by a rename: with its directory synced, without, or not.
RefreshOutcome == {"synced", "renamed", "failed"}

RefreshEnvProjection(sha, outcome) ==
  /\ projection' = IF outcome = "failed" THEN projection ELSE sha
  /\ shadows' = CASE outcome = "synced" -> {}
                  [] outcome = "renamed" -> shadows \cup {projection}
                  [] outcome = "failed" -> shadows

\* config and register files are written in place, and never synced.
WriteBlob(kind, sha, result) ==
  /\ result \in IF blobs[kind][sha] = "absent" THEN {"absent", "torn", "whole"}
                ELSE {blobs[kind][sha]}
  /\ blobs' = [blobs EXCEPT ![kind][sha] = result]
  /\ UNCHANGED safe

\* Written with path.exists() false, an absent or torn result is an error.
BlobWritten(kind, sha, result) == blobs[kind][sha] # "absent" \/ result = "whole"

\* An environment is written aside, synced and linked: the file is whole or
\* not there.  "linked" is a failing sync of the directory, an error.
PublishEnvBlob(sha, result) ==
  /\ result \in {"failed", "linked", "synced"}
  /\ blobs' = IF result = "failed" THEN blobs ELSE [blobs EXCEPT !["env"][sha] = "whole"]
  /\ safe' = IF result = "synced" THEN {d \in Document : blobs'["env"][d] = "whole"} ELSE safe

----------------------------------------------------------------------------
(* Operations *)

\* refresh_env_projection of open reads the log after its sync.
OpenLedger(outcome) ==
  /\ ~opened
  /\ synced' = Len(log)
  /\ IF Readable THEN RefreshEnvProjection(CommittedEnv, outcome) ELSE UNCHANGED shown
  /\ opened' = (Readable /\ outcome = "synced")
  /\ UNCHANGED <<log, tail, drawn, files, tasks, acked>>

\* The current registration lists the name; its file parses.
Admit(t, kind, name) ==
  LET current == LastKind("register") IN
  /\ opened /\ tasks[t] = None
  /\ Readable
  /\ current # 0
  /\ blobs["register"][log[current].sha] = "whole"
  /\ <<kind, name>> \in Admits[log[current].sha]
  /\ tasks' = [tasks EXCEPT ![t] = [kind |-> kind, name |-> name]]
  /\ UNCHANGED <<lines, files, shown, opened, acked>>

\* The only write that does not read the log first.
PushEvent(t, outcome) ==
  /\ opened
  /\ tasks[t] # None /\ tasks[t].kind = "event"
  /\ AppendRecord(New("event", tasks[t].name, None), outcome)
  /\ Done(t)
  /\ UNCHANGED <<files, shown, opened, acked>>

\* The steps that put_config and put_register share.
PutDocument(kind, name, sha, result, outcome) ==
  LET existing == IF kind = "register" THEN LastKind(kind) ELSE LastNamed(kind, name) IN
  /\ \/ /\ ~Readable \/ IsLast(existing, sha)
        /\ UNCHANGED <<lines, files>>
     \/ /\ Readable /\ ~IsLast(existing, sha)
        /\ WriteBlob(kind, sha, result)
        /\ IF BlobWritten(kind, sha, result)
           THEN AppendRecord(New(kind, name, sha), outcome)
           ELSE UNCHANGED lines
  /\ UNCHANGED <<shown, opened, acked>>

PutRegister(sha, result, outcome) ==
  /\ opened
  /\ PutDocument("register", None, sha, result, outcome)
  /\ UNCHANGED tasks

PutConfig(t, sha, result, outcome) ==
  /\ opened
  /\ tasks[t] # None /\ tasks[t].kind = "config"
  /\ PutDocument("config", tasks[t].name, sha, result, outcome)
  /\ Done(t)

\* Mutant: the projection is refreshed from a record that may not be synced.
EnvAgainUnsynced(index, logged, refreshed) ==
  /\ RefreshEnvProjection(CommittedEnv, refreshed)
  /\ acked' = IF refreshed = "synced" THEN acked \cup {log[index].id} ELSE acked
  /\ UNCHANGED <<lines, files>>

\* The same text again: the record found may be one whose sync failed.
EnvAgain(index, logged, refreshed) ==
  /\ synced' = IF logged THEN Len(log) ELSE synced
  /\ IF logged THEN RefreshEnvProjection(CommittedEnv, refreshed) ELSE UNCHANGED shown
  /\ acked' = IF logged /\ refreshed = "synced" THEN acked \cup {log[index].id} ELSE acked
  /\ UNCHANGED <<log, tail, drawn, files>>

\* File, record, projection: each only after the one before it is durable.
NewEnv(name, sha, published, outcome, refreshed) ==
  /\ PublishEnvBlob(sha, published)
  /\ IF published = "synced" THEN AppendRecord(New("env", name, sha), outcome) ELSE UNCHANGED lines
  /\ IF published = "synced" /\ outcome = "synced"
     THEN RefreshEnvProjection(sha, refreshed) ELSE UNCHANGED shown
  /\ acked' = IF published = "synced" /\ outcome = "synced" /\ refreshed = "synced"
              THEN acked \cup {drawn'} ELSE acked

PutEnv(t, sha) ==
  /\ opened
  /\ tasks[t] # None /\ tasks[t].kind = "env"
  /\ LET name == tasks[t].name
         existing == LastNamed("env", name)
     IN \/ ~Readable /\ UNCHANGED <<lines, files, shown, acked>>
        \/ /\ Readable /\ IsLast(existing, sha)
           /\ \E logged \in BOOLEAN, refreshed \in RefreshOutcome :
                EnvAgain(existing, logged, refreshed)
        \/ /\ Readable /\ ~IsLast(existing, sha)
           /\ \E published \in {"failed", "linked", "synced"}, outcome \in Outcome,
                 refreshed \in RefreshOutcome :
                NewEnv(name, sha, published, outcome, refreshed)
  /\ Done(t)
  /\ UNCHANGED opened

----------------------------------------------------------------------------
(* Failures *)

\* What a call in progress leaves is what the same call leaves when it fails.
Kill ==
  /\ opened' = FALSE
  /\ tasks' = [t \in Thread |-> None]
  /\ UNCHANGED <<lines, files, shown, acked>>

BlobStates == [Document -> {"absent", "torn", "whole"}]
Survivors(kind) ==
  {states \in BlobStates : \A d \in Document :
     states[d] \in IF blobs[kind][d] = "whole" THEN {"absent", "torn", "whole"}
                   ELSE {"absent", blobs[kind][d]}}

\* Lines and files that were not synced survive or not, files in place also in
\* part; an environment was synced before it was linked.
PowerLoss ==
  /\ opened' = FALSE
  /\ tasks' = [t \in Thread |-> None]
  /\ \E k \in synced..Len(log) :
       /\ log' = SubSeq(log, 1, k)
       /\ synced' = k
       /\ tail' \in IF k < Len(log) THEN {"none", "torn"}
                    ELSE IF tail = "fused" THEN {"fused", "torn"} ELSE {tail, "none"}
  /\ \E env \in BlobStates, config \in Survivors("config"), register \in Survivors("register") :
       /\ \A d \in Document : env[d] \in IF d \in safe THEN {"whole"} ELSE {"absent", blobs["env"][d]}
       /\ blobs' = [config |-> config, env |-> env, register |-> register]
  /\ safe' = {d \in Document : blobs'["env"][d] = "whole"}
  /\ projection' \in {projection} \cup shadows
  /\ shadows' = {}
  /\ UNCHANGED <<drawn, acked>>

----------------------------------------------------------------------------

Init ==
  /\ log = <<>> /\ tail = "none" /\ synced = 0 /\ drawn = 0
  /\ blobs = [kind \in {"config", "env", "register"} |-> [d \in Document |-> "absent"]]
  /\ safe = {}
  /\ projection = None /\ shadows = {}
  /\ opened = FALSE
  /\ tasks = [t \in Thread |-> None]
  /\ acked = {}

Next ==
  \/ \E outcome \in RefreshOutcome : OpenLedger(outcome)
  \/ \E t \in Thread, kind \in Admitted, name \in Name : Admit(t, kind, name)
  \/ \E t \in Thread, outcome \in Outcome : PushEvent(t, outcome)
  \/ \E sha \in Document, result \in {"absent", "torn", "whole"}, outcome \in Outcome :
       \/ PutRegister(sha, result, outcome)
       \/ \E t \in Thread : PutConfig(t, sha, result, outcome)
  \/ \E t \in Thread, sha \in Document : PutEnv(t, sha)
  \/ Kill
  \/ PowerLoss

Spec == Init /\ [][Next]_vars

----------------------------------------------------------------------------
(* Properties *)

\* Every environment the log cites can be read back and verified, whatever
\* failed around it: a missing or damaged file would refuse every cite, and
\* with it every admission and every open.
EnvBytesStay ==
  \A i \in DOMAIN log : log[i].kind = "env" => blobs["env"][log[i].sha] = "whole"

\* env.md never shows an environment that a power loss could still take out of
\* the log: a reader of the file and a reader of the log after a restart agree
\* on what was once current.
ProjectionIsDurable ==
  projection # None =>
    \E i \in 1..synced : log[i].kind = "env" /\ log[i].sha = projection

\* An environment put_env returned stays in the log, also when it returned one
\* that an earlier, failed call had left there.
AckedEnvStays ==
  \A id \in acked : \E i \in 1..synced : log[i].id = id /\ log[i].kind = "env"

\* Retries after lost answers never make a second generation of the same
\* text: a generation changes, and reviews are invalidated, only with the bytes.
GenerationsDiffer ==
  \A i, j \in DOMAIN log :
    /\ i < j /\ log[i].kind # "event"
    /\ log[j].kind = log[i].kind /\ log[j].name = log[i].name
    /\ \A k \in i + 1 .. j - 1 : log[k].kind # log[i].kind \/ log[k].name # log[i].name
    => log[i].sha # log[j].sha

\* The documentation of register: "A different list is a new snapshot. Older
\* bytes stay readable."
RegisteredBytesStay ==
  \A i \in DOMAIN log : log[i].kind = "register" => blobs["register"][log[i].sha] = "whole"

\* What a caller of the workspace may rely on after any failure: environments it
\* can read back, an env.md that no restart contradicts, acknowledged documents
\* that stay, and no second generation of one text. (workspace.rs:150)
FilesSafe ==
  TypeOK /\ EnvBytesStay /\ ProjectionIsDurable /\ AckedEnvStays /\ GenerationsDiffer
=============================================================================

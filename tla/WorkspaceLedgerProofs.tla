----------------------- MODULE WorkspaceLedgerProofs -----------------------
(***************************************************************************)
(* Proofs about the workspace facts of a host, for any number of threads,  *)
(* names, documents, records, failing writes and power losses.             *)
(***************************************************************************)
EXTENDS WorkspaceLedger, SequenceTheorems, WellFoundedInduction, TLAPS

Durable(d) == \E i \in 1..synced : log[i].kind = "env" /\ log[i].sha = d

\* A safe file is whole, and only safe files are cited.
SafeIsWhole == \A d \in safe : blobs["env"][d] = "whole"
CitedIsSafe == \A i \in DOMAIN log : log[i].kind = "env" => log[i].sha \in safe

\* What env.md may fall back to is as durable as what it shows.
ShadowsAreDurable == \A d \in shadows : d # None => Durable(d)

RegistersUnnamed == \A i \in DOMAIN log : log[i].kind = "register" => log[i].name = None

\* The strengthening that every step preserves.
LedgerInv ==
  /\ FilesSafe
  /\ SafeIsWhole /\ CitedIsSafe /\ ShadowsAreDurable /\ RegistersUnnamed

\* The record is not the text that is current already.
Differs(r) ==
  \A i \in DOMAIN log :
    /\ r.kind # "event" /\ log[i].kind = r.kind /\ log[i].name = r.name
    /\ \A k \in i + 1 .. Len(log) : log[k].kind # r.kind \/ log[k].name # r.name
    => log[i].sha # r.sha

\* What a power loss cannot take is still there.
PrefixStays == synced <= synced' /\ \A i \in 1..synced : log'[i] = log[i]

----------------------------------------------------------------------------
(* Lemmas about the operators *)

\* A finite set of positions has a last one.
LEMMA LatestIsLast ==
  ASSUME NEW n \in Nat, NEW S \in SUBSET (1..n), S # {}
  PROVE  Latest(S) \in S /\ \A j \in S : j <= Latest(S)
<1> DEFINE R == OpToRel(<, Nat)
<1>1. \A x, y \in Nat : <<x, y>> \in R <=> x < y
  BY DEF OpToRel
<1>2. IsWellFoundedOn(R, Nat)
  BY NatLessThanWellFounded
<1> HIDE DEF R
<1> DEFINE T == {n - i : i \in S}
<1>3. T \subseteq Nat /\ T # {}
  <2>1. \A i \in S : i \in 1..n /\ n - i \in Nat
    OBVIOUS
  <2>2. PICK m \in S : TRUE
    OBVIOUS
  <2>3. n - m \in T
    OBVIOUS
  <2> QED
    BY <2>1, <2>3
<1>4. PICK x \in T : \A y \in T : ~(<<y, x>> \in R)
  BY <1>2, <1>3, WFMin
<1>5. PICK m \in S : x = n - m
  BY DEF T
<1>6. \A j \in S : j <= m
  <2> TAKE j \in S
  <2>1. n - j \in T /\ n - j \in Nat /\ x \in Nat
    BY <1>3, <1>5
  <2>2. ~(n - j < x)
    BY <1>1, <1>4, <2>1
  <2> QED
    BY <1>5, <2>1, <2>2
<1> QED
  BY <1>6 DEF Latest

LEMMA LogType ==
  ASSUME TypeOK
  PROVE  /\ log \in Seq(Record) /\ Len(log) \in Nat /\ DOMAIN log = 1..Len(log)
         /\ synced \in 0..Len(log) /\ synced \in Nat
         /\ \A i \in DOMAIN log : log[i] \in Record
<1>1. log \in Seq(Record) /\ synced \in 0..Len(log)
  BY DEF TypeOK
<1> QED
  BY <1>1, LenProperties, ElementOfSeq

\* Records keep their places behind an appended one.
LEMMA AppendedLog ==
  ASSUME TypeOK, NEW r \in Record, log' = Append(log, r)
  PROVE  /\ log' \in Seq(Record) /\ Len(log') = Len(log) + 1
         /\ DOMAIN log' = 1..(Len(log) + 1) /\ log'[Len(log) + 1] = r
         /\ \A i \in 1..Len(log) : log'[i] = log[i]
<1>1. /\ log' \in Seq(Record) /\ Len(log') = Len(log) + 1 /\ log'[Len(log) + 1] = r
      /\ \A i \in 1..Len(log) : log'[i] = log[i]
  BY LogType, AppendProperties
<1> QED
  BY <1>1, LenProperties

LEMMA LastKindIs ==
  ASSUME TypeOK, NEW kind, LastKind(kind) # 0
  PROVE  /\ LastKind(kind) \in 1..Len(log) /\ log[LastKind(kind)].kind = kind
         /\ \A i \in DOMAIN log : log[i].kind = kind => i <= LastKind(kind)
<1> DEFINE S == {i \in DOMAIN log : log[i].kind = kind}
<1>1. S \in SUBSET (1..Len(log)) /\ Len(log) \in Nat
  BY LogType
<1>2. LastKind(kind) = Latest(S)
  BY DEF LastKind
<1>3. S # {}
  BY <1>2 DEF Latest
<1>4. Latest(S) \in S /\ \A j \in S : j <= Latest(S)
  BY <1>1, <1>3, LatestIsLast
<1> QED
  BY <1>1, <1>2, <1>4

\* A text that is not the current one of its kind, or of its name, differs from it.
LEMMA NewDiffers ==
  ASSUME TypeOK, RegistersUnnamed, NEW kind \in Kind, NEW name, NEW sha,
         \/ ~IsLast(LastNamed(kind, name), sha)
         \/ kind = "register" /\ name = None /\ ~IsLast(LastKind(kind), sha)
  PROVE  Differs(New(kind, name, sha))
<1> SUFFICES ASSUME NEW i \in DOMAIN log, log[i].kind = kind, log[i].name = name,
                    \A k \in i + 1 .. Len(log) : log[k].kind # kind \/ log[k].name # name
             PROVE  log[i].sha # sha
  BY DEF Differs, New
<1> DEFINE S == {j \in DOMAIN log : log[j].kind = kind /\ log[j].name = name}
<1>1. S \in SUBSET (1..Len(log)) /\ Len(log) \in Nat /\ i \in S /\ i \in 1..Len(log)
  BY LogType
<1>2. Latest(S) \in S /\ \A j \in S : j <= Latest(S)
  BY <1>1, LatestIsLast
<1>3. Latest(S) \in 1..Len(log) /\ i <= Latest(S) /\ ~(Latest(S) \in i + 1 .. Len(log))
  BY <1>1, <1>2
<1>4. Latest(S) = i /\ i # 0
  BY <1>1, <1>3
<1>5. CASE ~IsLast(LastNamed(kind, name), sha)
  BY <1>4, <1>5 DEF IsLast, LastNamed
<1>6. CASE kind = "register" /\ name = None /\ ~IsLast(LastKind(kind), sha)
  <2>1. S = {j \in DOMAIN log : log[j].kind = kind}
    BY <1>6 DEF RegistersUnnamed
  <2> QED
    BY <1>4, <1>6, <2>1 DEF IsLast, LastKind
<1> QED
  BY <1>5, <1>6

\* Generations differ in a log that grows by a text that is not current.
LEMMA GenerationsGrow ==
  ASSUME TypeOK, GenerationsDiffer, NEW r \in Record, Differs(r), log' = Append(log, r)
  PROVE  GenerationsDiffer'
<1> DEFINE n == Len(log)
<1>1. /\ DOMAIN log' = 1..(n + 1) /\ DOMAIN log = 1..n /\ n \in Nat
      /\ log'[n + 1] = r /\ \A i \in 1..n : log'[i] = log[i]
  BY LogType, AppendedLog
<1> SUFFICES ASSUME NEW i \in DOMAIN log', NEW j \in DOMAIN log', i < j,
                    log'[i].kind # "event",
                    log'[j].kind = log'[i].kind, log'[j].name = log'[i].name,
                    \A k \in i + 1 .. j - 1 :
                      log'[k].kind # log'[i].kind \/ log'[k].name # log'[i].name
             PROVE  log'[i].sha # log'[j].sha
  BY DEF GenerationsDiffer
<1> HIDE DEF n
<1>2. i \in 1..n /\ i \in Nat /\ log'[i] = log[i]
  BY <1>1
<1>3. CASE j \in 1..n
  <2>1. log'[j] = log[j] /\ \A k \in i + 1 .. j - 1 : k \in 1..n /\ log'[k] = log[k]
    BY <1>1, <1>2, <1>3
  <2>2. /\ log[i].kind # "event" /\ log[j].kind = log[i].kind /\ log[j].name = log[i].name
        /\ \A k \in i + 1 .. j - 1 : log[k].kind # log[i].kind \/ log[k].name # log[i].name
    BY <1>2, <2>1
  <2>3. i \in DOMAIN log /\ j \in DOMAIN log
    BY <1>1, <1>2, <1>3
  <2> QED
    BY <1>2, <2>1, <2>2, <2>3 DEF GenerationsDiffer
<1>4. CASE j = n + 1
  <2>1. log'[j] = r /\ \A k \in i + 1 .. n : k \in i + 1 .. j - 1 /\ k \in 1..n /\ log'[k] = log[k]
    BY <1>1, <1>2, <1>4
  <2> QED
    BY <1>1, <1>2, <2>1 DEF Differs, n
<1> QED
  BY <1>1, <1>3, <1>4

\* And in every log that is cut.
LEMMA GenerationsCut ==
  ASSUME TypeOK, GenerationsDiffer, NEW k \in 0..Len(log), log' = SubSeq(log, 1, k)
  PROVE  /\ GenerationsDiffer'
         /\ log' \in Seq(Record) /\ Len(log') = k /\ DOMAIN log' = 1..k
         /\ \A i \in 1..k : i \in DOMAIN log /\ log'[i] = log[i]
<1>1. log \in Seq(Record) /\ Len(log) \in Nat /\ DOMAIN log = 1..Len(log) /\ k \in Nat
  BY LogType
<1>2. log' \in Seq(Record) /\ Len(log') = k /\ \A i \in 1..k : log'[i] = log[i]
  BY <1>1, SubSeqProperties
<1>3. DOMAIN log' = 1..k /\ \A i \in 1..k : i \in DOMAIN log
  BY <1>1, <1>2, LenProperties
<1>4. GenerationsDiffer'
  <2> SUFFICES ASSUME NEW i \in 1..k, NEW j \in 1..k, i < j,
                      log'[i].kind # "event",
                      log'[j].kind = log'[i].kind, log'[j].name = log'[i].name,
                      \A m \in i + 1 .. j - 1 :
                        log'[m].kind # log'[i].kind \/ log'[m].name # log'[i].name
               PROVE  log'[i].sha # log'[j].sha
    <3> SUFFICES ASSUME NEW i \in DOMAIN log', NEW j \in DOMAIN log', i < j,
                        log'[i].kind # "event",
                        log'[j].kind = log'[i].kind, log'[j].name = log'[i].name,
                        \A m \in i + 1 .. j - 1 :
                          log'[m].kind # log'[i].kind \/ log'[m].name # log'[i].name
                 PROVE  log'[i].sha # log'[j].sha
      BY DEF GenerationsDiffer
    <3> QED
      BY <1>3
  <2>1. \A m \in i + 1 .. j - 1 : m \in 1..k /\ log'[m] = log[m]
    BY <1>1, <1>2
  <2>2. log'[i] = log[i] /\ log'[j] = log[j] /\ i \in DOMAIN log /\ j \in DOMAIN log
    BY <1>2, <1>3
  <2>3. /\ log[i].kind # "event" /\ log[j].kind = log[i].kind /\ log[j].name = log[i].name
        /\ \A m \in i + 1 .. j - 1 : log[m].kind # log[i].kind \/ log[m].name # log[i].name
    BY <2>1, <2>2
  <2> QED
    BY <2>2, <2>3 DEF GenerationsDiffer
<1> QED
  BY <1>2, <1>3, <1>4

----------------------------------------------------------------------------
(* What the parts of an operation keep *)

\* The part of the invariant that the lines carry by themselves.
LinesInv ==
  /\ log \in Seq(Record) /\ tail \in {"none", "torn", "fused"}
  /\ synced \in 0..Len(log) /\ drawn \in 0..MaxRecords
  /\ GenerationsDiffer /\ RegistersUnnamed

\* A record is drawn, and its line is there or not.
LEMMA AppendKeeps ==
  ASSUME LedgerInv, NEW r \in Record, NEW outcome \in Outcome, AppendRecord(r, outcome),
         Readable => Differs(r),
         r.kind = "register" => r.name = None
  PROVE  /\ LinesInv' /\ PrefixStays
         /\ log' = log \/ log' = Append(log, r)
         /\ outcome = "synced" /\ Readable => log' = Append(log, r) /\ synced' = Len(log) + 1
<1>1. TypeOK /\ GenerationsDiffer /\ RegistersUnnamed
  BY DEF LedgerInv, FilesSafe
<1>2. /\ log \in Seq(Record) /\ Len(log) \in Nat /\ DOMAIN log = 1..Len(log)
      /\ synced \in 0..Len(log) /\ synced \in Nat
      /\ drawn \in 0..MaxRecords /\ MaxRecords \in Nat /\ tail \in {"none", "torn", "fused"}
  BY <1>1, LogType, MaxRecordsAssumption DEF TypeOK
<1>3. drawn' \in 0..MaxRecords
  BY <1>2 DEF AppendRecord
<1>4. tail' \in {"none", "torn", "fused"}
  BY <1>2 DEF AppendRecord
<1>5. synced' = synced \/ synced' = Len(log')
  BY DEF AppendRecord
<1>6. CASE log' = log
  <2>1. synced' \in 0..Len(log') /\ PrefixStays
    BY <1>2, <1>5, <1>6 DEF PrefixStays
  <2>2. GenerationsDiffer' /\ RegistersUnnamed'
    BY <1>1, <1>6 DEF GenerationsDiffer, RegistersUnnamed
  <2>3. ~(outcome = "synced" /\ Readable)
    <3>1. log \in Seq(Record) /\ r \in Record
      BY <1>2
    <3>2. Len(Append(log, r)) = Len(log) + 1
      BY <3>1, AppendProperties
    <3>3. Len(log) # Len(log) + 1
      <4>1. \A n \in Nat : n # n + 1
        OBVIOUS
      <4> QED
        BY <1>2, <4>1, Zenon
    <3> QED
      BY <1>6, <3>2, <3>3 DEF AppendRecord
  <2> QED
    BY <1>2, <1>3, <1>4, <1>6, <2>1, <2>2, <2>3 DEF LinesInv
<1>7. CASE Readable /\ log' = Append(log, r)
  <2>1. /\ log' \in Seq(Record) /\ Len(log') = Len(log) + 1
        /\ DOMAIN log' = 1..(Len(log) + 1) /\ log'[Len(log) + 1] = r
        /\ \A i \in 1..Len(log) : log'[i] = log[i]
    BY <1>1, <1>7, AppendedLog
  <2>2. synced' \in 0..Len(log') /\ PrefixStays
    BY <1>2, <1>5, <2>1 DEF PrefixStays
  <2>3. GenerationsDiffer'
    BY <1>1, <1>7, GenerationsGrow
  <2>4. RegistersUnnamed'
    BY <1>1, <1>2, <2>1 DEF RegistersUnnamed
  <2>5. outcome = "synced" => synced' = Len(log) + 1
    BY <2>1 DEF AppendRecord
  <2> QED
    BY <1>3, <1>4, <1>7, <2>1, <2>2, <2>3, <2>4, <2>5 DEF LinesInv
<1>8. log' = log \/ (Readable /\ log' = Append(log, r))
  BY DEF AppendRecord
<1> QED
  BY <1>6, <1>7, <1>8

\* The lines stay, and what a sync adds is safe with them.
LEMMA LinesStay ==
  ASSUME LedgerInv, UNCHANGED <<log, tail, drawn>>, synced' = synced \/ synced' = Len(log)
  PROVE  LinesInv' /\ PrefixStays
<1>1. TypeOK /\ GenerationsDiffer /\ RegistersUnnamed
  BY DEF LedgerInv, FilesSafe
<1>2. synced' \in 0..Len(log') /\ PrefixStays
  BY <1>1, LogType DEF PrefixStays
<1>3. GenerationsDiffer' /\ RegistersUnnamed'
  BY <1>1 DEF GenerationsDiffer, RegistersUnnamed
<1> QED
  BY <1>1, <1>2, <1>3 DEF LinesInv, TypeOK

\* The part that the files carry: what is safe stays safe and whole.
FilesInv ==
  /\ blobs \in [{"config", "env", "register"} -> [Document -> {"absent", "torn", "whole"}]]
  /\ safe \in SUBSET Document /\ SafeIsWhole

LEMMA BlobKeeps ==
  ASSUME LedgerInv, NEW kind \in {"config", "register"}, NEW sha \in Document, NEW result,
         WriteBlob(kind, sha, result)
  PROVE  FilesInv' /\ safe' = safe
<1>1. /\ blobs \in [{"config", "env", "register"} -> [Document -> {"absent", "torn", "whole"}]]
      /\ safe \in SUBSET Document /\ SafeIsWhole
  BY DEF LedgerInv, FilesSafe, TypeOK
<1>2. /\ safe' = safe /\ result \in {"absent", "torn", "whole"}
      /\ blobs' = [blobs EXCEPT ![kind] = [blobs[kind] EXCEPT ![sha] = result]]
  BY <1>1 DEF WriteBlob
<1>3. [blobs[kind] EXCEPT ![sha] = result] \in [Document -> {"absent", "torn", "whole"}]
  BY <1>1, <1>2
<1>4. /\ blobs' \in [{"config", "env", "register"} -> [Document -> {"absent", "torn", "whole"}]]
      /\ blobs'["env"] = blobs["env"]
  BY <1>1, <1>2, <1>3
<1> QED
  BY <1>1, <1>2, <1>4 DEF FilesInv, SafeIsWhole

LEMMA PublishKeeps ==
  ASSUME LedgerInv, NEW sha \in Document, NEW result, PublishEnvBlob(sha, result)
  PROVE  FilesInv' /\ safe \subseteq safe' /\ (result = "synced" => sha \in safe')
<1>1. /\ blobs \in [{"config", "env", "register"} -> [Document -> {"absent", "torn", "whole"}]]
      /\ safe \in SUBSET Document /\ SafeIsWhole
  BY DEF LedgerInv, FilesSafe, TypeOK
<1>2. \/ blobs' = blobs
      \/ blobs' = [blobs EXCEPT !["env"] = [blobs["env"] EXCEPT ![sha] = "whole"]]
  BY DEF PublishEnvBlob
<1>3. [blobs["env"] EXCEPT ![sha] = "whole"] \in [Document -> {"absent", "torn", "whole"}]
  BY <1>1
<1>4. blobs' \in [{"config", "env", "register"} -> [Document -> {"absent", "torn", "whole"}]]
  BY <1>1, <1>2, <1>3
<1>5. \A d \in Document : blobs["env"][d] = "whole" => blobs'["env"][d] = "whole"
  BY <1>1, <1>2
<1>6. result = "synced" => blobs'["env"][sha] = "whole"
  BY <1>1 DEF PublishEnvBlob
<1>7. safe' = safe \/ (result = "synced" /\ safe' = {d \in Document : blobs'["env"][d] = "whole"})
  BY DEF PublishEnvBlob
<1>8. result = "synced" => safe' = {d \in Document : blobs'["env"][d] = "whole"}
  BY DEF PublishEnvBlob
<1> QED
  BY <1>1, <1>4, <1>5, <1>6, <1>7, <1>8 DEF FilesInv, SafeIsWhole

\* What a power loss cannot take is durable behind any step that keeps it.
LEMMA DurableStays ==
  ASSUME TypeOK, PrefixStays, synced' \in Nat, NEW d, Durable(d)
  PROVE  Durable(d)'
<1>1. synced \in Nat
  BY LogType
<1>2. PICK i \in 1..synced : log[i].kind = "env" /\ log[i].sha = d
  BY DEF Durable
<1>3. i \in 1..synced' /\ log'[i] = log[i]
  BY <1>1, <1>2 DEF PrefixStays
<1> QED
  BY <1>2, <1>3 DEF Durable

LEMMA AckedStay ==
  ASSUME LedgerInv, PrefixStays, synced' \in Nat, NEW id \in acked
  PROVE  \E i \in 1..synced' : log'[i].id = id /\ log'[i].kind = "env"
<1>1. synced \in Nat
  BY LogType DEF LedgerInv, FilesSafe
<1>2. PICK i \in 1..synced : log[i].id = id /\ log[i].kind = "env"
  BY DEF LedgerInv, FilesSafe, AckedEnvStays
<1>3. i \in 1..synced' /\ log'[i] = log[i]
  BY <1>1, <1>2 DEF PrefixStays
<1> QED
  BY <1>2, <1>3

\* The part that env.md carries.
ShownInv ==
  /\ projection \in Document \cup {None} /\ shadows \in SUBSET (Document \cup {None})
  /\ ProjectionIsDurable /\ ShadowsAreDurable

LEMMA ShownStays ==
  ASSUME LedgerInv, PrefixStays, synced' \in Nat, UNCHANGED shown
  PROVE  ShownInv'
<1>1. TypeOK /\ ProjectionIsDurable /\ ShadowsAreDurable /\ UNCHANGED <<projection, shadows>>
  BY DEF LedgerInv, FilesSafe, shown
<1>2. \A d : Durable(d) => Durable(d)'
  BY <1>1, DurableStays
<1>3. ProjectionIsDurable'
  BY <1>1, <1>2 DEF ProjectionIsDurable, Durable
<1>4. ShadowsAreDurable'
  BY <1>1, <1>2 DEF ShadowsAreDurable
<1> QED
  BY <1>1, <1>3, <1>4 DEF ShownInv, TypeOK

\* env.md is replaced only by what is durable.
LEMMA RefreshKeeps ==
  ASSUME LedgerInv, PrefixStays, synced' \in Nat, NEW outcome \in RefreshOutcome,
         NEW sha \in Document \cup {None}, sha # None => Durable(sha)',
         RefreshEnvProjection(sha, outcome)
  PROVE  ShownInv'
<1>1. /\ TypeOK /\ ProjectionIsDurable /\ ShadowsAreDurable
      /\ projection \in Document \cup {None} /\ shadows \in SUBSET (Document \cup {None})
  BY DEF LedgerInv, FilesSafe, TypeOK
<1>2. \A d : Durable(d) => Durable(d)'
  BY <1>1, DurableStays
<1>3. projection' \in {projection, sha} /\ shadows' \subseteq shadows \cup {projection}
  BY DEF RefreshEnvProjection, RefreshOutcome
<1>4. projection # None => Durable(projection)
  BY <1>1 DEF ProjectionIsDurable, Durable
<1>5. \A d \in {projection, sha} \cup shadows : d # None => Durable(d)'
  BY <1>1, <1>2, <1>4 DEF ShadowsAreDurable
<1>6. ProjectionIsDurable'
  BY <1>3, <1>5 DEF ProjectionIsDurable, Durable
<1>7. ShadowsAreDurable'
  BY <1>3, <1>5 DEF ShadowsAreDurable
<1> QED
  BY <1>1, <1>3, <1>6, <1>7 DEF ShownInv

----------------------------------------------------------------------------
(* The invariant *)

TasksInv == opened \in BOOLEAN /\ tasks \in [Thread -> Task \cup {None}]
AckedInv == acked \in SUBSET (1..MaxRecords) /\ AckedEnvStays

LEMMA Reassemble ==
  LinesInv' /\ FilesInv' /\ CitedIsSafe' /\ ShownInv' /\ TasksInv' /\ AckedInv' => LedgerInv'
<1>1. FilesInv' /\ CitedIsSafe' => EnvBytesStay'
  BY DEF FilesInv, SafeIsWhole, CitedIsSafe, EnvBytesStay
<1> QED
  BY <1>1 DEF LinesInv, FilesInv, ShownInv, TasksInv, AckedInv, LedgerInv, FilesSafe, TypeOK

LEMMA LedgerParts ==
  LedgerInv => LinesInv /\ FilesInv /\ CitedIsSafe /\ ShownInv /\ TasksInv /\ AckedInv
BY DEF LinesInv, FilesInv, ShownInv, TasksInv, AckedInv, LedgerInv, FilesSafe, TypeOK

LEMMA FilesStay ==
  ASSUME LedgerInv, UNCHANGED files
  PROVE  FilesInv'
BY LedgerParts DEF FilesInv, SafeIsWhole, files

LEMMA CitedStays ==
  ASSUME LedgerInv, log' = log, safe \subseteq safe'
  PROVE  CitedIsSafe'
BY LedgerParts DEF CitedIsSafe

LEMMA CitedGrows ==
  ASSUME LedgerInv, NEW r \in Record, log' = log \/ log' = Append(log, r),
         safe \subseteq safe', r.kind = "env" => r.sha \in safe'
  PROVE  CitedIsSafe'
<1>1. TypeOK /\ CitedIsSafe
  BY DEF LedgerInv, FilesSafe
<1>2. CASE log' = Append(log, r)
  BY <1>1, <1>2, LogType, AppendedLog DEF CitedIsSafe
<1> QED
  BY <1>2, CitedStays

LEMMA AckedKeeps ==
  ASSUME LedgerInv, PrefixStays, synced' \in Nat, UNCHANGED acked
  PROVE  AckedInv'
BY AckedStay, LedgerParts DEF AckedInv, AckedEnvStays

LEMMA TaskKeeps ==
  ASSUME LedgerInv, NEW t \in Thread, Done(t), UNCHANGED opened
  PROVE  TasksInv'
BY LedgerParts DEF Done, TasksInv

\* The identity of a new record, and its other fields.
LEMMA NewType ==
  ASSUME LedgerInv, NEW kind \in Kind, NEW name \in Name \cup {None}, NEW sha \in Document \cup {None},
         drawn < MaxRecords
  PROVE  /\ New(kind, name, sha) \in Record
         /\ New(kind, name, sha).kind = kind /\ New(kind, name, sha).name = name
         /\ New(kind, name, sha).sha = sha /\ New(kind, name, sha).id = drawn + 1
         /\ drawn + 1 \in 1..MaxRecords
BY LedgerParts, MaxRecordsAssumption DEF New, Record, LinesInv

LEMMA CommittedType ==
  ASSUME LedgerInv
  PROVE  /\ CommittedEnv \in Document \cup {None}
         /\ CommittedEnv # None =>
              \E i \in 1..Len(log) : log[i].kind = "env" /\ log[i].sha = CommittedEnv
<1>1. TypeOK /\ CitedIsSafe
  BY DEF LedgerInv, FilesSafe
<1>2. CASE LastKind("env") = 0
  BY <1>2 DEF CommittedEnv, ShaAt
<1>3. CASE LastKind("env") # 0
  <2>1. LastKind("env") \in 1..Len(log) /\ log[LastKind("env")].kind = "env"
    BY <1>1, <1>3, LastKindIs
  <2>2. CommittedEnv = log[LastKind("env")].sha
    BY <1>3 DEF CommittedEnv, ShaAt
  <2>3. log[LastKind("env")].sha \in safe
    BY <1>1, <2>1, LogType DEF CitedIsSafe
  <2> QED
    BY <1>1, <2>1, <2>2, <2>3 DEF TypeOK
<1> QED
  BY <1>2, <1>3

\* Synced to its end, the log holds what is current for good.
LEMMA RefreshCurrent ==
  ASSUME LedgerInv, UNCHANGED <<log, tail, drawn>>, synced' = Len(log),
         NEW outcome \in RefreshOutcome, RefreshEnvProjection(CommittedEnv, outcome)
  PROVE  ShownInv'
<1> PICK sha : sha = CommittedEnv
  OBVIOUS
<1>1. sha \in Document \cup {None} /\ (sha # None => Durable(sha)')
  BY CommittedType DEF Durable
<1>2. PrefixStays /\ synced' \in Nat
  BY LinesStay, LogType DEF LedgerInv, FilesSafe
<1> QED
  BY <1>1, <1>2, RefreshKeeps

LEMMA OpenKeeps ==
  ASSUME LedgerInv, NEW outcome \in RefreshOutcome, OpenLedger(outcome)
  PROVE  LedgerInv'
<1>1. UNCHANGED <<log, tail, drawn, files, tasks, acked>> /\ synced' = Len(log)
  BY DEF OpenLedger
<1>2. LinesInv' /\ PrefixStays
  BY <1>1, LinesStay
<1>3. synced' \in Nat
  BY <1>1, LogType DEF LedgerInv, FilesSafe
<1>4. ShownInv'
  BY <1>1, <1>2, <1>3, RefreshCurrent, ShownStays DEF OpenLedger
<1>5. FilesInv' /\ CitedIsSafe'
  BY <1>1, FilesStay, CitedStays DEF files
<1>6. TasksInv'
  BY <1>1, LedgerParts DEF OpenLedger, TasksInv
<1>7. AckedInv'
  BY <1>1, <1>2, <1>3, AckedKeeps
<1> QED
  BY <1>2, <1>4, <1>5, <1>6, <1>7, Reassemble

LEMMA QuietKeeps ==
  ASSUME LedgerInv, UNCHANGED <<lines, files, shown, acked>>, TasksInv'
  PROVE  LedgerInv'
<1>1. UNCHANGED <<log, tail, drawn, synced>>
  BY DEF lines
<1>2. LinesInv' /\ PrefixStays /\ synced' \in Nat
  BY <1>1, LinesStay, LogType DEF LedgerInv, FilesSafe
<1> QED
  BY <1>1, <1>2, ShownStays, FilesStay, CitedStays, AckedKeeps, Reassemble DEF files

LEMMA AdmitKeeps ==
  ASSUME LedgerInv, NEW t \in Thread, NEW kind \in Admitted, NEW name \in Name, Admit(t, kind, name)
  PROVE  LedgerInv'
<1>1. [kind |-> kind, name |-> name] \in Task
  BY DEF Task
<1>2. TasksInv'
  BY <1>1, LedgerParts DEF Admit, TasksInv
<1> QED
  BY <1>2, QuietKeeps DEF Admit

\* A record without a document cites nothing.
LEMMA RecordKeeps ==
  ASSUME LedgerInv, NEW r \in Record, r.kind # "env", NEW outcome \in Outcome,
         AppendRecord(r, outcome), Readable => Differs(r), r.kind = "register" => r.name = None,
         FilesInv', safe' = safe, UNCHANGED <<shown, acked>>, TasksInv'
  PROVE  LedgerInv'
<1>1. LinesInv' /\ PrefixStays /\ (log' = log \/ log' = Append(log, r))
  BY AppendKeeps
<1>2. synced' \in Nat
  BY <1>1 DEF LinesInv
<1>3. CitedIsSafe'
  BY <1>1, CitedGrows
<1> QED
  BY <1>1, <1>2, <1>3, ShownStays, AckedKeeps, Reassemble

LEMMA PushKeeps ==
  ASSUME LedgerInv, NEW t \in Thread, NEW outcome \in Outcome, PushEvent(t, outcome)
  PROVE  LedgerInv'
<1>1. tasks[t].name \in Name
  BY LedgerParts, NoneTaskAssumption DEF PushEvent, TasksInv, Task
<1> DEFINE r == New("event", tasks[t].name, None)
<1>2. drawn < MaxRecords /\ AppendRecord(r, outcome)
  BY DEF PushEvent, AppendRecord
<1>3. r \in Record /\ r.kind = "event"
  BY <1>1, <1>2, NewType DEF Kind, Admitted
<1>4. Differs(r)
  BY <1>3 DEF Differs
<1>5. FilesInv' /\ safe' = safe /\ TasksInv' /\ UNCHANGED <<shown, acked>>
  BY FilesStay, TaskKeeps DEF PushEvent, files
<1> HIDE DEF r
<1> QED
  BY <1>2, <1>3, <1>4, <1>5, RecordKeeps

LEMMA DocumentKeeps ==
  ASSUME LedgerInv, NEW kind \in {"config", "register"}, NEW name \in Name \cup {None},
         kind = "register" <=> name = None, NEW sha \in Document,
         NEW result, NEW outcome \in Outcome, PutDocument(kind, name, sha, result, outcome), TasksInv'
  PROVE  LedgerInv'
<1>1. UNCHANGED <<shown, opened, acked>>
  BY DEF PutDocument
<1>2. CASE UNCHANGED <<lines, files>>
  BY <1>1, <1>2, QuietKeeps
<1>3. ASSUME WriteBlob(kind, sha, result), UNCHANGED lines
      PROVE  LedgerInv'
  <2>1. UNCHANGED <<log, tail, drawn, synced>> /\ FilesInv' /\ safe' = safe
    BY <1>3, BlobKeeps DEF lines
  <2>2. LinesInv' /\ PrefixStays /\ synced' \in Nat
    BY <2>1, LinesStay, LogType DEF LedgerInv, FilesSafe
  <2> QED
    BY <1>1, <2>1, <2>2, ShownStays, CitedStays, AckedKeeps, Reassemble
<1>4. ASSUME Readable, WriteBlob(kind, sha, result), AppendRecord(New(kind, name, sha), outcome),
             ~IsLast(IF kind = "register" THEN LastKind(kind) ELSE LastNamed(kind, name), sha)
      PROVE  LedgerInv'
  <2> DEFINE r == New(kind, name, sha)
  <2>1. kind \in Kind /\ kind # "env" /\ drawn < MaxRecords
    BY <1>4 DEF Kind, Admitted, AppendRecord
  <2>2. r \in Record /\ r.kind = kind /\ r.name = name
    BY <2>1, NewType
  <2>3. Differs(r)
    BY <1>4, <2>1, NewDiffers DEF LedgerInv, FilesSafe
  <2>4. FilesInv' /\ safe' = safe
    BY <1>4, BlobKeeps
  <2> HIDE DEF r
  <2>5. AppendRecord(r, outcome)
    BY <1>4 DEF r
  <2> QED
    BY <1>1, <2>1, <2>2, <2>3, <2>4, <2>5, RecordKeeps
<1> QED
  BY <1>2, <1>3, <1>4 DEF PutDocument

LEMMA PutKeeps ==
  ASSUME LedgerInv, NEW sha \in Document, NEW result, NEW outcome \in Outcome,
         PutRegister(sha, result, outcome) \/ \E t \in Thread : PutConfig(t, sha, result, outcome)
  PROVE  LedgerInv'
<1>1. CASE PutRegister(sha, result, outcome)
  <2>1. PutDocument("register", None, sha, result, outcome) /\ UNCHANGED <<tasks, opened>>
    BY <1>1 DEF PutRegister, PutDocument
  <2>2. TasksInv'
    BY <2>1, LedgerParts DEF TasksInv
  <2> QED
    BY <2>1, <2>2, DocumentKeeps
<1>2. ASSUME NEW t \in Thread, PutConfig(t, sha, result, outcome) PROVE LedgerInv'
  <2>1. PutDocument("config", tasks[t].name, sha, result, outcome) /\ Done(t) /\ UNCHANGED opened
    BY <1>2 DEF PutConfig, PutDocument
  <2>2. tasks[t].name \in Name /\ tasks[t].name # None
    BY <1>2, LedgerParts, NoneTaskAssumption, NoneAssumption DEF PutConfig, TasksInv, Task
  <2> QED
    BY <2>1, <2>2, TaskKeeps, DocumentKeeps
<1> QED
  BY <1>1, <1>2

\* An environment that is found is the one a log synced to its end keeps.
LEMMA FoundIs ==
  ASSUME LedgerInv, NEW name, NEW sha, IsLast(LastNamed("env", name), sha)
  PROVE  /\ LastNamed("env", name) \in 1..Len(log)
         /\ log[LastNamed("env", name)].kind = "env"
         /\ log[LastNamed("env", name)].id \in 1..MaxRecords
<1> DEFINE S == {i \in DOMAIN log : log[i].kind = "env" /\ log[i].name = name}
<1>1. TypeOK
  BY DEF LedgerInv, FilesSafe
<1>2. LastNamed("env", name) = Latest(S) /\ Latest(S) # 0
  BY DEF LastNamed, IsLast
<1>3. S \in SUBSET (1..Len(log)) /\ Len(log) \in Nat
  BY <1>1, LogType
<1>4. S # {}
  BY <1>2 DEF Latest
<1>5. Latest(S) \in S
  BY <1>3, <1>4, LatestIsLast
<1> QED
  BY <1>1, <1>2, <1>3, <1>5, LogType DEF Record

LEMMA AgainKeeps ==
  ASSUME LedgerInv, NEW name, NEW sha, IsLast(LastNamed("env", name), sha),
         NEW logged \in BOOLEAN, NEW refreshed \in RefreshOutcome,
         EnvAgain(LastNamed("env", name), logged, refreshed), TasksInv'
  PROVE  LedgerInv'
<1>1. UNCHANGED <<log, tail, drawn, files>> /\ (synced' = synced \/ synced' = Len(log))
  BY DEF EnvAgain
<1>2. LinesInv' /\ PrefixStays
  BY <1>1, LinesStay
<1>3. synced' \in Nat
  BY <1>2 DEF LinesInv
<1>4. ShownInv'
  <2>1. CASE logged
    BY <1>1, <2>1, RefreshCurrent DEF EnvAgain
  <2>2. CASE ~logged
    BY <1>2, <1>3, <2>2, ShownStays DEF EnvAgain
  <2> QED
    BY <2>1, <2>2
<1>5. FilesInv' /\ CitedIsSafe'
  BY <1>1, FilesStay, CitedStays DEF files
<1>6. AckedInv'
  <2>1. CASE acked' = acked
    BY <1>2, <1>3, <2>1, AckedKeeps
  <2>2. CASE logged /\ acked' = acked \cup {log[LastNamed("env", name)].id}
    <3>1. /\ LastNamed("env", name) \in 1..synced'
          /\ log'[LastNamed("env", name)].kind = "env"
          /\ log[LastNamed("env", name)].id \in 1..MaxRecords
      BY <1>1, <2>2, FoundIs DEF EnvAgain
    <3>2. \A id \in acked : \E i \in 1..synced' : log'[i].id = id /\ log'[i].kind = "env"
      BY <1>2, <1>3, AckedStay
    <3> QED
      BY <1>1, <2>2, <3>1, <3>2, LedgerParts DEF AckedInv, AckedEnvStays
  <2> QED
    BY <2>1, <2>2 DEF EnvAgain
<1> QED
  BY <1>2, <1>4, <1>5, <1>6, Reassemble

LEMMA NewEnvKeeps ==
  ASSUME LedgerInv, Readable, NEW name \in Name, NEW sha \in Document,
         ~IsLast(LastNamed("env", name), sha),
         NEW published \in {"failed", "linked", "synced"}, NEW outcome \in Outcome,
         NEW refreshed \in RefreshOutcome,
         NewEnv(name, sha, published, outcome, refreshed), TasksInv'
  PROVE  LedgerInv'
<1> DEFINE r == New("env", name, sha)
<1>1. FilesInv' /\ safe \subseteq safe' /\ (published = "synced" => sha \in safe')
  BY PublishKeeps DEF NewEnv
<1>2. CASE published # "synced"
  <2>1. UNCHANGED <<log, tail, drawn, synced>> /\ UNCHANGED shown /\ UNCHANGED acked
    BY <1>2 DEF NewEnv, lines
  <2>2. LinesInv' /\ PrefixStays /\ synced' \in Nat
    BY <2>1, LinesStay, LogType DEF LedgerInv, FilesSafe
  <2> QED
    BY <1>1, <2>1, <2>2, ShownStays, CitedStays, AckedKeeps, Reassemble
<1>3. CASE published = "synced"
  <2>1. drawn < MaxRecords /\ AppendRecord(r, outcome) /\ drawn' = drawn + 1
    BY <1>3 DEF NewEnv, AppendRecord
  <2>2. /\ r \in Record /\ r.kind = "env" /\ r.sha = sha /\ r.id = drawn' /\ drawn' \in 1..MaxRecords
    BY <2>1, NewType DEF Kind, Admitted
  <2>3. Differs(r)
    BY NewDiffers DEF Kind, Admitted, LedgerInv, FilesSafe
  <2> HIDE DEF r
  <2>4. /\ LinesInv' /\ PrefixStays
        /\ log' = log \/ log' = Append(log, r)
        /\ outcome = "synced" /\ Readable => log' = Append(log, r) /\ synced' = Len(log) + 1
    BY <2>1, <2>2, <2>3, AppendKeeps
  <2>5. synced' \in Nat
    BY <2>4 DEF LinesInv
  <2>6. CitedIsSafe'
    BY <1>1, <1>3, <2>2, <2>4, CitedGrows
  <2>7. CASE outcome # "synced"
    <3>1. UNCHANGED shown /\ UNCHANGED acked
      BY <2>7 DEF NewEnv
    <3> QED
      BY <1>1, <2>4, <2>5, <2>6, <3>1, ShownStays, AckedKeeps, Reassemble
  <2>8. CASE outcome = "synced"
    <3>1. log' = Append(log, r) /\ synced' = Len(log) + 1
      BY <2>4, <2>8
    <3>2. log'[synced'] = r /\ synced' \in 1..synced'
      BY <2>2, <3>1, LogType, AppendedLog DEF LedgerInv, FilesSafe
    <3>3. Durable(sha)'
      BY <2>2, <3>2 DEF Durable
    <3>4. ShownInv'
      BY <1>3, <2>4, <2>5, <2>8, <3>3, RefreshKeeps DEF NewEnv
    <3>5. \A id \in acked : \E i \in 1..synced' : log'[i].id = id /\ log'[i].kind = "env"
      BY <2>4, <2>5, AckedStay
    <3>6. acked' \subseteq acked \cup {drawn'}
      BY DEF NewEnv
    <3>7. AckedInv'
      BY <2>2, <3>2, <3>5, <3>6, LedgerParts DEF AckedInv, AckedEnvStays
    <3> QED
      BY <1>1, <2>4, <2>6, <3>4, <3>7, Reassemble
  <2> QED
    BY <2>7, <2>8
<1> QED
  BY <1>2, <1>3

LEMMA PutEnvKeeps ==
  ASSUME LedgerInv, NEW t \in Thread, NEW sha \in Document, PutEnv(t, sha)
  PROVE  LedgerInv'
<1>1. TasksInv'
  BY TaskKeeps DEF PutEnv
<1>2. tasks[t].name \in Name
  BY LedgerParts, NoneTaskAssumption DEF PutEnv, TasksInv, Task
<1>3. CASE UNCHANGED <<lines, files, shown, acked>>
  BY <1>1, <1>3, QuietKeeps
<1>4. ASSUME NEW logged \in BOOLEAN, NEW refreshed \in RefreshOutcome,
             IsLast(LastNamed("env", tasks[t].name), sha),
             EnvAgain(LastNamed("env", tasks[t].name), logged, refreshed)
      PROVE  LedgerInv'
  BY <1>1, <1>4, AgainKeeps
<1>5. ASSUME Readable, ~IsLast(LastNamed("env", tasks[t].name), sha),
             NEW published \in {"failed", "linked", "synced"}, NEW outcome \in Outcome,
             NEW refreshed \in RefreshOutcome,
             NewEnv(tasks[t].name, sha, published, outcome, refreshed)
      PROVE  LedgerInv'
  BY <1>1, <1>2, <1>5, NewEnvKeeps
<1> QED
  BY <1>3, <1>4, <1>5 DEF PutEnv

LEMMA PowerLossKeeps ==
  ASSUME LedgerInv, PowerLoss
  PROVE  LedgerInv'
<1>1. /\ TypeOK /\ GenerationsDiffer /\ RegistersUnnamed /\ CitedIsSafe /\ SafeIsWhole
      /\ ProjectionIsDurable /\ ShadowsAreDurable
  BY DEF LedgerInv, FilesSafe
<1>2. PICK k \in synced..Len(log) :
        /\ log' = SubSeq(log, 1, k) /\ synced' = k
        /\ tail' \in IF k < Len(log) THEN {"none", "torn"}
                     ELSE IF tail = "fused" THEN {"fused", "torn"} ELSE {tail, "none"}
  BY DEF PowerLoss
<1>3. k \in 0..Len(log) /\ k \in Nat /\ synced <= k /\ synced \in Nat
  BY <1>1, LogType
<1>4. /\ GenerationsDiffer'
      /\ log' \in Seq(Record) /\ Len(log') = k /\ DOMAIN log' = 1..k
      /\ \A i \in 1..k : i \in DOMAIN log /\ log'[i] = log[i]
  BY <1>1, <1>2, <1>3, GenerationsCut
<1>5. RegistersUnnamed'
  BY <1>1, <1>4 DEF RegistersUnnamed
<1>6. tail' \in {"none", "torn", "fused"} /\ drawn' = drawn /\ acked' = acked
  BY <1>1, <1>2 DEF TypeOK, PowerLoss
<1>7. LinesInv'
  <2>1. synced' \in 0..Len(log')
    BY <1>2, <1>3, <1>4
  <2>2. drawn' \in 0..MaxRecords
    BY <1>1, <1>6 DEF TypeOK
  <2> QED
    BY <1>4, <1>5, <1>6, <2>1, <2>2 DEF LinesInv
<1>8. PrefixStays /\ synced' \in Nat
  BY <1>2, <1>3, <1>4 DEF PrefixStays
<1>9. FilesInv' /\ safe \subseteq safe'
  <2>1. PICK env \in BlobStates, config \in Survivors("config"), register \in Survivors("register") :
          /\ \A d \in Document : env[d] \in IF d \in safe THEN {"whole"} ELSE {"absent", blobs["env"][d]}
          /\ blobs' = [config |-> config, env |-> env, register |-> register]
    BY DEF PowerLoss
  <2>2. config \in BlobStates /\ register \in BlobStates
    BY DEF Survivors
  <2>3. blobs' \in [{"config", "env", "register"} -> [Document -> {"absent", "torn", "whole"}]]
    BY <2>1, <2>2 DEF BlobStates
  <2>4. safe' = {d \in Document : blobs'["env"][d] = "whole"} /\ blobs'["env"] = env
    BY <2>1 DEF PowerLoss
  <2>5. safe \subseteq Document
    BY <1>1 DEF TypeOK
  <2> QED
    BY <2>1, <2>3, <2>4, <2>5 DEF FilesInv, SafeIsWhole
<1>10. CitedIsSafe'
  BY <1>1, <1>4, <1>9 DEF CitedIsSafe
<1>11. ShownInv'
  <2>1. \A d : Durable(d) => Durable(d)'
    BY <1>1, <1>8, DurableStays
  <2>2. /\ projection' \in {projection} \cup shadows /\ shadows' = {}
    BY DEF PowerLoss
  <2>3. projection # None => Durable(projection)
    BY <1>1 DEF ProjectionIsDurable, Durable
  <2>4. \A d \in {projection} \cup shadows : d # None => Durable(d)'
    BY <1>1, <2>1, <2>3 DEF ShadowsAreDurable
  <2>5. ProjectionIsDurable'
    BY <2>2, <2>4 DEF ProjectionIsDurable, Durable
  <2> QED
    BY <1>1, <2>2, <2>5 DEF ShownInv, ShadowsAreDurable, TypeOK
<1>12. AckedInv'
  BY <1>6, <1>8, AckedKeeps
<1>13. TasksInv'
  BY DEF PowerLoss, TasksInv
<1> QED
  BY <1>7, <1>9, <1>10, <1>11, <1>12, <1>13, Reassemble

LEMMA LedgerInit == Init => LedgerInv
<1> SUFFICES ASSUME Init PROVE LedgerInv
  OBVIOUS
<1>1. log = <<>> /\ DOMAIN log = {} /\ Len(log) = 0 /\ log \in Seq(Record)
  BY DEF Init
<1>2. TypeOK
  <2>1. blobs \in [{"config", "env", "register"} -> [Document -> {"absent", "torn", "whole"}]]
    BY DEF Init
  <2>2. synced \in 0..Len(log) /\ drawn \in 0..MaxRecords
    BY <1>1, MaxRecordsAssumption DEF Init
  <2>3. tasks \in [Thread -> Task \cup {None}] /\ projection \in Document \cup {None}
    BY DEF Init
  <2> QED
    BY <1>1, <2>1, <2>2, <2>3 DEF Init, TypeOK
<1> QED
  BY <1>1, <1>2 DEF Init, LedgerInv, FilesSafe, EnvBytesStay, ProjectionIsDurable, AckedEnvStays,
    GenerationsDiffer, SafeIsWhole, CitedIsSafe, ShadowsAreDurable, RegistersUnnamed

LEMMA LedgerNext == LedgerInv /\ [Next]_vars => LedgerInv'
<1> SUFFICES ASSUME LedgerInv, [Next]_vars PROVE LedgerInv'
  OBVIOUS
<1>1. CASE \E outcome \in RefreshOutcome : OpenLedger(outcome)
  BY <1>1, OpenKeeps
<1>2. CASE \E t \in Thread, kind \in Admitted, name \in Name : Admit(t, kind, name)
  BY <1>2, AdmitKeeps
<1>3. CASE \E t \in Thread, outcome \in Outcome : PushEvent(t, outcome)
  BY <1>3, PushKeeps
<1>4. CASE \E sha \in Document, result \in {"absent", "torn", "whole"}, outcome \in Outcome :
             \/ PutRegister(sha, result, outcome)
             \/ \E t \in Thread : PutConfig(t, sha, result, outcome)
  BY <1>4, PutKeeps
<1>5. CASE \E t \in Thread, sha \in Document : PutEnv(t, sha)
  BY <1>5, PutEnvKeeps
<1>6. CASE Kill
  <2>1. TasksInv'
    BY <1>6 DEF Kill, TasksInv
  <2> QED
    BY <1>6, <2>1, QuietKeeps DEF Kill
<1>7. CASE PowerLoss
  BY <1>7, PowerLossKeeps
<1>8. CASE UNCHANGED vars
  <2>1. TasksInv'
    BY <1>8, LedgerParts DEF vars, TasksInv
  <2> QED
    BY <1>8, <2>1, QuietKeeps DEF vars
<1> QED
  BY <1>1, <1>2, <1>3, <1>4, <1>5, <1>6, <1>7, <1>8 DEF Next

\* Environments that can be read back, an env.md that no restart contradicts,
\* acknowledged documents that stay and no second generation of one text, after any
\* failed write, killed host and power loss. (put_env, open)
THEOREM FilesAreSafe == Spec => []FilesSafe
<1>1. LedgerInv => FilesSafe
  BY DEF LedgerInv
<1> QED
  BY <1>1, LedgerInit, LedgerNext, PTL DEF Spec
=============================================================================

---------------------------- MODULE WorkProducts ----------------------------
(***************************************************************************)
(* The workspace of the recorder (an-agent-core, recorder/wp and wp/log):  *)
(* each worker writes versions of files to the log of its sub-workspace,   *)
(* and closing it publishes a view, the whole tree at one version each.    *)
(* Views are never changed, only followed by others; a rollback is one of  *)
(* them.  Every operation holds one mutex.  The two logs of the workspace  *)
(* and the logs of the workers are appended to and synced.  Nothing heals  *)
(* what a failing append leaves: a line in part, or one without its end,   *)
(* into which the next runs.  Such a file is not read any more.            *)
(***************************************************************************)
EXTENDS Naturals, Sequences, FiniteSetsExt

CONSTANTS
  Writer,      \* the workers: each is registered once, its sub-workspace has its name
  Path,        \* the paths somebody writes
  MaxLines,    \* lines in one log, a bound of the model
  MaxViews,    \* published views, a bound of the model
  MaxLost,     \* failing appends, a bound of the model
  Absent

VARIABLES
  views,     \* the published views, oldest first
  live,      \* sub-workspaces that may be written and closed
  retiring,  \* revoked, and not yet in the log
  conflict,  \* worker -> the conflict its close is waiting on
  onDisk,    \* what views.jsonl says, or said while it could be read
  mounted,   \* the same of tree.jsonl: mounted there and not unmounted
  log,       \* worker -> the same of log.jsonl of its session
  viewsTail, treeTail, logTail,  \* how each of them ends
  known,     \* workers that were registered, or whose registration failed
  lost

tails == <<viewsTail, treeTail, logTail>>
products == <<views, live, retiring, conflict, onDisk, mounted, log, tails, known, lost>>

\* A true name is made up by the write that creates it.
Name == Writer \X (1..MaxLines)
FileRec == [name : Name, version : Nat, bytes : Name]
Files == [Path -> FileRec \cup {Absent}]
VerId == [name : Name, version : Nat]
DepEdge == [dependent : VerId, on : VerId]
View == [files : Files, edges : SUBSET DepEdge]
LogLine == [op : {"write"}, path : Path, file : FileRec] \cup [op : {"tombstone"}, path : Path]
Conflict == [path : Path, existing : Name, incoming : Name]
FileEnd == {"whole", "bare", "spoiled"}  \* bare: all of the last line but its end

ASSUME ProductsAssumption ==
  /\ IsFiniteSet(Path)
  /\ MaxLines \in Nat /\ MaxViews \in Nat /\ MaxLost \in Nat
  /\ Absent \notin FileRec /\ Absent \notin Conflict

ProductsTypeOK ==
  /\ views \in Seq(View) /\ onDisk \in Seq(View)
  /\ live \subseteq Writer /\ retiring \subseteq Writer /\ mounted \subseteq Writer
  /\ known \subseteq Writer
  /\ conflict \in [Writer -> Conflict \cup {Absent}]
  /\ log \in [Writer -> Seq(LogLine)]
  /\ viewsTail \in FileEnd /\ treeTail \in FileEnd /\ logTail \in [Writer -> FileEnd]
  /\ lost \in 0..MaxLost

ProductsInit ==
  /\ views = <<>> /\ onDisk = <<>>
  /\ live = {} /\ retiring = {} /\ mounted = {} /\ known = {}
  /\ conflict = [w \in Writer |-> Absent]
  /\ log = [w \in Writer |-> <<>>]
  /\ viewsTail = "whole" /\ treeTail = "whole" /\ logTail = [w \in Writer |-> "whole"]
  /\ lost = 0

----------------------------------------------------------------------------
(* Versions *)

NoFiles == [p \in Path |-> Absent]
Current == IF views = <<>> THEN NoFiles ELSE views[Len(views)].files
CurrentEdges == IF views = <<>> THEN {} ELSE views[Len(views)].edges

Ver(file) == [name |-> file.name, version |-> file.version]
Have(files) == {Ver(files[p]) : p \in {q \in Path : files[q] # Absent}}

Writes(w) == {i \in DOMAIN log[w] : log[w][i].op = "write"}

LastWrite(w, p) ==
  LET at == {i \in Writes(w) : log[w][i].path = p} IN
  IF at = {} THEN Absent ELSE log[w][Max(at)].file

\* What a path holds for its worker: its own last write, or the published file.
CurrentOf(w, p) == IF LastWrite(w, p) # Absent THEN LastWrite(w, p) ELSE Current[p]

Published == (UNION {{views[i].files[p] : p \in Path} : i \in DOMAIN views}) \ {Absent}
Written(w) == {log[w][i].file : i \in Writes(w)}
Versions(w, n) == {f.version : f \in {g \in Published \cup Written(w) : g.name = n}}

NextVersion(w, n) == Max(Versions(w, n) \cup {0}) + 1

\* The first n lines of a log over the current view: what each path was left with.
Reduced(w, n) ==
  [p \in Path |->
     LET at == {i \in 1..n : log[w][i].path = p} IN
     IF at = {} THEN Current[p]
     ELSE IF log[w][Max(at)].op = "write" THEN log[w][Max(at)].file ELSE Absent]

Reduce(w) == Reduced(w, Len(log[w]))

\* What a line met when its turn came, and the first write that met another name.
Before(w, i) == Reduced(w, i - 1)

\* Mutant: a write that creates a name is compared with the worker's own writes only.
OwnClashes(w) ==
  {i \in Writes(w) : \E j \in Writes(w) : j < i /\ log[w][j].path = log[w][i].path
                       /\ log[w][j].file.name # log[w][i].file.name}

Clashes(w) ==
  {i \in Writes(w) : LET old == Before(w, i)[log[w][i].path] IN
                       old # Absent /\ old.name # log[w][i].file.name}

FirstClash(w) ==
  IF Clashes(w) = {} THEN Absent
  ELSE LET line == log[w][Min(Clashes(w))] IN
       [path |-> line.path, existing |-> Before(w, Min(Clashes(w)))[line.path].name,
        incoming |-> line.file.name]

\* Names each of which depends on another one of them.
Cyclic(edges) ==
  \E names \in SUBSET {e.dependent.name : e \in edges} :
    names # {} /\ \A n \in names : \E e \in edges : e.dependent.name = n /\ e.on.name \in names

CheckEdges(files, extra) ==
  /\ \A e \in extra : e.dependent \in Have(files) /\ e.on \in Have(files)
  /\ ~Cyclic(extra)

----------------------------------------------------------------------------
(* Appends: whether the line can be read afterwards, and how the file ends *)

Fails == lost < MaxLost /\ lost' = lost + 1

\* An acknowledged line that ran into the one before it is spoiled with it.
Acknowledged(tail) ==
  [reads |-> tail = "whole", tail |-> IF tail = "whole" THEN "whole" ELSE "spoiled"]

Failed(tail) ==
  {[reads |-> FALSE, tail |-> tail], [reads |-> FALSE, tail |-> "spoiled"]}
    \cup {[reads |-> TRUE, tail |-> end] : end \in IF tail = "whole" THEN {"whole", "bare"} ELSE {}}

ViewLine(view, outcome) ==
  /\ viewsTail' = outcome.tail
  /\ onDisk' = IF outcome.reads THEN Append(onDisk, view) ELSE onDisk

MountLine(w, outcome) ==
  /\ treeTail' = outcome.tail
  /\ mounted' = IF outcome.reads THEN mounted \cup {w} ELSE mounted

UnmountLine(w, outcome) ==
  /\ treeTail' = outcome.tail
  /\ mounted' = IF outcome.reads THEN mounted \ {w} ELSE mounted

AppendView(view) ==
  ViewLine(view, Acknowledged(viewsTail)) /\ views' = Append(views, view)

\* Mutant: the view is pushed before its line is written.
PushedFirst(view) ==
  /\ Fails
  /\ \E outcome \in Failed(viewsTail) : ViewLine(view, outcome)
  /\ views' = Append(views, view)

AppendViewFails(view) ==
  /\ Fails
  /\ \E outcome \in Failed(viewsTail) : ViewLine(view, outcome)
  /\ UNCHANGED views

\* Mutant: the cleanup identity is dropped with the sub-workspace.
RetireAndForget(w) ==
  /\ live' = live \ {w}
  /\ conflict' = [conflict EXCEPT ![w] = Absent]
  /\ retiring' = retiring \ {w}
  /\ \/ UnmountLine(w, Acknowledged(treeTail)) /\ UNCHANGED lost
     \/ (\E outcome \in Failed(treeTail) : UnmountLine(w, outcome)) /\ Fails
  /\ UNCHANGED <<known, log, logTail>>

\* Revoked at once; the identity stays until the line is acknowledged.
Retire(w) ==
  /\ live' = live \ {w}
  /\ conflict' = [conflict EXCEPT ![w] = Absent]
  /\ \/ UnmountLine(w, Acknowledged(treeTail)) /\ retiring' = retiring \ {w} /\ UNCHANGED lost
     \/ /\ \E outcome \in Failed(treeTail) : UnmountLine(w, outcome)
        /\ retiring' = retiring \cup {w} /\ Fails
  /\ UNCHANGED <<known, log, logTail>>

Room == Len(views) < MaxViews /\ Len(onDisk) < MaxViews

Publish(w, files, edges) ==
  /\ Room
  /\ LET view == [files |-> files, edges |-> edges] IN
     \/ AppendView(view) /\ Retire(w)
     \/ /\ AppendViewFails(view)
        /\ UNCHANGED <<live, retiring, conflict, mounted, treeTail, known, log, logTail>>

----------------------------------------------------------------------------
(* A sub-workspace *)

Register(w) ==
  /\ w \notin known
  /\ known' = known \cup {w}
  /\ \/ MountLine(w, Acknowledged(treeTail)) /\ live' = live \cup {w} /\ UNCHANGED lost
     \/ /\ \E outcome \in Failed(treeTail) : MountLine(w, outcome)
        /\ Fails /\ UNCHANGED live
  /\ UNCHANGED <<views, retiring, conflict, onDisk, log, viewsTail, logTail>>

\* Every operation on a sub-workspace but to abandon or reject it reads its log.
Legible(w) == logTail[w] # "spoiled"
Writable(w) == w \in live /\ conflict[w] = Absent /\ Legible(w)

SessionLine(w, line, outcome) ==
  /\ logTail' = [logTail EXCEPT ![w] = outcome.tail]
  /\ log' = IF outcome.reads THEN [log EXCEPT ![w] = Append(@, line)] ELSE log

AppendLine(w, line) ==
  /\ Writable(w) /\ Len(log[w]) < MaxLines
  /\ \/ SessionLine(w, line, Acknowledged(logTail[w])) /\ UNCHANGED lost
     \/ (\E outcome \in Failed(logTail[w]) : SessionLine(w, line, outcome)) /\ Fails
  /\ UNCHANGED <<views, live, retiring, conflict, onDisk, mounted, viewsTail, treeTail, known>>

WriteOf(w, p, name) ==
  [op |-> "write", path |-> p,
   file |-> [name |-> name, version |-> NextVersion(w, name), bytes |-> <<w, Len(log[w]) + 1>>]]

Create(w, p) == AppendLine(w, WriteOf(w, p, <<w, Len(log[w]) + 1>>))

\* A base that is not the current version is refused.
Continue(w, p) ==
  /\ CurrentOf(w, p) # Absent
  /\ AppendLine(w, WriteOf(w, p, CurrentOf(w, p).name))

Tombstone(w, p) ==
  /\ CurrentOf(w, p) # Absent
  /\ AppendLine(w, [op |-> "tombstone", path |-> p])

Close(w, extra) ==
  /\ Writable(w)
  /\ \/ /\ log[w] = <<>> /\ extra = {}
        /\ Retire(w) /\ UNCHANGED <<views, onDisk, viewsTail>>
     \/ /\ FirstClash(w) # Absent /\ extra = {}
        /\ conflict' = [conflict EXCEPT ![w] = FirstClash(w)]
        /\ UNCHANGED <<views, live, retiring, onDisk, mounted, known, log, tails, lost>>
     \/ /\ log[w] # <<>> /\ FirstClash(w) = Absent /\ CheckEdges(Reduce(w), extra)
        /\ Publish(w, Reduce(w), extra)

\* abandon_worker also takes up a retirement that failed.
Abandon(w) == w \in live \cup retiring /\ Retire(w) /\ UNCHANGED <<views, onDisk, viewsTail>>

Reject(w) ==
  w \in live /\ conflict[w] # Absent /\ Retire(w) /\ UNCHANGED <<views, onDisk, viewsTail>>

\* The last write of a name in the log, wherever it was, or its published file.
Chosen(w, name) ==
  LET at == {i \in Writes(w) : log[w][i].file.name = name} IN
  IF at # {} THEN {log[w][Max(at)].file}
  ELSE {Current[p] : p \in {q \in Path : Current[q] # Absent /\ Current[q].name = name}}

Without(files, name) ==
  [p \in Path |-> IF files[p] # Absent /\ files[p].name = name THEN Absent ELSE files[p]]

\* Only the chosen file is published: other writes of this log are not.
Allow(w, name, p) ==
  /\ w \in live /\ conflict[w] # Absent /\ Legible(w)
  /\ name \in {conflict[w].existing, conflict[w].incoming}
  /\ \E file \in Chosen(w, name) : Publish(w, [Without(Current, name) EXCEPT ![p] = file], {})

----------------------------------------------------------------------------
(* Rollback *)

\* A version as the latest view that holds it has it, with its place.
Found(name, version) ==
  LET At(i) == {p \in Path : views[i].files[p] # Absent
                              /\ Ver(views[i].files[p]) = [name |-> name, version |-> version]}
      in == {i \in DOMAIN views : At(i) # {}} IN
  IF version = 0 \/ in = {} THEN {}
  ELSE {[path |-> p, file |-> views[Max(in)].files[p]] : p \in At(Max(in))}

Back(files, old) == [Without(files, old.file.name) EXCEPT ![old.path] = old.file]

Closed(vers) == \A e \in CurrentEdges : e.on \in vers => e.dependent \in vers

\* What was built on vers, over any number of edges, and vers.
Reached(vers) ==
  LET all == vers \cup {e.dependent : e \in CurrentEdges} IN
  {v \in all : \A some \in SUBSET all : vers \subseteq some /\ Closed(some) => v \in some}

Followed(leaving) == {e \in CurrentEdges : e.on \in Reached({leaving})}
Dependents(leaving) == {e.dependent : e \in Followed(leaving)}

\* A name met twice is called a cycle, a dependency shared by two also.
MetOnce(leaving) ==
  /\ \A e \in Followed(leaving) : e.dependent.name # leaving.name
  /\ \A e, d \in Followed(leaving) : e.dependent.name = d.dependent.name => e = d

\* Mutant: a dependent with no earlier version is left as it is.
FirstStays(files, ver) ==
  IF ver.version <= 1 THEN {files}
  ELSE {Back(files, old) : old \in Found(ver.name, ver.version - 1)}

\* A dependent goes back one version, or away when it has no other.
DependentBack(files, ver) ==
  IF ver.version <= 1 THEN {Without(files, ver.name)}
  ELSE {Back(files, old) : old \in Found(ver.name, ver.version - 1)}

\* One dependent after the other.
Backs(files, vers) ==
  LET back[n \in 0..Len(vers)] ==
        IF n = 0 THEN {files} ELSE UNION {DependentBack(f, vers[n]) : f \in back[n - 1]}
  IN  back

AllBack(files, vers) == Backs(files, vers)[Len(vers)]

Orders(vers) == Surjection(1..Cardinality(vers), vers)

\* The version that leaves is one of its name that the current view has.
Cascades(name) ==
  UNION {Orders(Dependents(v)) : v \in {u \in Have(Current) : u.name = name /\ MetOnce(u)}}

Rollback(name, version, cascade) ==
  /\ views # <<>> /\ Room
  /\ \E old \in Found(name, version), vers \in IF cascade THEN Cascades(name) ELSE {<<>>} :
     \E files \in AllBack(Back(Current, old), vers) :
       LET view == [files |-> files, edges |-> CurrentEdges] IN
       (AppendView(view) /\ UNCHANGED lost) \/ AppendViewFails(view)
  /\ UNCHANGED <<live, retiring, conflict, mounted, treeTail, known, log, logTail>>

\* Another process opens the workspace: only the logs are left, if both can be read.
Reopen ==
  /\ viewsTail # "spoiled" /\ treeTail # "spoiled"
  /\ views' = onDisk /\ live' = mounted /\ retiring' = {}
  /\ conflict' = [w \in Writer |-> Absent]
  /\ UNCHANGED <<onDisk, mounted, known, log, tails, lost>>

Edges(files) == [dependent : Have(files), on : Have(files)]

ProductsNext ==
  \/ \E w \in Writer :
       \/ Register(w) \/ Abandon(w) \/ Reject(w)
       \/ \E p \in Path : Create(w, p) \/ Continue(w, p) \/ Tombstone(w, p)
       \/ \E extra \in SUBSET Edges(Reduce(w)) : Close(w, extra)
       \/ \E name \in Name, p \in Path : Allow(w, name, p)
  \/ \E ver \in UNION {Have(views[i].files) : i \in DOMAIN views}, cascade \in BOOLEAN :
       Rollback(ver.name, ver.version, cascade)
  \/ Reopen

ProductsSpec == ProductsInit /\ [][ProductsNext]_products

----------------------------------------------------------------------------
(* Properties *)

Closes(w) == w \in live \ live' /\ conflict[w] = Absent /\ views' # views

\* Closing a sub-workspace changes the files its log is about and no other,
\* however many views were published since it began, and no file of another
\* true name gives way that it has not removed (wp::close, log::reduce).
CloseIsOwn ==
  [][\A w \in Writer, p \in Path : Closes(w) /\ Current'[p] # Current[p] =>
       /\ \E i \in DOMAIN log[w] : log[w][i].path = p
       /\ \/ Current[p] = Absent
          \/ Current'[p] # Absent /\ Current'[p].name = Current[p].name
          \/ \E i \in DOMAIN log[w] : log[w][i].op = "tombstone" /\ log[w][i].path = p]_products

\* After a rollback that cascades nothing is published that was built, over
\* any number of edges, on the version that left (wp::rollback).
CascadeIsComplete ==
  [][\A name \in Name :
       (\E n \in 1..MaxLines : Rollback(name, n, TRUE)) /\ views' # views =>
         \E v \in Have(Current) :
           v.name = name /\ Have(Current') \cap (Reached({v}) \ {v}) = {}]_products

\* A view that was reported published is in views.jsonl, in its place among the
\* others, as long as the file can be read, which only a failing append ends: who
\* opens the workspace again finds them all, or is refused (wp::append_view).
NoViewLostInSilence ==
  /\ ProductsTypeOK
  /\ lost = 0 => viewsTail = "whole" /\ treeTail = "whole" /\ \A w \in Writer : logTail[w] = "whole"
  /\ viewsTail # "spoiled" =>
       \E at \in [DOMAIN views -> DOMAIN onDisk] :
         /\ \A i \in DOMAIN views : onDisk[at[i]] = views[i]
         /\ \A i, j \in DOMAIN views : i < j => at[i] < at[j]

\* A worker is let go of only when tree.jsonl has its end or cannot be read any more:
\* a worker that comes back when the workspace is opened again is one nobody was told
\* is gone (wp::unmount_locked).
NoMountForgotten ==
  [][\A w \in (live \cup retiring) \cap mounted :
       w \in mounted' /\ treeTail' # "spoiled" => w \in live' \cup retiring']_products
=============================================================================

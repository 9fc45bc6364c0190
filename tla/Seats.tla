------------------------------- MODULE Seats -------------------------------
(***************************************************************************)
(* The recorder's seats (an-agent-core, recorder/spawn, signal, restore    *)
(* and seat/tree): workers hang on a tree under the recorder, each with a  *)
(* bound, a cancel flag and, unless it is lite, a sub-workspace.  Spawn    *)
(* and release exclude each other and are several steps, between which     *)
(* signals run; every append to the recorder's tape may fail with or       *)
(* without its line, and restore_seats rebuilds the seats from that tape.  *)
(* A worker may be spawned again under the id of its card.                 *)
(***************************************************************************)
EXTENDS Naturals, Sequences, FiniteSetsExt

CONSTANTS
  Worker,      \* the ids of the workers' cards
  Root,        \* the recorder
  Right,       \* a charter is the set of what it allows
  MaxFailures, \* a bound of the model
  Nil

VARIABLES
  journal,  \* the recorder's tape: its lifecycle lines
  parent,   \* the tree: Nil is not mounted
  seats,    \* the workers whose seat the recorder holds
  bound,    \* worker -> its charter, Nil is no entry
  flagged,  \* workers with an entry in the flags
  raised,   \* flags that are set: a lease keeps a flag that left the map
  lease,    \* worker -> the flags a lease of it observes, while they are the latest of their ids
  wp,       \* workers whose sub-workspace is live or retiring
  call,     \* the spawn or release that holds the lifecycle lock
  owed,     \* workers whose spawn answered that a retirement is pending, not settled since
  cancelling,  \* workers whose cancel has asked the tree and not written its line yet
  failures

seatVars == <<journal, parent, seats, bound, flagged, raised, lease, wp, call, owed, cancelling, failures>>

Node == Worker \cup {Root}
Charter == SUBSET Right
SeatLine == [op : {"spawn_pending", "release_pending"}, id : Worker, workers : SUBSET Worker]
          \cup [op : {"spawn"}, id : Worker, parent : Node]
          \cup [op : {"release", "cancel"}, id : Worker]
Call == [op : {"spawn", "release"}, at : {"announce", "register", "record", "unwind", "unwound", "charter", "flag", "seat",
                                          "revoke", "unseat", "abandon", "done"},
         id : Worker, ids : SUBSET Worker, parent : Node \cup {Nil}, charter : Charter, lite : BOOLEAN]

ASSUME SeatsAssumption ==
  /\ IsFiniteSet(Worker) /\ Root \notin Worker
  /\ Nil \notin Node /\ Nil \notin Call /\ Nil \notin SeatLine /\ \A c \in Charter : c # Nil
  /\ MaxFailures \in Nat

SeatsTypeOK ==
  /\ journal \in Seq(SeatLine)
  /\ parent \in [Worker -> Node \cup {Nil}]
  /\ bound \in [Worker -> Charter \cup {Nil}]
  /\ seats \subseteq Worker /\ flagged \subseteq Worker /\ wp \subseteq Worker
  /\ raised \subseteq Node
  /\ lease \in [Worker -> SUBSET Node]
  /\ call \in Call \cup {Nil}
  /\ owed \subseteq Worker /\ cancelling \subseteq Worker
  /\ failures \in 0..MaxFailures

SeatsInit ==
  /\ journal = <<>>
  /\ parent = [w \in Worker |-> Nil]
  /\ bound = [w \in Worker |-> Nil]
  /\ seats = {} /\ flagged = {} /\ raised = {} /\ wp = {}
  /\ lease = [w \in Worker |-> {}]
  /\ call = Nil
  /\ owed = {} /\ cancelling = {}
  /\ failures = 0

----------------------------------------------------------------------------
(* The tree *)

InTree(w) == w # Root => parent[w] # Nil

UpClosed(up, nodes) == \A v \in nodes \ {Root} : up[v] # Nil => up[v] \in nodes

\* A node and those over it, as far as a map of parents goes.
Above(up, w) ==
  {v \in Node : \A nodes \in SUBSET Node : w \in nodes /\ UpClosed(up, nodes) => v \in nodes}

Chain(w) == Above(parent, w)
Descendants(w) == {v \in Worker : InTree(v) /\ w \in Chain(v)}

Pruned(up, ids) ==
  LET gone == {w \in Worker : Above(up, w) \cap ids # {}} IN
  [w \in Worker |-> IF w \in gone THEN Nil ELSE up[w]]

\* Dropping a seat unregisters what hangs under it.
Unmount(ids) == parent' = Pruned(parent, ids)

----------------------------------------------------------------------------
(* The tape *)

LineFails == failures < MaxFailures /\ failures' = failures + 1

Taped(line) == journal' = Append(journal, line) /\ UNCHANGED failures
TapedOrLost(line) == LineFails /\ journal' \in {journal, Append(journal, line)}

Lifecycle(lines) == {i \in DOMAIN lines : lines[i].op # "cancel"}

\* pending_release: the last spawn or release that has begun and not ended.
PendingIn(lines) ==
  IF Lifecycle(lines) = {} \/ lines[Max(Lifecycle(lines))].op \in {"spawn", "release"} THEN Nil
  ELSE lines[Max(Lifecycle(lines))]

Pending == PendingIn(journal)

----------------------------------------------------------------------------
(* Spawn *)

Doing(op, at) == call # Nil /\ call.op = op /\ call.at = at
Goto(at) == call' = [call EXCEPT !.at = at]

\* The seat is mounted, then the tape is told; a lite seat has no files to write.
SpawnBegins(w, up, charter, lite) ==
  /\ call = Nil /\ Pending = Nil
  /\ parent[w] = Nil /\ InTree(up)
  /\ up # Root => bound[up] # Nil /\ charter \subseteq bound[up]
  /\ lite => up = Root
  /\ parent' = [parent EXCEPT ![w] = up]
  /\ call' = [op |-> "spawn", at |-> "announce",
              id |-> w, ids |-> {w}, parent |-> up, charter |-> charter, lite |-> lite]
  /\ UNCHANGED <<journal, seats, bound, flagged, raised, lease, wp, owed, cancelling, failures>>

SpawnAnnounces ==
  /\ Doing("spawn", "announce")
  /\ LET line == [op |-> "spawn_pending", id |-> call.id, workers |-> {call.id}] IN
     \/ Taped(line) /\ Goto(IF call.lite THEN "record" ELSE "register") /\ UNCHANGED parent
     \/ TapedOrLost(line) /\ Unmount({call.id}) /\ call' = Nil
  /\ UNCHANGED <<seats, bound, flagged, raised, lease, wp, owed, cancelling>>

\* The seat is dropped, and the caller told to release what the workspace may keep.
LeftToRelease == Unmount({call.id}) /\ call' = Nil /\ owed' = owed \cup {call.id}

\* A registration that fails may be in the workspace's log; one that is still there
\* is an error without a failure.
SpawnRegisters ==
  /\ Doing("spawn", "register")
  /\ \/ call.id \notin wp /\ wp' = wp \cup {call.id} /\ Goto("record") /\ UNCHANGED <<parent, owed, failures>>
     \/ call.id \in wp /\ LeftToRelease /\ UNCHANGED <<wp, failures>>
     \/ LineFails /\ LeftToRelease /\ UNCHANGED wp
  /\ UNCHANGED <<journal, seats, bound, flagged, raised, lease, cancelling>>

SpawnRecords ==
  /\ Doing("spawn", "record")
  /\ LET line == [op |-> "spawn", id |-> call.id, parent |-> call.parent] IN
     \/ Taped(line) /\ Goto("charter")
     \/ TapedOrLost(line) /\ Goto("unwind")
  /\ UNCHANGED <<parent, seats, bound, flagged, raised, lease, wp, owed, cancelling>>

\* The local seat drops even when the workspace keeps its part.
SpawnUnwinds ==
  /\ Doing("spawn", "unwind")
  /\ \/ wp' = wp \ {call.id} /\ Goto("unwound") /\ UNCHANGED <<parent, owed, failures>>
     \/ LineFails /\ LeftToRelease /\ UNCHANGED wp
  /\ UNCHANGED <<journal, seats, bound, flagged, raised, lease, cancelling>>

SpawnUnwound ==
  /\ Doing("spawn", "unwound")
  /\ LET line == [op |-> "release", id |-> call.id] IN
     \/ Taped(line) /\ Unmount({call.id}) /\ call' = Nil /\ owed' = owed \ {call.id}
     \/ TapedOrLost(line) /\ LeftToRelease
  /\ UNCHANGED <<seats, bound, flagged, raised, lease, wp, cancelling>>

SpawnCharters ==
  /\ Doing("spawn", "charter") /\ Goto("flag")
  /\ bound' = [bound EXCEPT ![call.id] = call.charter]
  /\ UNCHANGED <<journal, parent, seats, flagged, raised, lease, wp, owed, cancelling, failures>>

\* A flag of its own: leases on the flag before this one, which is set for good, are not
\* followed further.
SpawnFlags ==
  /\ Doing("spawn", "flag") /\ Goto("seat")
  /\ flagged' = flagged \cup {call.id}
  /\ raised' = raised \ {call.id}
  /\ lease' = [w \in Worker |-> IF call.id \in lease[w] THEN {} ELSE lease[w]]
  /\ UNCHANGED <<journal, parent, seats, bound, wp, owed, cancelling, failures>>

SpawnSeats ==
  /\ Doing("spawn", "seat") /\ call' = Nil
  /\ seats' = seats \cup {call.id} /\ owed' = owed \ {call.id}
  /\ UNCHANGED <<journal, parent, bound, flagged, raised, lease, wp, cancelling, failures>>

----------------------------------------------------------------------------
(* Release *)

ReleaseCall(w, ids) ==
  [op |-> "release", at |-> "revoke", id |-> w, ids |-> ids, parent |-> Nil, charter |-> {}, lite |-> FALSE]

\* A release that is pending is taken up with the workers its line names.
ReleaseResumes(w) ==
  /\ call = Nil /\ Pending # Nil /\ Pending.id = w
  /\ call' = ReleaseCall(w, Pending.workers)
  /\ UNCHANGED <<journal, parent, seats, bound, flagged, raised, lease, wp, owed, cancelling, failures>>

ReleaseBegins(w) ==
  /\ call = Nil /\ Pending = Nil /\ InTree(w)
  /\ LET line == [op |-> "release_pending", id |-> w, workers |-> Descendants(w)] IN
     \/ Taped(line) /\ call' = ReleaseCall(w, Descendants(w))
     \/ TapedOrLost(line) /\ UNCHANGED call
  /\ UNCHANGED <<parent, seats, bound, flagged, raised, lease, wp, owed, cancelling>>

ReleaseRevokes ==
  /\ Doing("release", "revoke") /\ Goto("unseat")
  /\ bound' = [w \in Worker |-> IF w \in call.ids THEN Nil ELSE bound[w]]
  /\ flagged' = flagged \ call.ids
  /\ raised' = raised \cup (flagged \cap call.ids)
  /\ UNCHANGED <<journal, parent, seats, lease, wp, owed, cancelling, failures>>

ReleaseUnseats ==
  /\ Doing("release", "unseat") /\ Goto("abandon")
  /\ seats' = seats \ call.ids
  /\ Unmount(seats \cap call.ids)
  /\ UNCHANGED <<journal, bound, flagged, raised, lease, wp, owed, cancelling, failures>>

\* One worker after the other, until the workspace fails one.
ReleaseAbandons ==
  /\ Doing("release", "abandon")
  /\ \/ wp' = wp \ call.ids /\ Goto("done") /\ UNCHANGED failures
     \/ /\ \E gone \in SUBSET call.ids : gone # call.ids /\ wp' = wp \ gone
        /\ LineFails /\ call' = Nil
  /\ UNCHANGED <<journal, parent, seats, bound, flagged, raised, lease, owed, cancelling>>

ReleaseRecords ==
  /\ Doing("release", "done") /\ call' = Nil
  /\ LET line == [op |-> "release", id |-> call.id] IN
     \/ Taped(line) /\ owed' = owed \ {call.id}
     \/ TapedOrLost(line) /\ UNCHANGED owed
  /\ UNCHANGED <<parent, seats, bound, flagged, raised, lease, wp, cancelling>>

----------------------------------------------------------------------------
(* Signals: they hold no lifecycle lock *)

\* Only the recorder's own cancels are on its tape.  The tree is asked first, and may
\* have changed when the line is written.
CancelBegins(w) ==
  /\ parent[w] = Root
  /\ w \notin cancelling /\ cancelling' = cancelling \cup {w}
  /\ UNCHANGED <<journal, parent, seats, bound, flagged, raised, lease, wp, call, owed, failures>>

CancelEnds(w) ==
  /\ w \in cancelling /\ cancelling' = cancelling \ {w}
  /\ LET line == [op |-> "cancel", id |-> w] IN Taped(line) \/ TapedOrLost(line)
  /\ UNCHANGED <<parent, seats, bound, flagged, raised, lease, wp, call, owed>>

Cancels(ids) ==
  LET own == {v \in ids : parent[v] = Root} IN
  \E order \in Bijection(1..Cardinality(own), own) :
    journal' = journal \o [i \in 1..Cardinality(own) |-> [op |-> "cancel", id |-> order[i]]]

\* Down every edge: the flag first, the cancel after those of the workers under it.
Propagate(w) ==
  /\ w # Root => w \in flagged
  /\ Descendants(w) \subseteq flagged
  /\ raised' = raised \cup {w} \cup Descendants(w)
  /\ Cancels(Descendants(w))
  /\ UNCHANGED <<parent, seats, bound, flagged, lease, wp, call, owed, cancelling, failures>>

\* The walk ends at a worker that has no flag yet, since it is being spawned, or whose
\* cancel is not recorded.  The workers over it are marked, and those beside them that
\* came before.
PropagateStops(w) ==
  /\ w # Root => w \in flagged
  /\ \E at \in Descendants(w) :
       LET onto == {w} \cup ((Chain(at) \ {at}) \cap Descendants(w)) IN
       \E before \in SUBSET ((Descendants(w) \cap flagged) \ (onto \cup Descendants(at))) :
         /\ \A v \in before : Descendants(v) \subseteq before
         /\ \/ /\ at \notin flagged
               /\ raised' = raised \cup onto \cup before
               /\ Cancels(before) /\ UNCHANGED failures
            \/ /\ Descendants(at) \subseteq flagged
               /\ raised' = raised \cup onto \cup before \cup Descendants(at)
               /\ Cancels(before) \/ Cancels(before \cup {at})
               /\ LineFails
  /\ UNCHANGED <<parent, seats, bound, flagged, lease, wp, call, owed, cancelling>>

\* The flags from the worker up to the recorder, as long as each of them is there.
Lease(w) ==
  /\ Root \in Chain(w) /\ Chain(w) \ {Root} \subseteq flagged
  /\ lease' = [lease EXCEPT ![w] = Chain(w)]
  /\ UNCHANGED <<journal, parent, seats, bound, flagged, raised, wp, call, owed, cancelling, failures>>

Signal ==
  \/ \E w \in Worker : CancelBegins(w) \/ CancelEnds(w) \/ Lease(w)
  \/ \E w \in Worker \cup {Root} : Propagate(w) \/ PropagateStops(w)

SeatsNext ==
  \/ \E w \in Worker, up \in Worker \cup {Root}, charter \in Charter, lite \in BOOLEAN :
       SpawnBegins(w, up, charter, lite)
  \/ SpawnAnnounces \/ SpawnRegisters \/ SpawnRecords \/ SpawnUnwinds \/ SpawnUnwound
  \/ SpawnCharters \/ SpawnFlags \/ SpawnSeats
  \/ \E w \in Worker : ReleaseResumes(w) \/ ReleaseBegins(w)
  \/ ReleaseRevokes \/ ReleaseUnseats \/ ReleaseAbandons \/ ReleaseRecords
  \/ Signal

SeatsSpec == SeatsInit /\ [][SeatsNext]_seatVars

----------------------------------------------------------------------------
(* restore_seats *)

Replay(up, line) ==
  CASE line.op = "spawn" -> [up EXCEPT ![line.id] = line.parent]
    [] line.op \in {"release", "release_pending", "cancel"} -> Pruned(up, {line.id})
    [] OTHER -> up

Replayed(lines) ==
  LET tree[n \in 0..Len(lines)] ==
        IF n = 0 THEN [w \in Worker |-> Nil] ELSE Replay(tree[n - 1], lines[n])
  IN  tree

TreeOf(lines) == Replayed(lines)[Len(lines)]
Rebuilt == TreeOf(journal)

\* Mutant: a broken parent chain is kept.
RestoredAny == LET tree == Rebuilt IN {w \in Worker : tree[w] # Nil}

\* What is left whose parents lead to the recorder.
Restored == LET tree == Rebuilt IN {w \in Worker : tree[w] # Nil /\ Root \in Above(tree, w)}

----------------------------------------------------------------------------
(* Properties *)

Retiring == IF Pending = Nil THEN {} ELSE Pending.workers

Spawns(lines, w) == {i \in DOMAIN lines : lines[i].op = "spawn" /\ lines[i].id = w}

\* Cancelled since it was last spawned, and spawned under somebody whose chain on the
\* tape had ended.
Ended(lines) ==
  {w \in Worker : \E i \in DOMAIN lines :
     lines[i].op = "cancel" /\ lines[i].id = w /\ \A j \in Spawns(lines, w) : j < i}
Adrift(lines) ==
  {w \in Worker : \E i \in Spawns(lines, w) :
     Root \notin Above(Replayed(lines)[i], w) /\ \A j \in Spawns(lines, w) : j <= i}

CancelledOnTape(w) == Chain(w) \cap Ended(journal) # {}

\* The tape holds the seats: between calls, what restore_seats rebuilds from it are the
\* recorder's seats without those that were cancelled, they or one over them, after
\* their spawn was recorded, and those whose release is pending.  A worker without a seat
\* comes back only if its spawn answered that a retirement is pending, or had been
\* recorded under somebody who had ended (restore.rs, spawn.rs, mod.rs:4).
TapeHoldsTheSeats ==
  call = Nil =>
    LET kept == {w \in seats : ~CancelledOnTape(w)}
        back == Restored
    IN  /\ kept \ Retiring \subseteq back /\ back \cap seats \subseteq kept
        /\ back \ seats \subseteq owed \cup Adrift(journal)

\* No sub-workspace is left behind: between calls each belongs to a seat, to
\* a retirement the tape still has open, or to a worker whose caller was told
\* to release it again (Recorder::release, spawn_child).
WorkspacesHaveOwners == call = Nil => wp \subseteq seats \cup Retiring \cup owed

\* Rights narrow all the way up: a worker may do nothing that one over it may
\* not, and a lease ends with its worker (spawn_child, Recorder::lease).
RightsEndAbove ==
  /\ \A w \in Worker : \A v \in Chain(w) \ {Root} :
       bound[w] # Nil /\ bound[v] # Nil => bound[w] \subseteq bound[v]
  /\ \A w \in Worker : lease[w] # {} /\ ~InTree(w) => lease[w] \cap raised # {}

\* What the recorder holds between calls, and what its workers may do.
SeatsSafe == SeatsTypeOK /\ TapeHoldsTheSeats /\ WorkspacesHaveOwners /\ RightsEndAbove
=============================================================================

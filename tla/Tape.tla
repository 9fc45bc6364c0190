-------------------------------- MODULE Tape --------------------------------
(***************************************************************************)
(* One agent's tape (JsonlStore of an-agent-core): a file of lines with     *)
(* consecutive sequence numbers, its writer lock, and what failing writes, *)
(* failing syncs, forks, killed processes and power loss leave behind.     *)
(*                                                                         *)
(* The store's mutex makes every call one step.  A line is its sequence    *)
(* number and its event id.  Of a line that was not written whole the file *)
(* ends in a torn tail, which does not parse, or in a bare line, which     *)
(* only lacks its newline.  Bytes written after either without care fuse   *)
(* with it into a line that can never be read.                             *)
(***************************************************************************)
EXTENDS Naturals, Sequences

CONSTANTS
  Process,  \* processes that may open the tape or inherit its descriptor
  Event,    \* event ids, a fresh one for each append
  Nil       \* an absent Option

ASSUME NoneEventAssumption == Nil \notin Event /\ Nil \notin Nat

VARIABLES
  events,   \* the complete events of the file
  bare,     \* whether the last of them lacks its newline
  torn,     \* event id of the torn tail, or Nil
  fused,    \* whether the file holds a line that cannot be read
  durable,  \* how many events a power loss cannot take
  side,     \* ids of the tails kept in the side file
  stores,   \* process -> state of the store it has opened, or Nil
  heirs,    \* processes that inherited the locked descriptor
  locked,   \* whether the tape has a writer lock
  named,    \* ids drawn so far
  numbered  \* id -> sequence number append returned for it, or Nil

file == <<events, bare, torn, fused, durable, side>>
owners == <<heirs, locked>>
tapeVars == <<file, stores, owners, named, numbered>>

Line == [seq : Nat \ {0}, id : Event]

\* next_seq (Nil until the file was scanned) and needs_newline.
Store == [next : Nat \cup {Nil}, newline : BOOLEAN]

ASSUME NoneStoreAssumption == Nil \notin Store

TapeTypeOK ==
  /\ events \in Seq(Line)
  /\ bare \in BOOLEAN
  /\ torn \in Event \cup {Nil}
  /\ fused \in BOOLEAN
  /\ durable \in 0..Len(events)
  /\ side \in SUBSET Event
  /\ stores \in [Process -> Store \cup {Nil}]
  /\ heirs \in SUBSET Process
  /\ locked \in BOOLEAN
  /\ named \in SUBSET Event
  /\ numbered \in [Event -> Nat \cup {Nil}]

----------------------------------------------------------------------------
(* Scanning: the torn tail is copied to the side file, then cut off *)

LastSeq == IF events = <<>> THEN 0 ELSE events[Len(events)].seq

Unscanned == [next |-> Nil, newline |-> FALSE]

\* A scan that fails has put the tail aside or not; the tail is still there.
ScanFails(p) ==
  /\ torn # Nil
  /\ side' \in {side, side \cup {torn}}
  /\ stores' = [stores EXCEPT ![p] = Unscanned]
  /\ UNCHANGED <<events, bare, torn, fused, durable>>

\* Mutant: the tail is cut off before it is put aside.
CutsFirst(p) ==
  /\ torn # Nil
  /\ torn' = Nil
  /\ stores' = [stores EXCEPT ![p] = Unscanned]
  /\ UNCHANGED <<events, bare, fused, durable, side>>

\* The truncation is done, its sync failed.
ScanUnsynced(p) ==
  /\ torn # Nil
  /\ side' = side \cup {torn}
  /\ torn' = Nil
  /\ stores' = [stores EXCEPT ![p] = Unscanned]
  /\ UNCHANGED <<events, bare, fused, durable>>

ReadAll(p) ==
  /\ stores[p] # Nil
  /\ \/ /\ ~fused
        /\ torn = Nil
        /\ stores' = [stores EXCEPT ![p] = [next |-> Nil, newline |-> bare]]
        /\ UNCHANGED file
     \/ /\ ~fused
        /\ torn # Nil
        /\ torn' = Nil /\ side' = side \cup {torn} /\ durable' = Len(events)
        /\ stores' = [stores EXCEPT ![p] = Unscanned]
        /\ UNCHANGED <<events, bare, fused>>
     \/ ~fused /\ (ScanFails(p) \/ ScanUnsynced(p))
  /\ UNCHANGED <<owners, named, numbered>>

----------------------------------------------------------------------------
(* Appending *)

\* What of the line reached the file, and whether it is known to stay.
LineOutcome == {"synced", "unsynced", "bare", "torn", "nothing"}

Acknowledged(outcome) == outcome = "synced"

\* Mutant: the cached number survives a failed append.
KeepCache(seq, newline, outcome) ==
  [next |-> IF Acknowledged(outcome) THEN seq + 1 ELSE seq,
   newline |-> IF Acknowledged(outcome) THEN FALSE ELSE newline]

\* Any error makes the next append scan the file again.
Cached(seq, newline, outcome) ==
  IF Acknowledged(outcome) THEN [next |-> seq + 1, newline |-> FALSE]
  ELSE [next |-> Nil, newline |-> newline]

\* Without a cached number the file is scanned first, in the same call.
AppendEvent(p, id, outcome) ==
  LET scan == stores[p].next = Nil
      tail == IF scan THEN Nil ELSE torn
      newline == IF scan THEN bare /\ torn = Nil ELSE stores[p].newline
      line == [seq |-> IF scan THEN LastSeq + 1 ELSE stores[p].next, id |-> id]
      whole == outcome \in {"synced", "unsynced", "bare"}
      fuses == tail # Nil \/ (bare /\ ~newline)
  IN
  /\ stores[p] # Nil
  /\ id \notin named
  /\ named' = named \cup {id}
  /\ ~(scan /\ fused)
  /\ side' = IF scan /\ torn # Nil THEN side \cup {torn} ELSE side
  /\ events' = IF whole /\ ~fuses THEN Append(events, line) ELSE events
  /\ fused' = (fused \/ (whole /\ fuses))
  /\ bare' \in CASE outcome = "bare" -> {TRUE}
                [] outcome = "nothing" -> IF newline THEN {FALSE, bare} ELSE {bare}
                [] OTHER -> {FALSE}
  /\ torn' = CASE outcome = "torn" -> id
               [] outcome = "nothing" -> tail
               [] OTHER -> Nil
  /\ durable' = IF outcome = "synced" THEN Len(events')
               ELSE IF scan /\ torn # Nil THEN Len(events) ELSE durable
  /\ stores' = [stores EXCEPT ![p] =
                  Cached(line.seq, newline, outcome)]
  /\ numbered' = IF Acknowledged(outcome) THEN [numbered EXCEPT ![id] = line.seq] ELSE numbered
  /\ UNCHANGED owners

----------------------------------------------------------------------------
(* Ownership of the tape *)

OpenStore(p) ==
  /\ stores[p] = Nil /\ p \notin heirs
  /\ ~locked
  /\ locked' = TRUE /\ heirs' = {}
  /\ stores' = [stores EXCEPT ![p] = Unscanned]
  /\ UNCHANGED <<file, named, numbered>>

\* Dropping the store unlocks, even if a child still has the descriptor.
Drop(p) ==
  /\ stores[p] # Nil
  /\ stores' = [stores EXCEPT ![p] = Nil]
  /\ locked' = FALSE
  /\ UNCHANGED <<file, heirs, named, numbered>>

\* A child has the descriptor and a store it may not use.
Fork(p, q) ==
  /\ stores[p] # Nil
  /\ stores[q] = Nil /\ q \notin heirs
  /\ heirs' = heirs \cup {q}
  /\ UNCHANGED <<file, stores, locked, named, numbered>>

\* Closing the last descriptor releases the lock.
Closed(p) ==
  /\ heirs' = heirs \ {p}
  /\ locked' = (locked /\ (heirs' # {} \/ \E q \in Process : stores'[q] # Nil))

\* The child drops its copy, executes another program or dies.
DropInherited(q) ==
  /\ q \in heirs
  /\ UNCHANGED <<file, stores, named, numbered>>
  /\ Closed(q)

KillProcess(p) ==
  /\ stores[p] # Nil
  /\ stores' = [stores EXCEPT ![p] = Nil]
  /\ Closed(p)
  /\ UNCHANGED <<file, named, numbered>>

\* What was not synced survives up to any point, also a tail whose truncation
\* was not synced.
TapePowerLoss ==
  /\ \E k \in durable..Len(events) :
       /\ events' = SubSeq(events, 1, k)
       /\ \/ bare' = FALSE
             /\ torn' \in IF k < Len(events) THEN {Nil, events[k + 1].id} ELSE {Nil, torn} \cup side
          \/ /\ k > durable \/ (k = Len(events) /\ bare)
             /\ bare' = TRUE /\ torn' = Nil
  /\ durable' = Len(events')
  /\ stores' = [p \in Process |-> Nil]
  /\ heirs' = {} /\ locked' = FALSE
  /\ UNCHANGED <<fused, side, named, numbered>>

----------------------------------------------------------------------------

TapeInit ==
  /\ events = <<>> /\ bare = FALSE /\ torn = Nil /\ fused = FALSE
  /\ durable = 0 /\ side = {}
  /\ stores = [p \in Process |-> Nil]
  /\ heirs = {} /\ locked = FALSE
  /\ named = {} /\ numbered = [e \in Event |-> Nil]

TapeNext ==
  \/ \E p \in Process :
       OpenStore(p) \/ Drop(p) \/ KillProcess(p) \/ DropInherited(p) \/ ReadAll(p)
  \/ \E p, q \in Process : Fork(p, q)
  \/ \E p \in Process, id \in Event, outcome \in LineOutcome : AppendEvent(p, id, outcome)
  \/ TapePowerLoss

TapeSpec == TapeInit /\ [][TapeNext]_tapeVars

----------------------------------------------------------------------------
(* Properties *)

\* Sequence numbers count the events: appends of any process, after any failure,
\* neither repeat nor skip one.
SeqsAreDense == \A i \in DOMAIN events : events[i].seq = i

\* No append ever runs into what a failed one left: the store never comes to
\* refuse its tape.
NeverFused == ~fused

\* At most one process can append, whoever forked or died with the descriptor.
SingleWriter ==
  /\ \A p, q \in Process : stores[p] # Nil /\ stores[q] # Nil => p = q
  /\ (\E p \in Process : stores[p] # Nil) => locked

\* An event that was acknowledged stays on the tape under its number, whatever
\* fails afterwards, power included.
AckedStays ==
  \A e \in Event : numbered[e] # Nil =>
    numbered[e] \in DOMAIN events /\ events[numbered[e]].id = e /\ numbered[e] <= durable

\* Torn bytes leave the tape only once the side file has them, or with the power.
TornIsKept ==
  [][torn # Nil /\ torn' # torn => torn \in side' \/ \A p \in Process : stores'[p] = Nil]_tapeVars

\* What every process may rely on: dense numbers, a file that can be read, one
\* writer, and events that stay once append returned them. (jsonl.rs:139)
TapeSafe == TapeTypeOK /\ SeqsAreDense /\ NeverFused /\ SingleWriter /\ AckedStays
=============================================================================

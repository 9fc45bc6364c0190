----------------------------- MODULE MCRecorder -----------------------------
(* What the seats of one session do, for TLC: the recorder spawns and releases *)
(* workers, or two workers write and publish, or a body asks a model.  Each of *)
(* the three keeps records of its own and is explored on its own.              *)
EXTENDS AgentBeat, WorkProducts, Seats, TLC

CONSTANTS
  MaxTape,   \* lines and failures of the recorder's tape
  MaxEvents  \* rewrites, revocations, mounts and faults of one run of the model

VARIABLE part  \* what is used

InSeats == part = "seats" /\ UNCHANGED <<part, products, vars>>
InProducts == part = "products" /\ UNCHANGED <<part, seatVars, vars>>
InBoundary == part = "boundary" /\ UNCHANGED <<part, seatVars, products>>

RecorderInit == part \in {"seats", "products", "boundary"} /\ SeatsInit /\ ProductsInit /\ Init

\* SeatsNext, ProductsNext and Next, each action in its part.
RecorderNext ==
  \/ \E w \in Worker, up \in Worker \cup {Root}, charter \in Charter, lite \in BOOLEAN :
       InSeats /\ SpawnBegins(w, up, charter, lite)
  \/ InSeats /\ SpawnAnnounces
  \/ InSeats /\ SpawnRegisters
  \/ InSeats /\ SpawnRecords
  \/ InSeats /\ SpawnUnwinds
  \/ InSeats /\ SpawnUnwound
  \/ InSeats /\ SpawnCharters
  \/ InSeats /\ SpawnFlags
  \/ InSeats /\ SpawnSeats
  \/ \E w \in Worker : InSeats /\ ReleaseResumes(w)
  \/ \E w \in Worker : InSeats /\ ReleaseBegins(w)
  \/ InSeats /\ ReleaseRevokes
  \/ InSeats /\ ReleaseUnseats
  \/ InSeats /\ ReleaseAbandons
  \/ InSeats /\ ReleaseRecords
  \/ \E w \in Worker : InSeats /\ CancelBegins(w)
  \/ \E w \in Worker : InSeats /\ CancelEnds(w)
  \/ \E w \in Worker : InSeats /\ Lease(w)
  \/ \E w \in Worker \cup {Root} : InSeats /\ Propagate(w)
  \/ \E w \in Worker \cup {Root} : InSeats /\ PropagateStops(w)
  \/ \E w \in Writer : InProducts /\ Register(w)
  \/ \E w \in Writer : InProducts /\ Abandon(w)
  \/ \E w \in Writer : InProducts /\ Reject(w)
  \/ \E w \in Writer, p \in Path : InProducts /\ Create(w, p)
  \/ \E w \in Writer, p \in Path : InProducts /\ Continue(w, p)
  \/ \E w \in Writer, p \in Path : InProducts /\ Tombstone(w, p)
  \/ \E w \in Writer : InProducts /\ \E extra \in SUBSET Edges(Reduce(w)) : Close(w, extra)
  \/ \E w \in Writer, name \in Name, p \in Path : InProducts /\ Allow(w, name, p)
  \/ \E cascade \in BOOLEAN : InProducts /\
       \E ver \in UNION {Have(views[i].files) : i \in DOMAIN views} : Rollback(ver.name, ver.version, cascade)
  \/ InProducts /\ Reopen
  \/ \E k \in Kind, says \in Document : InBoundary /\ PutDocument(k, says)
  \/ InBoundary /\ RevokeReviews
  \/ InBoundary /\ ResolveReview
  \/ InBoundary /\ Crash
  \/ \E complete \in BOOLEAN : InBoundary /\ MountBody(complete)
  \/ InBoundary /\ UnmountBody
  \/ InBoundary /\ EnterBody
  \/ InBoundary /\ Ask
  \/ InBoundary /\ Answer
  \/ InBoundary /\ Conclude
  \/ InBoundary /\ Drop
  \/ InBoundary /\ AskForReview
  \/ InBoundary /\ Preflight
  \/ InBoundary /\ ComposeFails
  \/ InBoundary /\ Grant
  \/ InBoundary /\ PublishAction
  \/ InBoundary /\ Return
  \/ InBoundary /\ PublishOutcome
  \/ InBoundary /\ \E clip \in 0..Len(tape) : Compose(clip)

RecorderSpec == RecorderInit /\ [][RecorderNext]_<<part, seatVars, products, vars>>

\* A line that a cancel is going to write counts as one, a failure as two and a lease or a
\* walk from the recorder as one; one cancel or one lease is in use at a time.  After a
\* failing append of the workspace the two logs have two lines together.
Leased == {w \in Worker : lease[w] # {}}
Bounded ==
  /\ Len(journal) + Cardinality(cancelling) + 2 * failures
       <= IF Root \in raised \/ Leased # {} THEN MaxTape - 1 ELSE MaxTape
  /\ Cardinality(cancelling) + Cardinality(Leased) <= 1
  /\ lost > 0 => Cardinality({<<w, i>> \in Writer \X (1..MaxLines) : i <= Len(log[w])}) <= 2
  /\ writes + epoch + drawn + faults <= MaxEvents

Symmetry == Permutations(Worker) \cup Permutations(Path)
=============================================================================

# A TLA+ verification of an-agent

`an-agent` runs language-model agents under a control plane. The program decides
who may act, keeps what was decided on append-only tapes, and lets the host
software land the results. This directory holds TLA+ modules for the parts of it
that can be model-checked, the TLC instances that check them, and proofs of the
most important theorems that TLAPS checks for every size of the system.

Contents: [the system](#the-system), [what is modelled](#what-is-modelled),
[the runs](#the-runs), [fairness](#fairness), [the proofs](#the-proofs),
[disagreements with the documentation](#disagreements-with-the-documentation),
[what is not modelled](#what-is-not-modelled), [the plan](#the-plan).

Paths below are relative to `src/crates/`; `core` is `an-agent-core/src`, `host`
is `an-agent-host/src`.

## The system

### Components, state, operations

| component | state it keeps | operations | correct when |
|---|---|---|---|
| **review ledger** `an-agent-supervision/src/lib.rs` | active engagements and their authority epochs, supervision edges, mounted bodies, pending reviews, ids ever used | open, retire, revoke, mount, unmount, bind, insert, resolve, check_call, close, invalidate_fact | edges live and acyclic; nothing waits under authority that is gone; one review per subject and scope; an answer counts once |
| **agent control: lifecycle** `core/control.rs`, `control/session.rs`, `seat/pool.rs` | run state of each agent (live, finishing, finished, cancel flag and signal), the one turn slot, the session directory | open, resume, seal, advance, run, cancel, finish, release | a beat never outlives the authority it began under; a finish that was acknowledged is never undone; the slot comes back |
| **agent control: supervision** `core/control/supervision.rs`, `act/tool.rs` | none of its own: the ledger, the tapes and the workspace generations together | set_supervisor, request/resolve/revoke reviews, review_tool | a tool without a go permit runs only by consuming one current approval of that very call; what happened is on the tapes |
| **agent control: delivery** `core/control/{spool,delivery,settlement,hooks}.rs` | table of mounted bodies, `delivery_batch` lines, the in-process fence | mount, unmount, offer, dispatch, applied | no body is run again for an uncertain batch; a reply never outlives the grant it was asked under; every body run is accounted for |
| **agent bodies and model boundary** `core/control/{agent_beat,model_boundary,semantic}.rs` | the dependencies a model step was admitted under, quarantined responses | evaluate, model_step, request review | a response computed from inputs that changed is not used |
| **session tape** `core/memstream/jsonl.rs` | the file, the cached next number, the writer lock, the side file of torn bytes | open, append, read_all, drop | dense numbers, one writer, acknowledged events stay, torn bytes are kept aside |
| **workspace ledger** `core/workspace.rs`, `workspace/env.rs`, `control/workspace.rs` | `log.jsonl`, content-addressed documents, `env.md` | register, push_event, put_config, put_env, cite | a record never cites a document that is not there; `env.md` never runs ahead of the durable log; writes stay in the registered list |
| **semantic authority** `an-agent-semantic/src` | none (pure) | decide, assess_contract, dependency comparison | an attempt is allowed only if every independent claim covers it |
| **charter, acts, tool registry** `core/act` | registered tools | cover, join, register | an approval never exceeds the approver's ceiling; a dropped handle unregisters |
| **seat tree** `core/seat/tree.rs` | who is mounted under whom | mount, unmount | dropping a seat drops its subtree |
| **principals** `core/principal`, `core/agent` | cards and their HEAD | build, register, spawn | a card is what its hash says |
| **recorder** `core/recorder` | seats, bounds, flags: projections of a tape; sub-workspaces, their logs and the published views | spawn, release, mail, cancel, lease, link, restore; register, write, close, resolve, rollback, abandon | the projection rebuilt from the tape is the one that was live; rights narrow downwards; a published view stays and a close changes its own files only |
| **spool contracts** `an-agent-spool/src` | the registry of bodies, scopes of mounted instances with their inverses | publish, recover, closure, cover, mount scope, unmount | unmounting restores what the mount found; a published body is never rewritten |
| **content store** `an-agent-workspace/src/store.rs` | objects and HEAD | write, commit, read | an object is what its digest says |
| **host: execution** `host/execution` | the attempt directory: plan, operation, receipt | admit, publish, execute, settle | a missing receipt is an unsettled operation and no permission to retry |
| **host: native spools** `host/native_spool` | installed instances, the files of each run, checkpoints, retirement and round control | install, start, accept, reclaim, reconcile, pause, resume, commit, retire | a name is one attempt; a run settles once; a round closes over no run that may still act; reconciliation repairs records and replays nothing |
| **host: native events** `host/native_spool/events` | event log, subscriptions, deliveries, dispatches, cohorts, replacements | publish, subscribe, deliver, dispatch, replace, settle | one event and subscription admit at most one attempt; a successor replays nothing; what is shown of a dispatch is proved and never taken back |
| **host: supervisors** `host/native_spool/supervisor` | the request, claim, controls and completion of an attempt's owner | prepare, attach, cancel, complete | one worker per request; the loss of a waiter does not stop it; it starts only what was approved |
| **host: peers** `host/native_spool/peer` | rounds of a peer exchange | prepare, execute, publish | no phase is run twice |
| **host: artifact versions** `host/artifact_versions` | immutable versions, references, registered custody | admit, claim, close, collect | nothing is collected while a claim is uncertain |
| **host: instances** `host/instance` | committed revisions, checkpoints, delivery attempts | commit, checkpoint, deliver, reclaim | one writer; a revision's parent is the HEAD it was computed from |
| **host: jobs** `host/{workspace_job,file_job}` | scratch, input snapshots, outputs in custody | plan, run, accept, collect | only outputs of a settled run are accepted |
| **host: openshell** `host/openshell` | the journal of one remote sandbox | submit, cancel, stop, accept | one submission; an unproved stop accepts nothing |
| **host: glue** `host/{lib,hooks,capability,retention,settled_run,agent_tools}` | none of note | mount from a config, run hooks, reclaim | hooks fail closed |

Example spools (`spools/`), the viewer and probes in `packages/`, the layering
checker in `tools/` and the command line in `host/bin` are no part of the running
system.

### How they interact

```
 host threads ──calls──► AgentControl ──one mutex──► review ledger (Supervision)
      ▲                     │   │  │
      │ replies, halts      │   │  └──append+fsync──► session tape of each agent
      └─────────────────────┘   └────its own mutex──► workspace ledger
                            │
                  one turn slot (Pool)  ── tool, body, hook, model: no lock held
```

* Every method of `AgentControl` may be called from any thread of the host.
* The *supervision lock* serialises authority: open, resume, release, finish,
  cancel, the admission of a beat, and every review operation hold it from the
  first check to the last append. One such call is one action here.
* A *beat* (advance, run, offer, dispatch) holds the pool's only turn. It takes the
  supervision lock for single checks only: while a tool, body, hook or model runs,
  every other operation may happen. Each stretch between two locked sections is
  one action.
* The host is another world: command-line processes that share nothing but the files
  of an instance. `host.lock` is a file created exclusively and removed at the end;
  whoever finds it there gives up, and a process that is killed leaves it behind.
  What an operation does is approved by the hash of what its preview showed.
* A tape and the workspace ledger each have a mutex of their own: one call, one
  step. Their admission checks are *other* calls, before.
* Any append can fail, with its line lost, torn, or on disk with only its sync
  failed. A process can die between any two writes and be started again.

### What is hard here

Cancellation racing a beat; finish, release and resume racing beats and waiting
reviews; an approval that must be durable before it counts and consumed before it
is used; facts that change between a request and its use; a model that answers after
what it was asked about has changed; bodies that are remounted while they run; a
batch whose last line may or may not be on disk; files written in place; caches over
a file that another handle or a crash changed; a tree of workers and the tape that
has to bring it back, through spawns that fail in the middle; views two workers
publish from one base; runs whose host is killed between two of their files, whose
process group outlives its leader, and rounds that must not close over them;
approvals older than a pause or a successor; dispatches in other processes whose
records are torn; bytes that one process collects while others claim them.
`PROJECT.json` lists each of these at its line with the property that would notice.

## What is modelled

A definition is named for the function it stands for; the map in `PROJECT.json`
gives the lines of each. Operators commented `Mutant:` are plausible wrong versions
of the operator below them. No specification uses them: each is there to show that
a property would notice the mistake.

### `Supervision.tla` — the review ledger

All transitions of the crate. The maps of `Supervision` are functions to a record
or `None`; `Engagement.epoch` is the authority epoch with `MaxEpoch` for
`u64::MAX`, so that `Revoke` meets exhaustion in small instances. A call that
returns an error leaves the ledger alone and is a stuttering step. `NotAbove` is the
walk of `check_binding` in closed form (the child is in every set that holds the
supervisor and is closed under *parent of*), because a walk would need recursion.

### `AgentLifecycle.tla` and `ToolReview.tla` — the control plane

`AgentLifecycle` extends the ledger with run states, the turn, sessions on disk and
the review lines on tapes. `ToolReview` adds supervision and the review of tool
calls, and the specification `Spec`.

* `runs[p]` is `AgentRunState` together with the mounted agent: `status` is made of
  the flags `finishing` and `finished`; `cancelled` is the atomic flag; `signal`
  the value of the watch channel. `Listening` says whether a receiver exists,
  because `watch::Sender::send` leaves the value alone when there is none.
* `turn` is the pool's slot, with the progress of the beat in it.
* `sessions[s]` is what a resume reads: the manifest's card and the last finish mark.
* `evidence` is the set of review lines on tapes. `Record` appends several lines and
  stops at the first error; `RecordClosures` attempts all of them.
* `generation` is the id of the current workspace record of each kind: what the
  facts of a request are compared with.
* `failures` bounds the failing appends; each may lose its line or keep it.
* State that the program has not, for properties only: `executed`, `engaged`,
  `turn.stopped`, `turn.review`, `runs[p].ended`, `sessions[s].retained`.

`OneShot.tla` is what the protocol promises of one request (fresh, waiting,
approved, used, closed). `OneShotProtocol` instantiates it with the stage of every
review: the control plane implements it.

### `Delivery.tla` — mounts, batches and the fence

Extends `ToolReview`: the host, reviews and crashes go on around a batch.
`batch` is the progress of `deliver_batch` and `invoke` for the body at the head of
`route`: looked up, authorized (or denied, or stopped by a waiting review), entered,
answered, past the after chain. `marks` holds the last `delivery_batch` line of each
event on each session, `fence` the `failed_deliveries` of the process. `Granted` is
`check_delivery_current`. `uncertain` (no program state) remembers the batches that
ran a body and did not settle.

### `Tape.tla` — the session tape

The file is a sequence of numbered lines with a possible torn tail, a possibly
missing newline, and a length that is durable; each process has a store with its
cached number and newline. `Fork` gives a child the store of its parent, with its
lock. `TapePowerLoss` keeps any prefix that includes the durable part. Its state
functions are `TapeInit`, `TapeNext` and `TapeSpec`, because the module is extended
beside the ledger; `Nil` is its absent value.

### `WorkspaceLedger.tla` — workspace facts

`log` with its durable length and torn tail, the files the records cite, `env.md`
with what a power loss may restore of it. Every write takes every outcome the code
distinguishes. `Admit` and the write it admits are two actions, as in the code.

### `SpoolRuns.tla` and `RunCustody.tla` — the runs of a native spool

One instance, its round, its kit, its committed state, and everything that happens
to a run from its preview to its custody: `native_spool` and `workspace_job` of the
host crate.

* `runs[n]` is the directory of a run. Each field is a file (or a group of files
  written together), with `None` for its absence and `Torn` for a file that a failed
  write created and left. `reached` is how far the records of a start have come:
  the claims on its artifacts, `start.json`, `job/`, and the fence (`launch.json`)
  that precedes the process.
* `lock` is `host.lock`. An operation that holds it from its checks to its last
  write is one action. Other processes cannot see between its writes, so only two
  things can come of it: all of them (`Completes`), or a failure or a kill that
  leaves a prefix, with the lock given back or left stale (`Breaks`). The operator
  removes a stale lock; nothing of the program does.
* A start holds the lock for as long as its process runs, and workers, `cancel` and
  completions do not take it. It is therefore one action for each write, with
  `StartFails` and `StartDies` between any two. A killed host leaves the process
  group as an `orphan`.
* A plan stands for its own hash: the kit, the revision it reads (or `None`, for a
  file input) and the generation of the round. An operation is admitted when the
  plan it would make now, `PlanNow`, is the approved one.
* `host[n]` is the process that owns the attempt: `claimed` (the worker has
  `owner.json`), `polled` (it has looked at `cancel.json` once), `starting` (under
  the lock), `answering` (it has let go and is about to write its completion).
* `history` is the chain of committed revisions; a position in it is a revision.
* `Settled`, `SettledPrelaunch`, `SettledRun` and `CanSnapshot` are the code's own
  readings of the evidence; every operation on a round or on custody goes through them.
  A reclamation that was cut after its intent makes `Settled` fail, for good:
  `PausedRoundIsFrozen` names it as the only piece of custody that can keep a paused
  round from its resume.

`RunCustody` is what an instance promises, in terms of no file: a name is free, held
by its one attempt, and then void, failed, succeeded or accepted; a round closes
only when nothing is held or unaccepted. `CustodySteps` maps the files to it and
asks that every step, failing and crashing ones included, is one of its steps. It is
`Promise!Spec` written so that TLC looks at stuttering first.

### `NativeEvents.tla` — the event workspace

`log` is `facts/log.jsonl`: published facts, registrations of subscriptions and their
controls, in one order. `routes[n]` is what registers a name, with the name it replaces
and the position of its cutover; `deliveries` holds whether the `intent.json` and the
`ack.json` of a delivery are there, torn or missing. Whoever writes holds `host.lock` of
the workspace and takes every decision again under it, so an operation is one action,
with a variant for a failure or a kill between any two of its writes (`Fails`,
`Appends`). The previews are actions of their own: `offer` and `approved` are what an
operator saw, perhaps long before. The receiver is an instance of `RunCustody`: an
admitted delivery is a run it holds, and what it promises of runs is all the events may
rely on; its round opens and closes (`Transition`, `Unload`) whatever the events do.
`job[d]` is what operators do to a run that ended, in steps any of which may be the last:
the records of an acceptance, a reclamation of the scratch, the closing and deletion of the
output. Nobody keeps a phase: `spool-events-pending` reads the evidence again each time, and
so do `complete`, `publish`, `accept` and every boundary (`Readable` is `run::settled`,
`Verified` is `artifacts::verified`). `Phase` is what is shown, `Proven` what the same
records say while nothing of the run is going. The accepted output of the producer, which
admission verifies too, is taken to stay; a torn record of an acceptance is the instance's,
and a torn one of the job, which also keeps the scratch, is not told from it.

### `Dispatch.tla` — finite dispatches and cohorts

A dispatch is a list of approved deliveries and one worker. `worker[d].at` is where
the worker is, from the ticket of a detached process to its completion; `thread`,
`batch` and `owner` are its three directories, whose files are absent, torn or
written, and never written again. `controls` are the records of the cohort. Three
processes act on one dispatch without a lock in common: its worker, a reconciler, and
who controls the cohort; any of them may be killed at any record. `run` is what
became of each delivery, with who began it: outside of dispatches an `Operator` may
deliver the same entries. `InspectDispatch`, `Settled` and `Completion` are the code's own
readings of the files, and everything that is shown goes through them.

### `WorkProducts.tla` — work products and views

`log[w]` is the log of a worker's sub-workspace; `Reduce` is `wp::log::reduce`, which
turns it into the next view of the whole tree, or the first conflict: after `n` lines a
path holds what the last of them about it left (`Reduced`). `views` are the
published views in memory, `onDisk` those in `views.jsonl`, `mounted` what `tree.jsonl`
says. `writeln!` hands a line to the file in pieces and nothing heals a file afterwards, so
each of the three files has an end (`FileEnd`): *whole*, *bare* (the last line lacks its
newline, and the next runs into it) or *spoiled* (a line no parser accepts; it stays). A
failing append leaves no byte, part of a line, a line without its newline or the whole
line (`Failed`); one that is acknowledged onto a bare end spoils both lines
(`Acknowledged`). `onDisk`, `mounted` and `log` are what a file says while it can be read,
and what it said before once it cannot. `Reopen` is a restart from the files: `Wp::open`
needs the views and the tree legible, and whatever reads the log of a worker needs that one
(`Legible`). Names (one per writer and line), versions, paths
and dependency edges are kept; contents are not. What was built on a version
(`Reached`) is in every set of versions that holds it and is closed under the edges, and a
circle of edges is a set of names each of which depends on another one of them
(`Cyclic`): both say what the code's walks find, without a walk.

### `Seats.tla` — workers, their rights and their tape

`parent` is the seat tree, `seats`, `bound` and `flagged` the three maps of the recorder,
`raised` the flags that are set, `journal` the lifecycle lines of its tape. Spawn and
release hold the lifecycle lock for many steps (`call.at`), each of which may fail;
cancels, leases and propagation hold no lock and go on between them. A cancel asks the tree
only, where a worker hangs before its first line is written, and writes its own line later
(`CancelBegins`, `CancelEnds`): the line may come before the spawn it was meant for, or
after a release and another spawn. The id of a card may be spawned again; `owed` are the
workers whose spawn answered that a retirement is pending. A propagation ends
early at a worker that has no flag or whose cancel is not recorded (`PropagateStops`), with
what it has marked so far. `Restored` is `restore_seats` on the tape as it is: a fold over
its lines (`Replay`) and the filter on whose parents lead to the recorder. Who is over a
worker (`Above`) is what every set of nodes holds that has the worker and is closed under
the parent.

### `AgentBeat.tla` — a body that thinks

What `Delivery` enters as one step is driven here: a body is shown its projection
(`Ask`), answers (`Answer`), concludes, asks for a review, fails, or asks for a model call.
`beat.at` runs from `modelling` over `composed`, `granted` and `calling` to the
publication of the answer. The call has no lock: documents of each kind are rewritten,
the body is unmounted and mounted, reviews are revoked, the process dies. `Valid` is
`assess_dependencies`; `Quarantine` and `Record` are the two branches of
`publish_model_record`, applied to the action before the call and to its outcome.
`shown` and `excused` are no program state.

Abstractions: `epoch` stands for the authority of child and supervisor and their
binding together (binding to another and back is not distinguished from not
moving), the agent always has a supervisor, there is one name for each kind of document,
and a projection is all visible lines (the code keeps the newest few).

### `Instances.tla` — durable instances

`catalog[i]` are the revisions of an instance, staged ones included, `head` its `HEAD`;
`runs` what was read and whether it is sealed; `journal`, `attempts` and `acks` the
intents and acknowledgements on disk. `op` is the operation that holds `host.lock`,
taken apart at its writes (`CommitBegins`, `CommitStages`, `CommitMovesHead`); a cut
leaves `stale`. A delivery writes its intent under the lock, lets go of it and runs
(`DeliverBegins`, `DeliverRuns`): between the two anybody may take it. `Prepare` is
`checkpoint::prepare`, where an event is consumed.

### `ArtifactCustody.tla` — who may still read a version

`ledger[v]` is the SQLite database of a registered version: whether it is closed,
whether its collection is intended, its bytes, its pins and its copies. `files` and
`marks` are the claim files and release markers beside it. Owners are attempts and
checkpoints, in processes of their own; acquiring goes slot by slot (`Pin`,
`WriteClaim`, `Register`), and nothing that is half done is ever resumed. `live` says
whose process is alive; `Crash` ends one.

### Composition for TLC

`MCRecords`, `MCEvents`, `MCRecorder` and `MCInstances` put components that share no
state into one instance: `part` is chosen initially, the actions of a part leave the
others alone, and no behaviour crosses. What one of them says is said of each part by
itself. The MC modules extend their parts, so that what TLC evaluates is the definition
the theorems name.

## The runs

| run | instance | what it shows |
|---|---|---|
| `records` | ledger: three principals with one incarnation each, which may be opened again, two reviews, one mount, two revisions, one epoch to use up. Tape: three processes, four appends | the ledger's invariants under its transitions in any order; numbering, healing, ownership and durability of the tape |
| `tool_review` | child and supervisor, two calls of one tool or two engagements, one review, one epoch, one failing append | approvals, executions and removals have their evidence; tools start only on a consumed, current approval of the same call; the one-shot protocol; finish, its retry, release, crash and resume against beats and reviews |
| `fence` | one agent engaged twice, one event, two names, two mounts, three registrations, one failing append; or a supervised agent, one name mounted twice, one review | the fence, publication, accounting and dropping of bodies; a stopped body is not entered while its review waits |
| `turn_ends` | one agent, one tool call, two names, one failing append | under fairness, every beat gives the turn back |
| `workspace` | one thread, two documents, three records | files, records and projection in order; retries |
| `host_runs` | a routed and a direct run of one instance, two kits, two transitions of the round, one failing write or killed host | a closed round is quiet, stays what its snapshot pins, and of what goes on meanwhile only a reclamation cut short keeps it from a resume; evidence of an end means the end; commits do not overwrite each other; what is launched is still what was approved; the promise of `RunCustody` |
| `events` | log: one fact, two subscriptions, one slot, two controls each, two transitions of the receiver, five records, one failure. Dispatches: one dispatch of up to two entries, three controls, one failure | one attempt for one event and subscription, from a fresh approval; a successor replays nothing; consumption is caused; entries in order; cohorts drain and close quietly; outcomes are final; a phase goes back only with its own job's collection, and what is proven never |
| `recorder` | seats: a recorder and two workers that may be spawned again, one right, six lines of the tape, two failures. Products: two writers, two paths, two lines, three views, one failing append. Boundary: two beats of two steps, two texts of each document, three events of the surroundings | the tape holds the seats, workspaces have owners, rights end above; no view and no mount is lost while the files can be read, closes are their own, cascades complete; no step is informed by an answer whose inputs changed, invokes are closed, requests are asked under the authority they came from |
| `instances` | store: two instances, three runs, or two and a fault; custody: two attempts with a state and one without, one artifact, three checkpoints, one copy, one dead process | consumption is traced and happens once; `HEAD` follows; needed products, admitted readers and sources of a state keep their bytes; closing is final |
| `stale_cancel`, `torn_registration`, `prelaunch_cancel` | the smallest that show it | see [below](#disagreements-with-the-documentation) |

Some invariants are conjunctions of named parts, for the parts are one question:
`LedgerSafe`, `LifecycleSafe`, `EvidenceSafe`, `DeliverySafe`, `TapeSafe`, `FilesSafe`,
`RunsSafe`, `EventsSafe`, `DispatchSafe`, `SeatsSafe`, `BoundarySafe`,
`StoreSafe` and `CustodySafe`; most include the type invariant. Each part has a comment
of its own where it is defined.

Why the bounds are enough for the questions asked:

* *Two agents* are all a review has (a child, a supervisor); the third principal of
  `records` is what a chain and a cycle through an intermediate one need.
* *Two incarnations* let an engagement end and its principal return: what is left of
  the first meets the second. *Two sessions* let the return be a resume or a new one.
* *One failing append* may be any append of any call, lost or kept. Two failures in
  one history differ from one only where a retry fails again, and a retry starts
  from a state the first failure already produced. Seats have two, because a spawn that
  fails unwinds by appends that may fail too. In the workspace one failing append is any
  of three files, and every append behind it meets the end it left.
* *Two calls of one tool* tell an approval of a call from one of its tool.
* *Three registrations* (none, one, another) with different routes are a grant and
  its end. *Two mounts* of one name are a body and its replacement.
* *Four appends* reach torn, healed, missing-newline and fused tails twice over.
* *Two runs*, one with and one without a supervisor, are one that a round closes over
  and one that is in its way, or two that read the same state. *Two kits* make an
  approval stale; *two transitions* are a pause and a resume, or a pause and a
  suspension.
* *Two subscriptions* are a predecessor and its successor; the result of a delivery is a
  fact again, so that *one fact* gives events before and after a cutover.
* *Two entries* are one that is confirmed and one behind it; *three controls* close,
  reopen and cancel a cohort.
* *Two workers* are two under the recorder or a chain of two, where rights and
  cancels have to pass through; *six lines* are a worker that is spawned, released and
  spawned again, or spawned beside another with a cancel of each in any place. *Two writers, two paths, three views* are two that
  continue one base, a rename, and a rollback of the result.
* *Two steps* of a beat are a call and a step that could be informed by its answer;
  *two beats* let a later projection bring a withdrawn answer back.
* *Two instances* are a publisher and a recipient, each the other's; the *third run* commits
  what the first two raced for. *Two attempts with a state* commit one after the
  other, on *three checkpoints*, one of which may be an orphan of a commit that was cut and
  is made again; the attempt *without* a state takes inputs only.

Constraints leave out states that do not matter to the question. The theorems hold
without them.

* `ReviewsOrLives`: either each agent is engaged once (and manifests, and beats without
  a call, which only a resume and `run` read, are left out), or agents are engaged twice
  while nobody revokes, the workspace stays and one call is enough. States beyond both
  are checked and not followed.
* `FencingOrReviewing` divides `fence` in the same way: one unsupervised agent that
  lives twice, or a supervised one that lives once and delivers to one name without
  failures.
* `OneAtATime` keeps `host_runs` small: after a failure it drops the states in which
  the kit has also changed since a plan or a prepared head was made, and
  suspensions. Both are refused by the comparison that the failure-free half of
  the run covers, and a suspension is a pause that no pause follows.
* `MCEvents!Bounded`: records, failures and parts of jobs collected, five together; beside a dispatch of its own the
  controls of a cohort, which it does not read, stay.
* `MCRecorder!Bounded`: a tape is followed two lines less for each failure, one less for a
  cancel under way and one with a lease or a walk from the recorder; one cancel or one lease
  at a time; after a failing append of the workspace the two logs have two lines together;
  three events around a body.
* `MCInstances!Bounded`: three runs without a cut or two with one; manifests that keep
  their product are committed and not followed, since they pin it for good; of attempts,
  copies and dead processes two at a time, or all three attempts while the state is the
  first one.

Epochs, revisions, ids and records are counted to a bound in the guards; the program
draws uuids and 64-bit counters. Symmetry is used over ids the actions compare for
equality only; runs with a liveness property use none. Runs with
`CHECK_DEADLOCK FALSE` end because their names, lines or failures are used up.

## Fairness

Only `turn_ends` needs it. `FairDelivery` asks weak fairness of `Beat`: the thread that
holds the turn runs on. The threads of the host that mount, cancel, answer or write owe
nothing to anybody, so their actions have no fairness. That a tool, a body, a hook or a
model answers is an assumption about the host (the code waits for them without a
timeout); that `review_tool` and the settlement give the turn back in every case is what
the run shows. A bounded instance may run out of review ids; the property excepts a beat
that is stuck for one.

## The proofs

Every theorem holds for every value of the constants: any number of principals,
threads, names, documents, sessions, runs, facts and failures. What is assumed of
constants stands as a named `ASSUME` in the module that declares them and is
evaluated by TLC in every run: `None`, `Nil` and `Torn` are no values of the sets
they stand beside, bounds are natural numbers, functions have their types; a route
names registered bodies (`RouteAssumption`), names of routed runs are names of runs
and these are finitely many (`RunAssumption`); who delivers beside all dispatches is
none of them (`OperatorAssumption`); attempts, checkpoints and versions are of
different kinds (`OwnersAssumption`); there are finitely many paths
(`ProductsAssumption`) and finitely many workers, of which the recorder is none
(`SeatsAssumption`); a store has room for a revision (`InstancesAssumption`).

Each invariant is one of the runs', strengthened until it is inductive; the
strengthening was checked with TLC before it was proved. A proof has one lemma per
action and one step per part of the invariant the action can disturb.

**`ToolReviewProofs.tla`, the ledger.** `LedgerInv` is inductive: typing, `EdgesLive`,
`Acyclic`, `PendingCurrent`, `WaitingUnique`, `ApprovedIsHighRiskCall`. No part is
inductive alone: that a revocation leaves nothing stale needs the scope of every
review to be current before; that a rebinding does needs `check_binding` to refuse
children with reviews; uniqueness needs both. Acyclicity is stated over sets closed
under *parent of*, which makes the step of `Bind` a matter of set inclusion
instead of induction over paths.

**`ToolReviewProofs.tla`, the control plane.** `ControlInv` strengthens `LedgerInv` with what relates
the ledger to the run states: engagements belong to live agents, a pending call is
about a tool the child's card asks for, an approval was given by the card that the
approver still has, a review with evidence is one that was seen, a used one does
not wait. Each action is shown to be a step of the ledger or a restart (`ControlStep`), from
which the ledger's part follows by its own theorem; the rest is one lemma per
action. `OneShotImplemented` is the refinement: the initial states correspond, and
each step is one of `OneShot` or stutters.
`FinishIsFinal` adds to it whose session is whose and that the closures a finish has
yet to record (`runs[p].closing`) name every review its intent ended
(`EndedAreClosing`): a retry after a failed append can only shorten that list by a
line that is now on the tape. `EvidenceIsComplete` needs that every review that
waits has its three request lines (`RequestsEvidenced`), since resolving it writes
only the answer. `FinishConcludes` and `RemovalsLeaveLines` are step properties
under the same invariants.

**`DeliveryProofs.tla`.** Everything the control plane keeps is kept by a delivery,
whose steps change the ledger only by inserting a review or unmounting a body
(`Effects`). `UncertainStaysFenced` is strengthened by `FenceHolds`: an event that is
uncertain has a mark on the tape, and whoever is engaged on that tape is kept from it
by the fence of the process, by a line that is unsettled, or because the line is of
another engagement. The last case needs that an engagement is drawn once
(`EngagedInv`), or a resumed agent could match the line of an earlier one. That the
batch in flight stays out of `uncertain` needs its line on the tape from the first
step (`BatchIsMarked`). `StoppedRest` needs `NoneWaits` — from the grant to the entry of a
body no review of it waits *in any scope*, because the scope is recomputed from the
supervisor of the moment; `PendingCurrent` makes the two scopes one.

**`TapeProofs.tla`.** `TapeInv` adds that the file ends in one way (`OneTail`) and that
a cached number is the next one, made by whoever wrote the line before and therefore
not running into a torn tail (`CacheFits`). `TornBytesKept` is the step property that
quarantine precedes truncation.

**`WorkspaceLedgerProofs.tla`.** `FilesSafe` with four facts about order on disk: a
synced environment is whole, only synced ones are cited by a line, what `env.md` may
fall back to is as durable as what it shows, registrations carry no name.

**`SpoolRunsProofs.tla`.** `RunsInv` says of each run in which order its files came to
be (`ReservedInOrder`, `AttemptedInOrder`), that a process exists only behind its launch
(`GroupIsOfLaunch`), that a start in progress still is what was approved
(`StartIsApproved`) and is the only one (`OneStart`), and that when no round is
active every run is over and, its reclamation apart, still passes the boundary it passed
(`Pinned`, `Reopens`). `RoundStaysFrozen`, `LaunchesAreCurrent` and the refinement
`FilesKeepCustody` — the files of any schedule of writes, crashes and
reconciliations implement `RunCustody` — follow step by step.

**`EventsProofs.tla`, the log.** Admission cuts the log into windows: a name admits only
what lies before its successor's cutover and behind its own, and a delivery's result is
logged behind its cause. `EventsInv` states this with positions of the log, which never
move; `NoReplay` follows for lineages of any length, because the induction along a
lineage is replaced by the order of cutovers. `PhasesAdvance` needs that a job is touched
only after its run ended and that its output goes only behind an acceptance (`JobsFit`):
where what is shown differs from what is proven, nothing can advance.

**`EventsProofs.tla`, dispatches.** What a worker has in hand and what the files say differ by one
entry at most, and `DispatchInv` says in which way. Every run of a dispatch is of an entry
that is recorded or of the next one; if it is of the next one, the worker is still at it,
or its record was lost and the worker will never select, record or summarise again
(`NextFits`). A recorded entry is how its run ended, and all but the last one succeeded
(`RecordsTrue`). From these come `EntriesAreOrdered` and the proof of shown outcomes;
`OutcomesAreFinal` adds that a summary is made once and that a detached supervisor speaks
after its last record, so no entry joins what was shown. A thread that is late has crossed
before its worker looked again (`Drains`), and closing asks for exactly the evidence from
which `ClosingIsQuiet` derives that workers are gone and runs ended.

**`RecorderProofs.tla`, bodies.** `InformedByTheCurrent` looks at the state when a line was
written and is not inductive. The strengthening is that no id of a generation comes back (`IdsDrawn`),
that what a beat read is not newer than what is current and older where something was
rewritten (`BeatFits`), so whatever is judged valid has not lapsed; and that what is
shown was judged (`AnswersJudged`, `ShownVisible`).

**`RecorderProofs.tla`, work products.** `ProductsInv` says that every view has finitely
many edges (`ViewsFit`), that what is in memory lies in order in `views.jsonl` unless that is
spoiled (`Durable`), and that who may write is mounted on disk unless `tree.jsonl` is
(`WritersFit`). `CloseIsOwn` looks
at the *first* line about a path that differs from what the path held: until then the path
still has its published file, so the line is either a tombstone or met that file, and
`FirstClash` has compared the two. `CascadeIsComplete` rests on three facts: taking a
dependent back removes its version and touches no other name; no two dependents share a
name (`MetOnce`), so what one step removed no later step brings back (`AllBackIs`); and
every version that was reached is among the dependents (`ReachedDepends`). The attempt to
prove it for *every* version of the name in the current view failed for a good reason,
which TLC then showed with three writers: one name may be at two paths (see *Remarks*),
and the code follows what was built on the first of them that it finds. The property says
that, and the model chooses among them.

**`RecorderProofs.tla`, seats.** `SeatsSafe` compares the live tree with the replay of a
tape of any length. `SeatsInv` relates the two at every step, also in the middle of a call
(`TapeFits`), where the worker whose spawn the tape does not have yet is left out of the
live tree (`Hung`): whatever cancel comes before that line has nothing to take away. Of
whoever is in that tree the rebuilt one has the same parent or none, and has none only under
a cancel that no spawn of the worker followed or in a retirement that is open; it connects
nobody who retires to the recorder, and of those who left the live tree only workers that
were spawned adrift or whose caller was told to release them again (`Hangs`). That a worker
may be spawned again makes the adrift an exception of their own: whoever was not set adrift
has a way to the recorder over workers of the live tree, so a new spawn of an id connects
nobody else. One more line changes the replay by one `Replay`, so no induction over the tape is left; that the replay is a function at all, and
of trees, is shown with the least position that would be an exception. In the live tree
everybody leads to the recorder, and over a worker that does not retire nobody does
(`Leads`): a release names its whole subtree. Chains need no induction either: `Above` is
the least closed set, so that a fact about a chain is a closed set that has its lower end,
as the bounds that hold a given charter (`RightsEndAbove`, from *each fits the one over it*
in `RightsFit`) or the nodes that lead to the recorder (`AllRooted`). The rest of the
invariant says how far a spawn and a release are (`SpawnFits`, `ReleaseFits`): a worker
that is being spawned has nobody under it, and before the line that ends a release is
written, its workers are out of the tree and without workspaces. `LeasesFit` needs that a
flag leaves the map only when it is raised.

**`InstancesProofs.tla`, versions.** `CustodyFits` says how far each owner can be: which
slots it holds while it acquires and that it holds all of them afterwards (`OwnerFits`); a
reservation that is not yet durable has a live process and an open state (`Reserved`);
a deletion is submitted only when every reader is done (`KeptOrDone`); a checkpoint lets
go of its own inputs when nobody reads it or is still going to (`Over`); it was made by
one settled attempt, which made no other in the history because what it followed is not
`HEAD` any more, however many orphans it left (`MakersFit`), and one that needs data has
handed it over before it releases it (`HandedOver`). `CustodySafe` and `ClosingIsFinal` follow from these together
and from none of them alone: that a source of a state is there needs the chain from the
checkpoint over its maker to the input.

**`InstancesProofs.tla`, instances.** `StoreInv` says that each revision, a staged one
included, binds the input of its run to its parent (`CatalogFits`), that a history is one
line in which no two revisions have one parent (`OneLine`), that an event was attempted
once for a recipient and was run at most once (`AttemptsFit`), that what a commit or a
reclamation has found stays so while it holds the lock (`CommitFits`, `ReclaimFits`), and
that a product that is gone is not needed (`ProductsFit`). A history is a recursive
function over parents. Induction over it is replaced by the least revision that would be
an exception: its parent is smaller, so it is none, and one unfolding of the function
gives the contradiction. `HeadsFollow` is a step property under the same invariant.

Every theorem above that names a property of a run states that very property. Liveness and
`ENABLED` are beyond this prover, so `SlotIsFreed` is model-checked only. `ConsumedCancelIsGone`,
`RegisteredBytesStay` and `PrelaunchCancelCloses` are false, as the next section says.

## Disagreements with the documentation

Each is a run that TLC ends with a counterexample.

1. **`stale_cancel`** — `send_replace(true)` raises the signal always, `send(false)`
   lowers it only while somebody listens (`core/control.rs:424`, `:444`). Cancel an
   idle agent, consume the cancellation, run: the run is told it was cancelled.
   `control.rs:166` says the next beat consumes the cancellation.
2. **`torn_registration`** — `put_register` and `put_config` write a file in place if
   it does not exist, unsynced and never again (`core/workspace.rs:134`, `:192`). A
   write that failed halfway and is retried, or a power loss, leaves a record that
   cites torn or missing bytes. `control/workspace.rs:224-225` says that older
   bytes stay readable. Environments are written aside, synced and linked, and are
   not affected (`EnvBytesStay`).
3. **`prelaunch_cancel`** — the last look at the cancellation comes after `start.json`
   and before the job (`host/native_spool/run.rs:285`, `host/workspace_job/mod.rs:211`).
   A run cancelled there is answered as never started and confirmed ended, but
   `settled_runs` finds a start without a job (`run.rs:366`), or a reservation whose
   completion is not the prelaunch one, and refuses every later pause, suspension
   and unloading; `reconcile_run` has no receipt to repair from. `doc/status.md:21`
   says that a confirmed prelaunch cancellation can close a round.

Three more were met while modelling and have no run of their own.

* `begin_beat` consumes the cancel flag and lowers the signal before it asks the pool
  for the slot (`core/control.rs:404`, `:424`): with a run in flight, cancel and then
  any attempted beat leave the run's signal false. `control.rs:284-285` says that an
  in-flight run sees the flag.
* `wp.rs:471-472` keeps the identity of a sub-workspace until its log entry succeeds, for
  *a retry must not mistake lost bookkeeping for success*. A failing append may leave a line
  without its newline; the retry then runs into it, is acknowledged and lets the identity
  go, and `tree.jsonl` cannot be parsed any more. The same befalls a view
  (`wp.rs:478-485`): it is reported published, and no `Wp::open` reads it back.
  `NoViewLostInSilence` and `NoMountForgotten` say what is left: such a file is refused, as
  a whole, and nothing is lost while it can be read.
* The admission of a name and its write are two calls under no common lock
  (`core/control/workspace.rs:250`, `:258`, `:282`): a registration in between does
  not stop the write. `control.rs:8-9` says that writes outside the list are refused.

### Remarks

The rest was met while modelling. None of it contradicts a property that is checked;
most of it is behaviour the code chooses and a maintainer may want to know of.

*Native spools.*
* A reclamation that fails or is killed after `reclaim-intent.json` is never finished
  (`host/workspace_job/custody.rs:150`), and `record` answers no more for that attempt
  (`workspace_job/mod.rs:107`): `settled` fails, and with it every later pause, suspension
  and resume of the round. Cut while the round is paused, it leaves it unresumable. The
  deletion of an accepted output that stays unconfirmed does the same, through
  `artifacts::verified`; `SpoolRuns` has no deletions of outputs.

*Native events.*
* A phase that was shown goes back to `running-or-unconfirmed` while the scratch of its run
  is reclaimed, and for good if that is cut (`workspace_job/mod.rs:107` through
  `run.rs:324`), also when the delivery was consumed; an unconfirmed deletion of its output
  shows `needs-reconciliation`. `PhasesOnlyAdvance` says that nothing else does this, and
  that nothing is confirmed meanwhile.
* After a revocation `complete` refuses a delivery whose result is not in the log, but
  one whose result was published by itself is still acknowledged
  (`settlement.rs:110-118`). Reconstructing an acknowledgement grants no execution, as
  the comment there says, and `doc/native-events.md:91` fences *automatic* confirmation
  only.
* `reconcile_dispatch` may write `result.json` while a live worker is still under way:
  the worker's own write then fails and the dispatch stays uncertain.
* A cancellation that comes before anything is reserved (`run.rs:275`) leaves a delivery
  that `verify_prelaunch_start` never accepts, so its entry stays uncertain.

*Work products.*
* Two sub-workspaces that continue one base publish the same version number; the later one
  silently replaces the earlier in the current view (`wp.rs:61`).
* A rollback that meets a dependent by two ways (a diamond) answers that there is a cycle.
* `resolve` with `allow` keeps the chosen write and drops the other writes of the log;
  edges of a view are dropped by the next view.
* A restart between the line of a view and the line of its unmount lets the same log be
  published again.
* A rename in one sub-workspace and a continuation in another put one name at two paths,
  and so does a conflict resolved with `allow`, which moves the name while a third worker's
  log keeps it where it was. A cascade then takes back what was built on the first of the
  two by path (`find` in `wp::rollback`), and leaves what was built on the other.

*Seats.*
* The cancel of a nested worker is not on the recorder's tape, so `restore_seats` brings
  it back, although `recorder/mod.rs:4-5` calls the flags rebuildable.
  `TapeHoldsTheSeats` excepts exactly those.
* A cancel that reaches the tree between the mounting of a worker (`spawn.rs:155`) and its
  spawn line (`:174`), or that read the tree before the worker was released and spawned
  again, is written before or after a spawn it was not meant for: `restore_seats` forgets the
  one and applies the other. A cancel counts, for `TapeHoldsTheSeats`, if no spawn of its
  worker comes behind it.
* A worker may be spawned under one who was cancelled on the tape. Its line hangs on nobody
  then, so a later release above it does not reach it in the replay; if the id it hangs
  under is released and spawned again, the rebuilt tree connects it. `Adrift` names such
  workers; a return takes a third one.
* `spawn` answers that a retirement is pending after the seat of the worker was dropped
  (`spawn.rs:160-210`): a release of its id then answers that it is not mounted, unless the
  tape still has the retirement open, and the sub-workspace stays until the id is spawned
  again (`owed`).
* A spawn line left by a failing sync hides the pending retirement from a retry
  (`mod.rs:66`).

*Agent bodies.*
* A call that succeeded and whose answer cannot be stored leaves an invoke without an
  observation, although `agent_beat.rs:17-20` says there is none; `InvokesAreClosed`
  excepts failing stores.
* The last check of a delivery looks at the registration and the mount; that of a
  model call also at authority, configuration and environment.

*Instances.*
* `deliver` writes its intent, lets go of `host.lock` and takes it again to run: a busy
  lock or a crash in between wedges the event for good (it is never retried, by design).
* A crash after the rename of `HEAD` makes the repeated commit answer *conflict* for a
  plan that was published.
* A half-made instance blocks all reclamation of products. If a recipient's `HEAD` moves
  before its delivery run is committed, the event can never be consumed.

*Artifact versions.*
* Closing a version before the checkpoint that depends on it was declared, an
  acquisition or a claim cut in the middle: each blocks the collection of that version
  for good.
* A checkpoint whose policy calls its data *not required* can never be covered. A state
  commit cut between publication and `HEAD` leaves an orphan, and its intent refuses the
  same approval for good; the approval binds the generation of the round
  (`round_control::bind`), so that the attempt can commit again after a pause and a resume.
  The model does not see the round and lets it commit again at any time.

## What is not modelled

* `send` and `note` (lines without consequences in the control plane; `note` with
  the tags `finish` and `finish_pending` would be read by a resume), `applied` and the
  intents of a reply.
* What is in a document, a card, a call or a line: cards, documents, calls and facts
  are model values; a digest is what it is a digest of.
* Of the semantic decisions: claims other than the two of a model call, and `contract.rs`,
  whose answer is recorded and decides nothing.
* Of the recorder: mail, links, reports, `recover.rs` and `subwp.rs`.
* Of native spools: installation, deployment, snapshots of storage, the retirement of an
  instance, proposals of a kit, what a plan contains besides its kit, input and round.
  Of a job: its profile, its inventory, and how a process is confined. `RunCustody` says
  nothing of cancellation: it may only void or end.
* Of artifact versions: the markers of the earlier admission profile, read-only
  observation and review, runs of a state without data, a torn supervisor request. Of
  instances: the reclamation of work copies in `host/retention.rs`.
* Peers, file jobs, continuations of standalone jobs and `openshell`: protocols of their
  own, next in the plan.
* The crates and host parts marked `not_modelled` in `PROJECT.json`. Sandboxing,
  process groups and filesystem enforcement are system calls and out of the reach
  of a model checker; parsing and validation of documents are data.

## The plan

1. Done: `Supervision`, `AgentLifecycle`, `ToolReview`, `OneShot`, `Delivery`,
   `AgentBeat`, `Tape`, `WorkspaceLedger`, `SpoolRuns`, `RunCustody`, `NativeEvents`,
   `Dispatch`, `WorkProducts`, `Seats`, `Instances`, `ArtifactCustody`.
2. Done: proofs of the ledger, the control plane with its refinement, deliveries, bodies at the
   model boundary, the tape, the workspace, runs with their refinement, events, dispatches,
   work products, seats, versions and instances.
3. **Peers and standalone attempts** — the two phases of a peer exchange over two
   instances of `RunCustody`; `Attempt.tla` and `OpenShell.tla`: an operation settles at
   most once, a missing receipt never permits a second.
4. **Pure parts** — `Semantic.tla`, `Charter.tla`, `SpoolScope.tla`: decisions, coverage
   and unmount plans against reference definitions over bounded inputs.


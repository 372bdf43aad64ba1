# Verification of agent-phonon

agent-phonon runs coding agents on a device and lets a server drive them over a WebSocket.
This directory holds TLA+ specifications of its core, the TLC instances that check them and the
proofs TLAPS checks. Every definition is translated from the source; `PROJECT.json` maps it to the
lines it stands for.

Run `tlc -config X.cfg M` for a run of the table in section 3 (`PROJECT.json` names its module and configuration) and `tlapm X_proofs.tla` for the proofs.

## 1. The system and its parts

A *daemon* process holds one *client* per configured server. The client dials, authenticates and
attaches a tenant's *connection runtime* to the socket; the runtime owns the engines and survives the
loss of the socket (it is disposed only at shutdown or when the tenant changes). The server calls
methods (`session.send`, `workflow.run`, ...) and receives numbered events. Everything that must
survive a crash is in one SQLite file, the *store*; adapters run the agents' own programs, which keep
conversations of their own.

| Part | State | Operations | What is hard about it | Module |
|---|---|---|---|---|
| Outbox (`outbox.ts`, `delivery-capacity.ts`) | per session: next number, unacknowledged events in memory and in SQLite, watermark | enqueue, ack, replay, restore | a transaction that commits and then throws; a crash between stamping and writing; acknowledgements from a server with other ideas | `Outbox` |
| Device connection (`client.ts`) | socket, connection generation, the tenant's runtime | dial, welcome, attach, redial, change tenant, close | events emitted between attachment and publication; a superseded dial that completes | `StreamLink`, `Connection` |
| Dispatch (`index.ts`, `rpc.ts`, `idempotency.ts`) | table of requests already answered, requests under way | execute, join, replay, collect | a retried request that races its first execution or comes over another socket | `Requests` |
| Server SDKs (`sdk-server-ts`, `sdk-python`) | registry of devices, sessions of a socket, last number seen, handlers that run | receive, acknowledge, replay, hold, close | handlers run concurrently (or one at a time and block each other), old sockets end late | `ReliableConsumer`, `SessionConsumer`, `ServerSdk`, `PythonServer` |
| Session engine (`session-engine.ts`) | per session: status, current turn, queue, control operation, checkpoint, ownership of the native session, stops, compressions | send, interrupt, inject, switch model, compress, reattach, recover, stop, terminate, dispose | everything awaits: a turn's end, an interrupt, a control, a disposal, a compression and a successor engine overlap | `SessionTurns`, `NativeStop`, `Compression` |
| Workflow engine (`workflow-engine.ts`) | run objects, executors, leases; rows with a checkpoint; sessions, worktrees and branches of the nodes; an event log | run, recover, resume, pause, cancel, time out, dispose, input, artifacts, replay | several engines and one row; objects written after they were superseded; events of a session that belong to another turn | `WorkflowEngine`, `NodeTurns`, `WorkflowInputs`, `WorkflowReplay` |
| Scheduler (`scheduler-engine.ts`, `cron.ts`) | schedules, runs with a lease, timers, pending retries | create, change, tick, run, resolve, finish, retry, reconcile, hand over | missed ticks, overlap policies, two engines with a clock each, a run whose end is reported late | `Scheduler` |
| Projects, provisioning, admission | projects, worktrees, ledgers of unfinished file-system work, the owner's consent | provision, create, remove, admit, revoke | a crash between the ledger, the directory and the row; a consent taken back while an operation waits | `Projects`, `Provision`, `Admission` |
| Maintenance, managed MCP, employee profiles | files that the owner edits too; backups, snapshots, a record per profile | edit, roll back, configure, apply, recover | the owner's edits between a look and a write; a process cut after some of the files | `Maintenance`, `ManagedMcp`, `EmployeeProfile` |
| Skills | installed archives, operations with receipts, locks on targets | install, publish, uninstall, fence, load | a retry of an install that did happen, a write that outlives its runtime, a turn that reads meanwhile | `Skills` |
| Interactions, hooks | open questions of agents, receipts of their answers | request, respond, expire | an answer that races the end of its turn or the reconnection | `Interactions` |
| Peer context, current-turn input | mail and input for a turn that runs, a journal of what was claimed, shown and reported | claim, authorise, show, report | shown once although requests are retried; evidence that is another turn's | `PeerMail`, `TurnInput`, `PeerHooks`, `PeerRequests` |
| Conversation archive | a history per conversation, files in chunks | append, upload, page | a server that was restored and went another way | `Archive` |
| Adapters | a native process or a gateway connection per session, the conversation it continues | create, attach, send, interrupt, inject, recover | native work that outlives its turn; programs that open another conversation than asked | `PiSession`, `CliTurn`, `CodexTurn`, `HermesTurn`, `GatewayTurn`, `GatewayClient` |
| Process supervision | the process group of one command | terminate, force, dispose | a leader that dies before its descendants | `ProcessTree` |
| Files and brokers, discovery, native schedules, observability, rescue knowledge, console | nothing that lasts, or a mirror of another program's state | probes, system calls, parsing | the operating system | none |

`PROJECT.json` lists every part with its sources and says what is modelled of it. What makes the
parts correct is stated, part by part, by the properties of section 3.

## 2. Modules

JavaScript runs a callback to completion: an action is the code between two awaits. A crash keeps what
the store, the ledgers and the files hold. External programs (agents, gateways, git, the owner of a
file, the application behind an SDK) answer nondeterministically, within the contract the code relies
on. An operator whose comment begins with "Mutant of" is not part of a model: it is the definition that
follows it with a plausible bug, and records that the property named in `PROJECT.json` notices it.

| Module | Models | Composes |
|---|---|---|
| `Outbox` | `outbox.ts` over its tables in `store.ts` | |
| `StreamLink` | the device's half of the event path: dial, welcome, attach, replay, drop | extends `Outbox` |
| `ReliableStream` | what delivery promises: ordered consumption, each event once | abstract |
| `ReliableConsumer` | a server with a reliable stream handler | extends `StreamLink`, implements `ReliableStream` |
| `SessionConsumer` | a server with plain session listeners and automatic acknowledgement | extends `StreamLink` |
| `SessionTurns` | one session of the session engine | |
| `NativeStop` | the proof that a native turn has stopped, over two engines | |
| `Compression` | compression of a session's history and its receipts | |
| `WorkflowEngine` | one workflow, its row and the engines that may execute it | |
| `NodeTurns` | a workflow node's session, turn, worktree and branch | |
| `WorkflowInputs`, `WorkflowReplay` | inputs inserted into a running node; the event log sent again page by page | |
| `Scheduler` | one schedule, its runs, and the engines that fire and execute them | |
| `Connection` | the attempts of a client and the tenant's runtime across sockets | |
| `Requests` | a request, its retries, the duplicate-request tables | |
| `Interactions` | questions of an agent, their receipts and answers | |
| `ServerSdk`, `PythonServer` | the SDKs around the consumers of events: registry, handlers, held requests | |
| `Archive` | a conversation's history and files on the device | |
| `Projects`, `Provision`, `Admission` | shared directories; the ledgered creation of one; the owner's consent | |
| `Maintenance`, `ManagedMcp`, `EmployeeProfile` | files that the device and their owner both write | |
| `Skills` | one skill's directories, operations, locks and readers | |
| `PeerMail`, `TurnInput` | mail and input for a turn that runs: journal, claims, boundaries, reports | |
| `PeerHooks`, `PeerRequests` | the native ends of the mail: hooks beside the program, parts inside its requests | |
| `PiSession`, `CliTurn`, `CodexTurn`, `HermesTurn`, `GatewayTurn` | sessions of the adapters | |
| `GatewayClient` | the connection to a native gateway, with pairing and policies | |
| `ProcessTree` | a supervised command and its descendants | |
| `MCWorkflow`, `MCScheduler` | plans and schedules for TLC | |
| `MCDevice` | 35 instances of the modules from `SessionConsumer` on that have no run of their own | |
| `Outbox_proofs`, `ReliableConsumer_proofs`, `SessionTurns_proofs`, `WorkflowEngine_proofs`, `SchedulerRuns_proofs`, `Scheduler_proofs` | the theorems | |

The header of each module says what its variables stand for and what is external. The modules with
proofs, and the ideas that the others share, follow.

### Outbox

One operation is one action: `Enqueue` stamps, writes
and buffers; the write may fail (`EnqueueFails`: the number is lost and the loss reported) or commit and
then throw while the capacity is measured. `Ack` clamps to the stream as the code does, prunes memory and
rows and persists the watermark, where again the transaction can fail or half-report. `Restart` loses
`seq`, `buffer` and `acked` and rebuilds them from the tables. Events are their numbers; the only
content kept is the upstream identity of a proactive observation, since its de-duplication is a
property (`ObservedOnce`).

### StreamLink, ReliableConsumer, SessionConsumer, ReliableStream

A socket is a FIFO in both directions whose content dies with it. Between the welcome and the
publication of a connection the runtime is already attached, so live events overtake the replay: the
model has the state `attached` for exactly this window. The reliable consumer commits a contiguous
prefix, rejects what lies beyond a gap and asks for a replay; what its handler does is the
application's, taken from the contract documented at `setStreamEventHandler`. Handlers run
concurrently and outlive their socket; the server may die. `ImplementsReliableStream` maps
`produced` to the committed events of `log` and `consumed` to the cursor.

`SessionConsumer` is the SDK without a handler: a frame for a session that is not registered on this
socket is dropped, and the automatic acknowledgement names the highest number seen.

### SessionTurns, NativeStop, Compression

`phase[t]` is where turn `t` is
in `runTurn` (preparing, executing, closing, over, ...), `op` the operation that holds the session's
control flag, `compression` the durable receipt of a compression. Adapters are the environment: a send
returns when the adapter likes, an interrupt may be ignored, native work may outlive its engine
(`orphan`). `Terminate` fences the session in memory and awaits the interaction
bridge; `terminating` is that await, and `TerminatePersists` writes the row after it, so that an interrupt, a settlement, a
disposal or a crash falls in between. `Interrupt` has the code's guard and no other: a terminated session, or one whose
engine is being disposed, takes it and holds its control. `Dispose`, `Crash` and `Reopen` end the engine and start a successor over the same row.
History variables (`finals`, `overtaken`, `ignored`, `outlived`) only serve properties.

`NativeStop` has two engines over one session and the truth about what runs (`native`), which adapters
see late or not at all; `Compression` has the files of the native program and what the receipts claim of
them. Both repeat the parts of `send`, `runTurn` and `dispose` they interact with and leave out the queue.

### WorkflowEngine, NodeTurns, WorkflowInputs, WorkflowReplay

`row` is the checkpoint row, `exec[x]` a run object with the executor that works on it, `runs[e]` the
object engine `e` has in its table, `up[e]` its life. A run object holds its own copy of status, nodes
and cursor, and the owner and epoch under which it is written; `Written` is `upsertWorkflow`'s whole-row
update, `Owns` its WHERE clause, `Current` what `assertCurrent` demands. The control epoch matters
only as "unchanged since this executor started", which is the field `open`. `task[n]` is the await a
node is in (session creation, send, turn). `Advances`, `NodeEnds`, `BatchEnds`, `ReviewEnds` and
`CloseEnds` are the continuations; they run the mode's loop up to the next await (`DagRound`,
`GraphRound`, `DiscussionRound`).

Owner ids are never reused: what a dead engine leaves in the row is `Gone`. A lease may run out at any
time (`Lapse`), whether its owner is alive or not. Abstractions: the answer of a graph's executor is one of
`Decisions`, a broadcast is a sequence of directives; the verdict of a discussion is chosen when a speaker ends;
the synchronous code between two awaits is one step even where it makes two commits; rows are read and claimed
in one step, although another process could come between the two statements.

Nothing restricts the server: a resume may come while a session creation of the paused execution is pending, and any
engine that still has an object may register an artifact. Either writes the old object's copy over what was stored since:
the late write passes the store's WHERE clause because a resume in the same engine keeps the epoch, and
`artifactRegister` claims a released row for whatever object it has. The history variable `overwritten` records that
this happened (`Old`, `Untouched`, `Checkpoint`); the row is then nobody's state, and the properties of the
component speak of the time before. What happens then is shown by `workflow_twice` and `workflow_undone`.
`NodeTurns` has what `WorkflowEngine` abstracts: which session, which turn's events, which worktree and branch. It has one
run object, so there a resume waits until nothing of the last execution is under way; observed status, system prompts and
parallel nodes are left out of it.

### Scheduler

The state is the schedule's row with its cursor, one row per run (status, lease, epoch, attempt), and
per engine its life, its timer and the runtimes it has in memory; `Workflow` and the sessions are what
runs were launched as. Time is counted in half ticks, because a timer may fire in the second before its
occurrence (`onCronFire` tolerates 1000 ms). A *clock* is an engine that only fires dispatch occurrences
while the device is offline. Operators on a whole state (`World`, a record of the variables) make the
sequences inside one callback: `Finish` then `Drained` then `Launched`, one operator per method, so that an
action is their composition and no intermediate state is visible, as in the code. `strayed`, `blamed`
and `cut` record three situations in which the code promises less (section 7), for the properties.

### The parts of MCDevice

Each has its own small protocol: intents and evidence in the store (`Provision`, `Skills`, `Maintenance`,
`PeerMail`, `WorkflowInputs`, `Interactions`), a permission that may be taken back between two awaits
(`Admission`, `ManagedMcp`, `Skills`), or a native program that says less than is true (`PiSession`, `CliTurn`,
`CodexTurn`, `HermesTurn`, `GatewayTurn`, `PeerHooks`, `PeerRequests`, `ProcessTree`). Truth variables
(`native`, `db`, `gateway`, `files`, `dir`, `server`) hold what is so, beside what the device believes.

## 3. Runs

| Run | Question | Result |
|---|---|---|
| `outbox` | 2 sessions, 2 upstream identities, 3 numbers, 2 faults: do the outbox's promises survive failed and half-reported transactions, restarts and arbitrary acknowledgements? | holds (340,025 states) |
| `delivery` | 1 session, 2 events, 2 faults, 2 dropped sockets, pages of one: does the reliable path deliver in order, once, and drain? | holds, with refinement and liveness |
| `turns` | 3 turns, 3 interrupts, controls, compressions, terminations, disposals or crashes | holds, with liveness (297,253 states) |
| `turns_overtaken` | is a running turn always reported? | violated: code bug |
| `workflow` | 2 engines, 3 nodes, 4 plans, 2 controls or failures, until an old object was written | holds, with liveness (206,675 states) |
| `workflow_twice` | the graph with 3, late writes of old objects included: one executor? | violated: code bug |
| `workflow_undone` | the graph with 2, late writes of old objects included: does a completed workflow stay completed? | violated: code bug |
| `scheduler` | 5 schedules (each kind of target, each overlap policy, with and without catch-up, expiry and retries), 2 engines, 2 runs | holds (812,309 states) |
| `scheduler_silent` | does some engine always wake for the next occurrence while the process is up? | violated: code bug |
| `acks_unhandled` | has every event of a workflow that the device forgets been handled by the server SDK? | violated: code bug |
| `connection_leak` | is there ever a runtime that nobody retires? | violated: code bug |
| `device` | 35 parts, one at a time: do their promises hold under their crashes, losses, overtakings and late answers? | holds (2.4 million states) |

Why the bounds are enough to see the interesting cases:

- `outbox`: three numbers make "acknowledged, unacknowledged, lost" coexist; two faults combine a
  failed write with a restart, or two half-reported ones. The theorems of section 5 remove the bound.
- `delivery`: two events are the least with a gap; two drops let a handler of a first socket, one of a second
  and a replay on a third be alive together. One session: sessions share nothing but the FIFO, and frames of
  another session only delay.
- `turns`: three turns are a running one, the one drained behind it and one that arrives during the
  drain; the fourth would only lengthen the queue. Three controls combine an interrupt, a
  compression and a crash. Turn ids are fresh names, taken in one order (`Fresh`); without that the safety properties alone
  were checked too (1,230,916 states). The theorems of section 5 remove the bounds.
- `workflow`: an engine and its rival; three nodes give a dependency, two parallel nodes, a graph with two targets
  and a discussion with two speakers; three run objects give each engine one and leave room for a superseded one.
  Two failures combine a takeover with a late write; `CheckpointInv` and `FenceInv` were also checked with three for the graph.
- `scheduler`: two runs are one that works and one that overlaps it; two engines are a successor and an engine
  that does not know it was superseded (or a clock and the scheduler it hands over to). Each schedule
  has its own budget of controls and failures (`budget`) and last occurrence (`last`), the smallest in
  which its policy matters. Theorems remove these bounds too.
- `device`: the bounds stand in the `INSTANCE` statements of `MCDevice`. Each part gets two of what competes (turns,
  engines, tenants, payloads, calls, sockets) and one or two losses, and where those together are too many,
  two instances with different bounds: `Requests` and `Retries`, `PeerMail` and `Reports`,
  `GatewayTurn` and `Context`, `HermesTurn` and `Revived`, `Admission` and `Consent`. The initial state picks
  the part, `part` never changes, and the variables of the others are `None`, so the parts do not
  multiply. `Twins` permutes the two tenants, payloads, questions, namespaces, sources, workers or
  engines a part treats alike. `None` is a model value, outside every set.

### The properties, by component

- Outbox: `WatermarkBehindStream`, `NothingEvicted`, `ReplayIsDurable`, `NextNumberUnused`,
  `NoUnexplainedGap`, `ObservedOnce`, `WatermarkMonotone`, and `OutInv`, the invariant the proofs use.
- Delivery: `ForgetsOnlyConsumed`, `SentIsCommitted`, `EventuallyDrained`, `ImplementsReliableStream`.
- Session engine: `FinalOnce`, `LiveTurnIsCurrent`, `CheckpointSound`, `CompressionExclusive`,
  `SuccessorWaits`, `TerminatedIsFenced`, `KeptWhileObeyed`, `QueueDrains`, and `TurnInv`.
- Workflow engine: `OneExecutor`, `LeaseIsWork`, `NothingRepeated`, `TerminalHolds`, `FencedSends`,
  `NothingStranded`.
- Scheduler: `OccurrenceOnce` (no occurrence is fired twice, but for the early timer), `TicksAreOwed` (the cursor passes
  no occurrence without a run or a reason), `OneExecution`, `ClockRuns` (an engine that serves the
  enabled schedule has a timer no later than the cursor or awaits a launch; three exceptions, below), `NoneForgotten` (an unfinished run is somebody's), `SettledStays`.
- The parts of `device` are collected in seven properties, one per plane; `MCDevice` has a sentence for
  each part, and the conjuncts are defined and commented in the parts' modules:
  `DeliverySound` (`SessionConsumer`, `WorkflowReplay`, `Archive`), `ConnectionSound` (`Connection`),
  `CallsSound` (`Requests`, `Interactions`, `WorkflowInputs`, `PeerMail`, `TurnInput`, `PeerHooks`, `PeerRequests`,
  `NodeTurns`, `PythonServer`, `ServerSdk`), `ProvisionSound` (`Provision`, `Projects`, `Maintenance`, `Admission`,
  `ManagedMcp`, `EmployeeProfile`), `SkillsSound` (`Skills`), `StopSound` (`NativeStop`, `Compression`),
  `AdaptersSound` (`PiSession`, `CliTurn`, `CodexTurn`, `GatewayTurn`, `HermesTurn`, `GatewayClient`, `ProcessTree`).

Two kinds of exception are part of the session properties, because the code does not promise more:
`Stray` turns are those an interrupt aimed at another turn unseated, those whose interrupt the adapter
ignored, and those still at work when a session without a checkpoint was recovered by observation. Each
of them is a divergence of section 7. The scheduler's `blamed`, `cut` and `strayed` and the workflow's `overwritten`
are of the same kind. `cut` are the engines without a timer: the store refused the receipt of their last firing
(`scheduler_silent`), that firing found the schedule disabled, or another engine served the update since. The server
SDKs' `raised` are the events some handler of which failed: a cumulative acknowledgement of a later one covers them
(`acks_unhandled`), and the conjuncts `ToldWasHandled` and `AckedWasHandled` of `CallsSound` except them, and in
TypeScript those whose handler still runs.

## 4. Fairness

- `delivery`: the client redials for ever with backoff, so dialling is weakly fair; sockets deliver what they hold;
  handlers settle (the SDK's contract: a handler that never settles is the application's bug);
  drops and faults are finite, and nothing is assumed of their timing.
- `turns`: the continuations of a turn (dispatch, the adapter's final, its return, the settlement), an interrupt's
  return and the end of a disposal are weakly fair. An adapter's `send` that never returns is not excluded by
  the code, but a session then rightly stays running. No fairness is assumed of controls, recoveries and
  compressions: nothing bounds them in the code.
- `workflow`: one weak fairness for all of `Work`: continuations, timers, finalizers and the
  client's restart of an engine. It says only that not everything stops while something can go on. Turns end by their adapter
  or `perNodeTimeoutSeconds`, reviews by their local deadline, calls of the session engine as above.
- All other runs are safety runs and assume none.

## 5. Proofs

Five components have theorems, for any values of the constants: any sessions, turns, engines, nodes, plans,
schedules and runs, any number of faults, controls and crashes. Each follows one pattern: an invariant that is
inductive, checked by TLC first, one lemma per operator or action, one step per conjunct that an action can
disturb, and the properties of the runs as corollaries. The assumptions on constants are those named in the modules
(`OutboxAssumption`, `TurnsAssumption`, ...): special values differ from ordinary ones, bounds are numbers.

**Outbox** (`Outbox_proofs`). `OutInv` is inductive, and from it the seven invariants the run checks and, with an
action argument, `WatermarkMonotone`. The difficulty is `WatermarkBehindStream`: by itself it is not
preserved, because an acknowledgement clamps to `seq`, which lives in memory and is rebuilt from three tables.
The strengthening ties them together: `Ordered` (memory's numbers against each other), `Backed` (every
number in memory has its row, or was acknowledged) and `Recorded` (the tables against the history of commits),
so that `Restart` recomputes a `seq` at least as great as before.

**Delivery** (`ReliableConsumer_proofs`). `ReliableInv` says of every frame, handler, acknowledgement and
committed event on either side of every socket that it is at most what the other side proves. From it
`ForgetsOnlyConsumed`, `SentIsCommitted`, and the refinement `ReliableRefines`: each step of the detailed
specification produces one event, consumes the next one, or stutters in `ReliableStream`.

**Session engine** (`SessionTurns_proofs`). `TurnInv` is inductive.
`FinalOnce` needs `Fenced` (a turn with a final event is in `terminal` as long as it could
publish). `LiveTurnIsCurrent` needs `CurrentStarted`, `OpHolds` and `QueueWaits`, since a drain, an interrupt
and a settlement all set the current turn. `CheckpointSound` needs most of the rest: where native work
can be (`WorkIsCurrent`, `OrphanIsDetached`), and that a checkpoint is unsettled before work can begin (`WorkIsUnsettled`).
`CompressionExclusive` and `SuccessorWaits` are inductive only together with `CompressionWaits`,
`AttachedOwns` and `LateIdles`. `KeptWhileObeyed` is an action property; `QueuedIsListed` (a queued turn is
in the queue, while every interrupt was obeyed) is the invariant it needs beside `TurnInv`. The queue is a
sequence whose contents the proofs use only through its indices. `OpHolds` says of an interrupt no more than that its
target is fenced: whether the session is terminated is not asked, and `TerminatedIsQuiet` follows from what the
operation can hold (no message), not from its absence.

**Workflow engine** (`WorkflowEngine_proofs`). `FenceInv` is the fence: no object is ahead
of the row's epoch, one with the row's epoch belongs to the row's owner, an object that owns the row is the one in its live engine's
table (or is quiet, or being finalized), and a lease means work. Each action either keeps the lease (`KeepsLease`), gives it up (`Releases`), takes it (`Grants`), takes it and
releases it within one callback (`GrantsBriefly`), or loses an engine (`Departs`): five lemmas about tables, rows and objects,
and then one short case per action. `OneExecutor`, `LeaseIsWork`, `TerminalHolds` and `FencedSends` follow.
Both invariants are proved in the form "until `overwritten`": the theorem is
`Spec => [](overwritten \/ FenceInv)`, each action preserves the invariant or sets `overwritten`, and that stays
(`OverwrittenStays`). No assumption on the server is left.
`CheckpointInv` adds what the row says of the object that executes it: `FormsOK` (which awaits go
with which cursor), `AgreesOK` (the row is the executor's object as it last wrote it), `StoppedOK` and
`OneFinalizer`. `Closer` compares two objects of one round by the nodes that are done, `Onward` allows the next round too; every
continuation goes `Onward`, every new object is `Closer` than the row it was read from, and so a step in the row stays, whether the
lease fades, is written under or freed (`Fades`, `Writes`, `Frees`), which is `NothingRepeated`. The attempt found two arms of a `CASE` of the model (`After`, `DiscussionRound`) that overlapped,
which TLC resolves by their order and a proof cannot; they are disjoint now.

**Scheduler** (`SchedulerRuns_proofs`, `Scheduler_proofs`). `SchedInv` is `Well(World, strayed, owed, now)`. Of
each run, `Full` says how its row, its objects in the engines and its attempts' work go together: `Base` (leases and
epochs, one execution, nothing named that was not started), `Phased` (the owner's object is where the row is), `Clean`
(unless a living engine lost a lease, an object is its owner's) and `Goes` (an owner will hear of the run, or has it in
its queue). `Told`: an end that is not acknowledged is on its way, or an engine will tell it again. `Clocked` is about the
schedule: `Housed` (an engine that does not run has no objects), `Cursored` (the cursor is beyond every recorded
occurrence), `Owes` (and beyond no unrecorded one that is owed) and `Wakes` (every serving engine has a timer in time, or a
launch it awaits). The operators
work on a whole state and are composed, so the proof has one lemma per operator: what it does to its own run, that it
leaves the others alone (`Only`), that a sequence of such steps is one (`Turn`, `Steps`, `Onward`), and that the clock is
right after it (`Through`). All six properties of the run are theorems. Proving showed
two that were false beyond the run's bounds and say now what the code does promise: with two retries or more, a
refusal of a prompt that comes late fails the attempt after it, and two executions of a run are under way
(`OneExecution` excepts the runs in `blamed`); and with two engines, an update or enable by one of them does not wind the
other's timer, which may wake later than the cursor (`ClockRuns` excepts the engines in `cut`).

To check an inductive invariant on an instance, name it as an INVARIANT in a copy of a configuration: `FenceInv` and
`CheckpointInv` (each as `overwritten \/ ...`) in `MCWorkflow.cfg`, `ReliableInv` in `MCDelivery.cfg`, `SchedInv` in `MCScheduler.cfg` with a
module that extends `Scheduler_proofs`; all were.

Only model-checked: the liveness properties (`EventuallyDrained`, `QueueDrains`, `NothingStranded`), since the
prover does not reason about fairness and ENABLED; the parts of `MCDevice`, which are small, bounded in their
constants and about one race each; and `SessionConsumer`'s properties.

## 6. Not modelled

- The wire encoding, schemas and access keys; JSON shapes; limits on the size of frames and results, except where
  a page or a window is the point (`WorkflowReplay`, `PeerMail`, `PeerHooks`, `Archive`).
- Git, the file system, processes and the agents' own programs: they answer nondeterministically.
- Of the session engine: forks, `observeLegacySessionRecovery`, adoption by observation of a session without checkpoint in
  `NativeStop` (it is in `SessionTurns`). Of the workflow engine: result pages, dispatch keys, the extra `rerunNodes` of a
  resume, `observedStatus`, system prompts, parallel nodes in `NodeTurns`.
- Of the scheduler: calendar arithmetic (`cron.ts` appears as "the next even half tick"), one-shot and
  interval schedules, several schedules at once (they share nothing but the engine).
- Of the adapters: the parsing of outputs, unstoppable process trees, the Windows job object, Codex' hooks for
  permissions, the rescue adapter, Hermes' and OpenClaw's own schedules.
- Of admission: `project.exec`, other owner and permission checks, pinned sources. Of managed MCP: file formats, changed
  `configPaths`, the Windows worker, the limit of 8 pending requests. Of the gateway: the files of the device identity,
  the verification of the native history after a turn.
- Of peer context: permission questions, refreshes of an external SDK's budget, qualification of providers and URLs.
- Everything listed as `not_modelled` in `PROJECT.json`, with its reason.

## 7. Divergences observed

Those with a run are findings in `PROJECT.json`: an interrupt that
overtakes a newer turn (`turns_overtaken`), a superseded workflow object written over the row by a late
session creation (`workflow_twice`) or by an artifact (`workflow_undone`), a refused receipt that leaves the schedule
without a timer (`scheduler_silent`), events of a workflow acknowledged unhandled (`acks_unhandled`) and a runtime that
nobody retires (`connection_leak`). The following were met while modelling and
have none. The models contain them: a property excepts them or does not claim the contrary.

**Session engine.**
- `interrupt` shifts the next message off the queue (`session-engine.ts:1140`) and then awaits `reattach`, which throws for
  an unsettled checkpoint: behind an ignored interrupt an accepted message is neither run nor refused (`QueuedIsKept`
  without the condition of `KeptWhileObeyed`; `docs/design.md:149`).
- `persist` writes nothing for a record that does not own the native session (`session-engine.ts:231`): a `terminate` of
  a restored session that nobody reattached does not reach the row, and the next start restores it (`TerminatedIsFenced`
  speaks of owned rows).
- A turn that follows an ignored interrupt runs on the adapter session that ignored it, although the comment in
  `session-engine.ts:1134` asks for a reattachment; the path at line 683 makes none.
- A session without a checkpoint is adopted by observation (`session-engine.ts:498`) while the disposed
  engine's work may go on; `docs/SESSION_RECOVERY.md:73` asks for a settled checkpoint.
- `session.interrupt` of an idle native session records a pending stop without a turn, which nothing can ever confirm: the
  session is fenced for good (`docs/SESSION_RECOVERY.md`, "Native Stop Settlement").
- Adapters observe only turns of their own adapter session, so a stop of a turn from before a restart is never confirmed
  while attached; the witness that `dispose` leaves for it always answers undefined and shadows the history lookup until
  the process restarts. Messages queued behind a stopped turn stay queued until the next turn ends.
- Compression: a receipt that is `unknown` blocks the session for good, `terminate` included. After a turn that
  ignored its interrupt a later turn overwrites `turnSettlement`, so a compression may start while the stale process still
  writes. A native compaction that timed out may still happen. `refreshEmployee` takes no control and may inject
  during a compression. `computeKeepToolBlocks` is by position: with parallel calls it may keep a result without its call.

**Delivery and server SDKs.**
- Without a stream handler the SDK acknowledges the highest number seen (`server.ts:661-666`); frames replayed before the
  session is registered on the new connection are dropped, and the next live frame acknowledges past them
  (`AckedWasHeard` without the condition of `FirstSocketLosesNothing`; `docs/design.md:89`).
- A plain listener hears replayed events again after `replayStream` (`docs/design.md:354` speaks of
  de-duplication).
- TypeScript: an older connection whose authentication ends after a newer one's takes its
  place in the registry (`server.ts:831`), and its end leaves no entry though the newer lives. `project.create` and `fsList` send
  the caller's object as it is after an await, unlike the other held requests. After `close()` a server never listens again.
- Python: the late close of an old socket removes the reconnected device (`finally` pops unconditionally); a handler
  that awaits a call of the device blocks its own reply until the timer; events that arrive before `create_session` goes on
  are dropped; a final that is replayed ends the
  next turn's `stream()` early.
- Archive: a wrong chunk in the middle of a file is kept, and the file can then never be completed under its id.

**Connection and requests.**
- A failed disposal of the old tenant's runtime makes every later attempt fail.
- The rejection of an evicted execution deletes the newer entry of its key; a failed `idempotencyPut` is ignored; methods
  without a fingerprint return the old result for another payload.
- Interactions: an answer that arrives with the turn's end is recorded as cancelled although the server believes it was
  submitted; after a crash the row stays pending and a late answer is recorded nowhere; hooks fail open on a lost link
  (`hook-bridge.ts`).

**Workflow engine.**
- A graph whose `done` was checkpointed is, if the engine dies before its sessions are cleaned up, recovered
  into the routes listed before `done`, or into `max_iterations`; an approved review in the same window
  ends in `no_directive` (`workflow-engine.ts:1366-1432`).
- `recover` of a Dev or native run releases the lease and keeps the object: a later `cancel` there throws while
  memory says cancelled and the row stays paused.
- An engine that lost its lease keeps the object in `runs`, and `recover` skips it for ever; the workflow
  depends on another engine.
- `cancel` terminates the sessions of unfinished nodes only: persistent sessions of completed nodes stay
  (`cleanupPersistent(run, false)`).
- `awaitTurnResult` ends its poll at the first error of `status` and then waits without limit when
  there is no per-node timeout; it completes a node with partial text when its session is idle, paused or terminated without
  a result event.
- `pause` does not release the lease; a resume whose validation throws after `claimWorkflow` keeps the lease until it lapses.
- After a cleanup removed a clean worktree its branch stays, so a resume's `git worktree add -b` of that name always
  fails: a cancelled or timed out workflow with an automatic worktree cannot be resumed. A crash between the worktree and
  its row leaves the same.
- Two workflows, or parallel nodes, that check out branches in one main directory overwrite each other's checkout; the
  cache `mainBranchCheckedOut` is not dropped by that, nor over a failure or a pause. Parallel first uses of one
  `worktreeId` both create it.
- A resume's feedback reaches newly created sessions only, never a persistent one; `rerunNodes` does not rerun the
  completed dependents.
- `emit` increments `run.seq` before the append, which leaves a hole when it throws. Two concurrent calls of one input
  id: the refusal of the second deletes the first's job key (line 653), and status answers `unknown` while it is still
  inserting.

**Scheduler.**
- A timer that fires within its tolerance before the occurrence fires the occurrence twice, also through an update
  (`L4_SCHEDULING.md:342` promises once).
- `finishRun` whose write throws leaves a terminal object and an active row that this engine never reclaims; a run
  taken over by an engine while its workflow executes elsewhere is never finished (`strayed`).
- `overlap: skip` looks only at the engine's own runs. Retries and queued runs are launched while offline.
- The late `catch` of a send (`scheduler-engine.ts:668-670`) fails whatever attempt the run is in (`blamed`). A crash of a retry
  before its workflow exists correlates the previous attempt's workflow. Sessions of runs lost by lease are not terminated.
- A second client of a tenant that starts cold skips occurrences another clock owes; a candidate connection that fails before
  publication disposes its clock (the comment at `client.ts:155` says otherwise); an update while an occurrence is due
  drops it; an update by one engine does not rearm another's timer (`cut`); a local time that daylight saving skips is skipped.

**Projects, provisioning, admission, files.**
- Provision: a refusal of the observation after a successful `mkdir` settles `failed` although the directory was made; a removed
  project's worktree is registered again by a status query; a worktree row stays `prepared` after a death between prepare and claim.
- Projects: a worktree made while its project is removed leaves a row that blocks its path for everybody; a session being created is
  invisible to the check of `remove`.
- Admission: a registered directory's identity is not compared between calls; the CLI's project check and its write of the consent are in
  two databases, and may leave both blocked; claims are kept after a failed or removed creation.
- Maintenance: an owner's write between the second look and the rename is lost; `prune` orders backups by the wall clock.
- Managed MCP: lock files are never removed after a death, so every later `configure` answers `mcp_config_busy`; a death between
  patching a file and saving the state leaves an entry nobody owns; one conflict at a removal aborts the whole snapshot;
  a consent taken back and given again between request and answer goes unnoticed.
- Employee profiles: an apply that is cut after some documents leaves the profile stuck when a newer revision is applied
  (`employee_profile_local_changes` although the owner changed nothing); `status` of a remounted home writes an older record
  over a newer one; a crash between creating and writing the workspace's marker leaves an empty one, refused for ever.
- Skills: plain installs and uninstalls look at the lock once and may interleave with a claimed one; an uninstall revokes
  a version published meanwhile; a publication that loses its race leaves the target locked.

**Adapters.**
- `pendingInject` is cleared in `send` before the run succeeds (pi, codex, claude, copilot, opencode, hermes); OpenClaw keeps it,
  but a late acknowledgement of a cut turn removes a newly injected context that was never sent (`accept`,
  `openclaw-gateway.ts:297-298`; `docs/agent-cli-integration.md:44-45`), and one that was acknowledged too late is sent twice.
- Pi: the header of an older pi may come after the prompt was given; an abort after the settlement overrides completed.
- Claude Code counts as started before its first process made the conversation, so after an early cut every `--resume` fails;
  Copilot's first conversation is only continued after a completed turn; OpenCode does not compare the session of its events, and takes any
  `step_finish` for completion; Copilot does not verify that the process has stopped.
- Codex: a turn the program starts by itself after the end fails the channel; a thread whose history is not flushed may
  not exist for the next resume.
- Hermes: `send` resolves on abort before the process tree stops; a killed process leaves `ended_at` empty and every later send is
  refused until Hermes closes the conversation; a cut after a native compression leaves the session on the parent's id.
- OpenClaw: visible final text counts as proof of the end before the run has settled; a turn cut before dispatch can
  never confirm its stop. A call whose client closed between connect and send keeps its entry until the timeout.
- `ProcessSupervisor` keeps its resolved termination after the forced kill, so a later `terminate` signals nothing; on legacy
  Windows `hasStopped` is true after the leader's natural exit although descendants live.

**Peer context and input.**
- A message too large for the headroom pins the inbox cursor on its page for the turn. Claude's and Copilot's hooks return
  the context even if the observation was refused; a hook may drop a batch after it was recorded; Hermes reports the payload
  before the next call. Copilot's `authorizeTool` does not look at `tool.called` again after its await
  (`copilot-peer-context.ts:172-176`). OpenClaw's first boundary never delivers, because the budget is not known then.
- Current-turn input: `matching` throws outside the `try` in `authorize`, so one withdrawn input leaves the rest of its batch
  pending and offered for ever; an input whose native side left after `prepare` is not offered again.

## 8. What is left

The plan this project followed was: delivery, sessions, workflows, the scheduler, then the smaller planes, each as a part of
`MCDevice`; proofs in the same order. Left, in order of what they would say:

1. Proofs for the parts whose invariants are inductive with little strengthening: `Requests` (`EffectOnce`), `Provision`
   (`DispatchedOnce`), `NativeStop` (`StopFences`), `Admission` (`NothingAfterRevocation`).
2. An exclusive-lease register as an abstract specification that both `WorkflowEngine`'s row and `Scheduler`'s rows
   implement; their proofs share the idea (`EpochsOK`, `Epochs`) but no module.
3. Compositions of two parts that meet: `NodeTurns` with `SessionTurns`, `PeerMail` with `PeerHooks`.
4. Parallel nodes, and a resume beside a pending session creation, in `NodeTurns`; unstoppable process trees in the adapters.

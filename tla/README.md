# Verification of COGNOS

TLA+ modules that model the core of COGNOS, TLC configurations that check them
on small instances, and TLAPS proofs of the properties that matter most.
`PROJECT.json` is the index: components, runs, mutants, the map from
definitions to source lines, findings, hazards and theorems.

## 1. The system

COGNOS turns a user's intent into a graph of tasks, and lets agents carry the
tasks out under the control of HAL, the human approval layer.

    cognos CLI --DispatchIntent--> orchestrator --> intent engine (decompose)
                                       |--HalGate RPC--> HAL (score, decide)
                                       |--hal.sock----> HAL approval daemon
                                       |                   |--UI socket--> cognos approval watch
                                       |                   |--stdin------> terminal prompt
                                       |                   '--append-----> ~/.cognos/audit.log
                                       '--spawn-------> agents/file_task.py

| component | state | operations | what is hard | what makes it correct |
|---|---|---|---|---|
| orchestrator (`orchestrator/src`) | task graph, scheduler queue, in-flight set, one mutex around all of it | DispatchIntent: reset, decompose, gate, execute, report | clients that drop a handler at any await; joins; failures half-way | no ungated side effect; order and at-most-once; truthful report; every request answered |
| HAL gate (`hal/src/main.rs`, `risk_scorer.rs`, `action_validator.rs`) | none | score an action, map the band to a status | two independent gradings of one action | an approval_required action runs only after the user said yes |
| approval flow (`hal/src/approval_flow.rs`, `orchestrator/src/approval_socket.rs`) | one thread per connection, the terminal, audit.log | grade, ask, time out, log, answer | timeouts racing answers, crashes, a shared stdin | logged before acted upon; a verdict is final; every connection answered |
| approval watch (`cli/src/approval_watch.rs`) | accept thread, channel, dialog queue, keyboard | accept, receive, show, answer, quit | dialogs arriving while keys are typed, stale dialogs, shutdown | a key answers the dialog it was typed for; no dialog lost; quit ends |
| audit log (`hal/src/audit_log.rs`) | pending entries, chain hash, log, tip and rotated files | append, flush, rotate, verify, export, wipe, reopen | two locks per append, two files per flush, crashes, edits | the chain verifies at rest; verify accepts exactly unedited logs; nothing lost |
| HAL models (`hal/src`, some thirty files) | trust, thresholds, autonomy, policies, sessions, chain, snapshots, verdict cache | score, decide, calibrate, grant, install, checkpoint, replay | long legal sequences, clamps and floors, three deciders over one action, torn files | more reason for concern never loosens a decision; floors hold; what runs unasked is bounded; a snapshot is whole |
| agent IPC (`ipc/agent-ipc`) | registry, tokens, nonces, rate windows | authorise, dispatch, sweep, revoke | checks under one lock, effects under another | an envelope is dispatched once, by an agent entitled to it |
| gRPC transport (`ipc/grpc`), event bus | connection tasks, agent and client tables, a ring of events | connect with back-off, heartbeat, supervise, shut down, publish, lag | outages, reconnects racing shutdown, slow receivers | the tables agree; a stop ends the task; a stream skips only what it was told it skipped |
| intent engine (`intent-engine`) | cache, one parser, stored choices, action graph | parse, validate, fall back, ask, order | callers that leave while they wait, expiry, a torn choice file | an answer belongs to its input; a request ends |
| scheduler daemon (`scheduler`) | scenario, timer, override, knobs | tick, override, write | hysteresis, an override that ends, knobs that cannot be written | no switch before the hysteresis |
| memory (`memory`) | index queue and records, pool, locked pages, regions, recycle directory | drain, index, wipe, acquire, release, delete, restore | files rewritten by two processes, a crash between two files | nothing lost or resurrected unnoticed; the pool tiles its arena |
| command lines (`cli`, `cognos`) | two lists, model file, screen | edit, pull, exit, navigate | concurrent invocations | an edit is kept unless another overlaps |
| orphan crates (`anfs`, `cluster`, `mesh`, `hypervisor`, `llm`, `unipkg`, `installer`; `ORPHAN_CRATES.md`) | journal, caches, quorum, replicas, topology, model pool, VMs, sandboxes | one handler each | late and repeated messages, evictions, dropped futures | quorums meet; replicas never go back; bytes and references are counted; restarts are bounded |

`PROJECT.json` lists every component, with the reason where one is not
modelled, and every hazard with the line where it bites.

## 2. Modules

| module | models | built on |
|---|---|---|
| `TaskGraph` | `task_graph.rs`, the cycle check of `intent_adapter.rs`: pure operators | - |
| `Orchestrator` | `serve.rs`, `runtime.rs`, `scheduler.rs`, `hal_gate.rs`, `executor.rs`: one action per await-to-await step of the handler | `TaskGraph` |
| `AuditLog` | `audit_log.rs`: one action per critical section and per file operation, crashes, edits | - |
| `HalPolicy` | the two gradings of an action: pure operators | - |
| `ApprovalFlow` | `approval_flow.rs`, `approval_socket.rs`, `approval_watch.rs`, composed through their sockets | `HalPolicy` |
| `HalAssessment` | the two scorers and three deciders of HAL as operators; the window of observations they are applied to | - |
| `TrustCalibration`, `TrustRecords`, `ActivityMonitors` | thresholds and their file; earned trust, reputation, suspicion; windows of activity | - |
| `Privileges`, `GovernanceKernel`, `HalGuards`, `PreloadGates` | autonomy and its budget, recursion; policies and their revision; governor, constitution, equilibrium; the two filters before a preload | - |
| `Continuity`, `HalRecords` | snapshots, recovery points, self-preservation; chain, replay, identities, rewrite requests | - |
| `VerdictMemo` | what callers may rely on of a cached verdict (abstract) | - |
| `VerdictCache` | `authority_compressor.rs`, with the refinement mapping to `VerdictMemo` | `VerdictMemo` |
| `AgentIpc` | the coordinator: registry, tokens, nonces, rates, dispatch | - |
| `EventBus`, `IpcAgent`, `IpcRuntime` | broadcast channels; an agent's connection task; the tables, the supervisor and shutdown | - |
| `SchedulerDaemon` | `scheduler/src` | - |
| `IntentEngine` | the parser and its cache; disambiguation and the action graph | - |
| `MemoryService` | the indexer's files; pool, locked pages, isolation | - |
| `CommandLine` | both command lines | - |
| `Cluster`, `Mesh` | quorum and replication; one node's topology | - |
| `Anfs`, `AnfsFiles` | the agent-native overlay; the overlay with a recycle directory | - |
| `ModelRuntime` | model pool, requests in flight, context window, VMs | - |
| `Packages` | package trust, search, install, remove; sandbox restarts | - |
| `MCHal`, `MCIpc`, `MCServices`, `MCPlatform` | one component per behaviour, chosen by `part` | the modules above |
| other `MC*` | symmetry sets for TLC | each specification |
| `OrchestratorProofs`, `AuditLogProofs`, `ApprovalFlowProofs`, `HalProofs`, `IpcProofs`, `ServicesProofs`, `PlatformProofs` | theorems and proofs (section 4) | the specification, `MCHal`, `MCIpc`, `MCServices`, `MCPlatform` |
| `ProofLemmas` | lemmas about sequences, lists, sums, ranks and walks | - |

How state and steps correspond to the code:

- **Orchestrator.** `req` is the client's view of a call, `holder` the owner of
  the tokio mutex, `phase` the await at which the handler is suspended.
  `st`/`edges` are `TaskGraph.nodes`/`edges`, `queue`/`inFlight` the scheduler;
  `clock` stands for `submitted_at`, so that roots are popped in no fixed order
  and a dependent never before an older entry. The plan of a request is any
  acyclic graph over the task slots, with any of its tasks side-effecting.
  `cleared` and `started` are history variables. A dropped handler (`Drop`)
  frees the mutex, leaves the runtime as it is and the agent running
  (`orphans`). Code between two awaits is one action: `ExecDone` is
  mark_completed, complete, enqueue_ready_dependents and the record.
  `HalGate` holds the possible values of the runtime's `hal_gate` field; the
  runs leave it open at each dispatch whether a client is attached, and without
  one side-effecting tasks fail closed.
  The branch of `dispatch_node` for platforms without Unix sockets is left out.
- **AuditLog.** Hashes are the sequences of contents they commit to, so
  equality of hashes is equality of histories (SHA-256 without collisions).
  `pc` marks the points where the mutex is released or a file operation ends.
  The tip file is truncated and then written, as `fs::write` does. `good` is
  the file without edits. `Ops` selects which of rotation, wipe, crash, crash
  inside a flush, edits and the daemon's lines a run explores. A crash inside a
  flush may leave any prefix of the pending lines; the renames of a rotation
  are one step, and a crash between them is not modelled. Write errors are not
  modelled.
- **ApprovalFlow.** `waiter` is the orchestrator's end of a request, `thread`
  the daemon thread, `stream` the UI connection with the answer on it.
  `backlog`, `channel` and `queue` are the places a dialog passes in the watch;
  `shown` is the banner on the screen and every key remembers it (`about`).
  `consent` is history: what the user really looked at and allowed. `prompts`
  and `stdin` are the terminal. `LogWritable` says whether audit.log can always
  be written. Only actions that the RPC answers with approval_required enter.
  An operation is a class of names and a path a zone, which is all that the two
  rule sets tell apart. Malformed frames, and notifications, which change
  nothing, are left out.

- **HAL models.** Scores are fixed point: hundredths for what the code keeps
  between 0 and 1, ten-thousandths for weighted sums, steps of 0.05 for
  thresholds, so that every literal of the code is exact; what f32 rounding adds
  is left out. Time is in ticks, the half-life of earned trust is one. The
  scorers and deciders are pure and are asked, in `HalAssessment`, about every
  combination of what they tell apart. `eager` (trust halved at every tick),
  `low`, `closed` and `acceptedAt` are history that the lazily computed code is
  compared with. `Continuity` separates what readers see of a file from what a
  power failure leaves (`onDisk`). In `Privileges` a caller asks
  (`can_auto_execute`) and pays later (`consume_budget`), as the code has it, so
  that several may be told yes on the last unit (`MaxCallers`). What HAL is asked
  to assess is a context that a caller fills from the engines one after another;
  no function of the crate does that whole chain.
- **VerdictCache** is the code's map with its eviction list and clock;
  `VerdictMemo` knows the latest verdict of every reversible request since the
  last invalidation. `CacheServesFresh` is the refinement, with the history
  `cacheLatest` as the memo: an answer from the cache is the verdict last stored
  for that key since the last invalidation, not older than the time to live, and
  neither asked for nor reached for an irreversible action. What the cache evicts
  only makes it answer nothing where the memo could.
- **AgentIpc.** `calls` holds how far each dispatch has come through the checks;
  between two of them the registry, the tokens and the clock may change. `sweep`
  is cleanup_stale between its two locks. `accepted` is history. **EventBus.**
  `subs` has the next index each receiver reads; a receiver behind the ring is
  told how many it lost. **IpcAgent.** `phase` is the await the task stands at;
  `stopAsked` the permit that `Notify` keeps. **IpcRuntime.** The two locks are
  variables, and registering, unregistering, the supervisor's round and shutdown
  take them, and change the two tables, in the code's order; a future may be
  dropped at the await between the tables (`GiveUp`).
- **IntentEngine.** `holder` has the parser across an inference; a caller may
  leave at any await. What the model answers is one of `Outputs`, which cover
  every verdict of the schema validator. **SchedulerDaemon.** A `Tick` reads a
  sample, detects, moves the timer, and applies the policy knob by knob, any of
  which may fail. **MemoryService.** The drain reads line by line while other
  processes append, and truncates at its end, whether or not the lines were
  indexed; `fs::write` truncates and then writes, and either may be cut short by
  a crash or an error. `late`, `raced`, `restored` and `torn` mark what met one
  of these. The fabric keeps the free list and the handles of the arena in
  address units. **CommandLine.** An edit is a read and a later write.
- **Cluster, Mesh.** Log entries and snapshots are delivered late, twice and out
  of order; a supermajority's f32 product may round to just above a whole number.
  `Mesh` is one node's graph and the search over it. **Anfs.** A handler is the
  check, the audit line and the journal entry; where the code then answers ENOSYS
  the model ends too. **AnfsFiles.** The recycle directory is a function of name
  and second, which is how the code names files there. **ModelRuntime.** A load
  is external and may fail; a request's future may be dropped at its await.
  **Packages.** `sandboxes` holds state, restarts and back-off; a restart's
  future may be dropped while it sleeps.

## 3. Runs

Every passing run finishes within about two minutes on two cores.

| run | instance | shows |
|---|---|---|
| OrchestratorSafety | 2 requests, 3 tasks, 1 orphan | `GateBeforeRun`, `ExecAfterPreds`, `AtMostOnce`, `OneActive`, `PlanInstalls`, `ReportsTruthful` |
| OrchestratorLiveness | 2 requests, 2 tasks, fair | `Answered` |
| AuditSingle | 1 writer, 4 entries, wipes, crashes, edits | `QuiescentVerifies`, `VerdictExact`, `TipOnDisk` |
| AuditShared | 2 writers, 4 entries, 2 kept files, rotation, daemon lines | `Accounted`, `NoFork` |
| ApprovalWatch | 2 requests, watch UI, crashes, failing log, fair | `ExplicitApproval`, `DialogHeld`, `VerdictFinal`, `DaemonAnswers` |
| ApprovalTerminal | 2 requests, terminal, $HOME on the dangerous list | `AuditedFirst` |
| HalModels | eleven parts, 502 thousand states | `AssessmentsSound`, `TrustSound`, `PrivilegesHeld`, `RulesSound`, `RecordsSound`, `CacheServesFresh` |
| IpcModels | four parts, fair, 559 thousand states | `DispatchSound`, `StreamsSound`, `ConnectionsSound`, `IpcProgress` |
| ServiceModels | six parts, fair, 601 thousand states | `IntentSound`, `ServicesSound`, `ServicesProgress` |
| PlatformModels | six parts, 462 thousand states | `ClusterSound`, `FilesSound`, `RuntimeSound` |

The last four runs check modules that share no state. Each behaviour picks one
part and takes its steps only, so that the states of the parts add up instead of
multiplying, and every property is a conjunction that says which of its
conjuncts is about which part:

| property | conjuncts, by part |
|---|---|
| `AssessmentsSound` | `NoLoosening`: a request with more reason for concern never gets a laxer decision; `ScorersAgree` but where the two sources differ; `FloorsReachBands`: no hard floor ends in the band below its own; `EscalatorsStopped` |
| `TrustSound` | `LazyTrustExact`: trust computed on reading is trust halved at every tick; `SuspicionKept`; `CalFloorsHeld` across crashes, torn and edited files; `EventsCountedOnce` |
| `PrivilegesHeld` | `BudgetHeld`: risky actions outrun the budget only by the callers under way; `RecursionAccounted`: depth and rate, for agents that drop their guards |
| `RulesSound` | `FirstMatchWins`; `AppliedReviewed`: no change of policy before approval and delay; `FiltersAgree`; `DefaultThreatsSeen`: no added path hides a default one |
| `RecordsSound` | `ReplayAgrees` with the chain; `LineagesGrow`; `SnapshotWhole`: through power failures no torn or unacknowledged snapshot, and none missing once one was on the disk; `PointsAreLatest`; `CacheBookkeeping` |
| `DispatchSound` | `NonceOnce`: an envelope passes twice in the two known cases only; `DispatchEntitled`; `LimitsHold` |
| `StreamsSound`, `ConnectionsSound` | `StreamsFaithful`; `TablesAgree`, but for the clients an unregistration left when it was dropped; `EndsForAReason` |
| `IpcProgress` | a stop ends the task, heartbeats resume when the server is back for good, rounds and registrations end |
| `IntentSound` | `RepliesSound`; `ChoicesHonoured`; `OrderSound` |
| `ServicesSound` | `NoHastySwitch`; `LinesTried`, `RecordsHeld`, `WipedStaysGone`: what the index may lose or bring back, through crashes; `PoolTiles`, `LockedCounted`, `OwnersTrue`; `EditsKept`, `RowShown` |
| `ServicesProgress` | `RequestsEnd`: a request that waits for the parser is answered or its caller leaves |
| `ClusterSound` | `QuorumsMeet` in one epoch; `ReplicasOrdered`; `ComponentsTrue`: the detector compares the connected parts |
| `FilesSound` | `JournalFollowsChecks`; `CacheCounted`: no fewer bytes than held; `LastDeleteKept` of a name and second; `ReadsCounted`, `EdgesCounted` |
| `RuntimeSound` | pool, requests and contexts keep their accounts, no VM is overtaken; `ApprovalEarned`, `CommandsSound`, `RestartsBounded` |

Bounds. Three tasks are the least with a join, a fork and a task that is
neither; two requests are the least that contend for the mutex; one orphan
outlives the request that left it. Two writers and two requests suffice for
every race between a pair of threads. Four entries pass the flush threshold (2)
twice; AuditShared rotates a file with any line (`MaxLogLen = 0`), so that three
rotations, one more than the files kept, fit in four entries. `MaxTypeAhead = 1`
is a user who waits for the screen before the next key. Symmetry is used only
where no liveness is checked. Deadlock is checked in the runs of the core; in
the last four a part stops when its counters reach their bounds, and they say
so. Their bounds are the least that let each case happen: an eviction needs one
key more than the cache holds (`CacheCapacity = 2`, three keys), a lag one event
more than the ring (`BusCapacity = 2`), hysteresis a change of candidate inside
its three periods, an expired entry one tick more than its time to live, a
quorum that is not a majority four nodes, an autonomy budget exceeded two
callers, a sandbox all five of its restarts.

The remaining runs expect a violation, each of what a comment or a document of
the repository says (quoted in `PROJECT.json` under `findings`):

| run | what the code does |
|---|---|
| AuditInterleaved | two appending threads write lines in another order than they chained them, so `verify` fails |
| ApprovalAuto | the second grading approves by itself what the first one said needs the user |

Other assumptions of the passing runs are needed too, and a change of a
constant shows why:

- `Ops = {"rotate"}`: after a rotation the new file does not start at genesis,
  and `verify` fails for good (`QuiescentVerifies`).
- two requests on the terminal: with two prompts waiting the answer goes to the
  other one (`ExplicitApproval`), and a prompt has no timeout (`DaemonAnswers`).
- `QuitEnds` of `ApprovalFlow`: `[q]uit` hangs in the join of the accept thread.
- `Ops = {"crash", "crash_in_flush"}`: a crash between the lines and the tip
  leaves a log that no longer verifies (`QuiescentVerifies`).
- `Ops = {"daemon"}`: a line of the approval daemon, which has no chain hash,
  breaks verification of the same file (`QuiescentVerifies`).
- two threads and `NoFalseAlarm`: `verify` reads the two files without the lock,
  and a flush in between is reported as tampering.
- two threads and `TipOnDisk`: an entry that is chained and not yet queued is
  already the tip that another thread's flush persists.
- `MaxTypeAhead = 2`: a buffered key answers a dialog that was not on the screen
  when it was typed (`ExplicitApproval`).
- `LogWritable = FALSE`: `audit_entry` ignores a failed write and the approval
  takes effect unlogged (`AuditedFirst`).

Every property of a passing run has a mutant, an operator that changes a mapped
definition as a plausible bug would ("Mutant:" in the modules), which TLC
refutes under the same configuration.

### Where the code departs from its documents

No run is spent on the following: each follows from the code at once or belongs
to a crate nothing calls. The models do what the code does, and the properties
claim no more than that leaves true.

HAL
- `recursion_limiter.rs:91` says that `release()` is equivalent to dropping the
  guard. It marks the guard, whose drop then leaves the depth counted: after
  `max_depth` releases the agent is refused for good. `RecursionAccounted` is
  about agents that only drop.
- `authority_compressor.rs:17-19` says that the time to live is not yet enforced
  on read; line 264 enforces it.
- `existential_governor.rs:11-13` and `68-71` say that all threats to protected
  resources are Catastrophic. A path a caller adds outside the default ones is
  classified Safe (lines 152, 215), and a threat whose switch is off is only
  Threatens. `DefaultThreatsSeen` is about the default paths.
- `meta_governance.rs:14` demands that a change is recorded in the audit chain;
  line 227 keeps a string in the proposal. Line 17 says the 24 hours are not
  enforced; `apply` enforces them.
- The budget of the autonomy controller is read at the highest level only, and
  asked about and paid in two calls (`can_auto_execute`, `consume_budget`).
- `continuity_engine.rs:97-99`: the write is atomic, and no torn snapshot is ever
  read. It is not durable: the directory is not synced, so that a power failure
  may bring back the snapshot before an acknowledged one, or none.

Services and transport
- `daemon.rs:77` and `125` ask that a new scenario be stable before a switch. The
  timer runs on across candidates and overrides, so that the scenario switched to
  may have been detected once. `NoHastySwitch` states what is left.
- `drain_queue` truncates the queue although the indexing of a line failed
  (`indexer.rs:132`, `136`) and although lines were appended since its last read;
  `wipe_domain` rewrites the store in place, over what a drain appends.
- `IpcRuntime::unregister_agent` removes the entry before it awaits the lock of
  the clients (`runtime.rs:193-198`): a caller that gives up there leaves a
  client that nothing removes until the agent is registered again.

Platform
- `state_sync.rs:1-9` and `147-149` promise merges by timestamp and of sets and
  counters. `merge` adopts what is missing and keeps the local value of
  everything else; it is not modelled.
- `agent_topology.rs:7-9` and `100` promise that stale edges are pruned before
  the search. Nothing is pruned, so a partition is only seen once the local node
  itself was taken out, and `last_result` is never cleared. What is checked is
  the search (`ComponentsTrue`).
- `quorum.rs` refuses neither a supermajority of half or less nor a fraction that
  is NaN; two such quorums need not meet.
- `cache.rs:220` and `325` call `current_bytes` the bytes held. Replaced and
  evicted entries stay counted, and eviction is first in, first out.
- `security.rs:14-16` says that `check` lets every unrestricted path pass. An
  agent unknown to the lattice is refused everywhere, and the overlay's own is
  unknown, so nothing is journalled (`overlay.rs:7-9`), unless it is granted
  something; and then the journal is in memory only and the result of the append
  is ignored.
- `fuse_overlay.rs:11` says that deletes move files to the recycle directory.
  Those in `/tmp`, tiny ones and those listed when the process started are
  removed, and two files of one name deleted in one second overwrite each other.
- `model_pool.rs:295-296` calls eviction always safe. A model released more often
  than acquired is unloaded under another client; a file whose size cannot be
  read counts as no bytes.

### What else the models show of the code

Each of these is how the code behaves, read while it was modelled. Where a
property would exclude one, the property names the case.

HAL
- `restore` ignores `RequiresHumanApproval` and puts no state back;
  `reconstruct_state` stops at the first entry with a later stamp, although an
  earlier one may follow it. `RestraintRuntime::evaluate` does not read the
  disabled actions.
- The weight of helpfulness is learned and never read.

IPC
- `AuthInterceptor::intercept` blocks itself on an expired token: it removes an
  entry while it holds a reference into the same map (`interceptor.rs:55-61`).
- Two concurrent validations of one envelope both pass (`auth.rs:81` and `90`),
  and so does one from the future at the limit of the skew, once its nonce has
  been evicted. `requested_capabilities` is not signed (`envelope.rs:60-71`).
- `cleanup_stale` removes an agent whose heartbeat came between its two locks;
  a heartbeat of an unregistered agent is accepted.
- The supervisor writes the number it took from one registration into another
  that replaced it meanwhile (`runtime.rs:146`).
- `IpcRuntime::shutdown` awaits tasks that nobody tells to end, so that its
  first call times out. Its log line says that they are cancelled on drop, but a
  dropped tokio handle detaches its task; a second call drops the clients and
  answers Ok with the supervisor running.

Approvals
- A dialog whose daemon thread has timed out stays in the watch's queue; the
  answer to it is shown as given, and goes nowhere.

Services
- A cache hit returns the `intent_id` and the session of the first request, and
  plain misses are not counted.
- An override that ends before the next tick leaves its policy in place; a knob
  that could not be written is not tried again. `run(&mut self)` excludes
  `apply_user_override`, and `scheduler_main` does not start the daemon.
- The VibeCoding policy asks for 6.0 GB where `resource_policy` allows 4.0; an
  override checks only the CPU weight. The predictor always says GeneralUse.
- An intent with a single candidate is neither asked about nor resolved; a torn
  file of choices forgets all of them.
- `wipe_domain` may resurrect records that another wipe removed. Releasing a
  size that is no multiple of a block makes pool handles overlap; dropped
  buffers stay counted; the limit of locked pages is checked before rounding;
  isolation regions overlap.
- Concurrent `cognos` edits lose updates (`main.rs:295-309`, `457-475`). `curl`
  without `--fail` reports an error page as downloaded. A `result_json` that is
  not JSON exits Ok. `[vllm]` of the config overrides `[llama]`. The guard that
  restores the terminal is dropped at the end of `Tui::new`; the selected row
  survives a change of tab.

Platform
- `anfs`: the overlay passes bare names, which no restricted path matches; a
  journal entry stays although the operation answers ENOSYS; a flush clears the
  dirty mark without a write.
- `memory/anfs`: every inode is taken for the root; the protection list is read
  at start-up only; the access count on disk is that of the last batch that was
  written; failed writes of it, of the index queue and of the audit line are
  ignored.
- A model kept after its release holds memory nobody counts; a dropped future
  leaves its id in flight; the cancel flag is never read.
- VM capabilities are always granted, and a faulted VM becomes halted again.
- A package with camera access alone may still be approved automatically;
  `remove` tries Flatpak only when apt-get cannot be run, and exits with success
  when it failed; `start` marks a sandbox Running and returns StartFailed; a
  restart dropped in its back-off is not counted.

### Fairness

`Orchestrator!Fairness`: the handler takes its next step (RPCs time out after
10 s, the approval wait after `COGNOS_APPROVAL_TIMEOUT_SECS`; the agent process
is assumed to exit, since the executor awaits it without a timeout), and a
waiting request gets the mutex if it is free again and again (tokio's mutex is
FIFO). Clients owe nothing. `ApprovalFlow!Fairness`: the daemon's threads and
the watch loop run and the 30 s read timeout fires. The user owes nobody an
answer, and processes need not restart.

`MCIpc!Fairness`: the connection task runs (weakly fair); a branch of its
`select!` that is ready again and again is taken, because tokio picks among the
ready branches at random (strongly fair: the stop and the tick); the supervisor
and the operators get the locks, which are FIFO (strongly fair). The server owes
nothing: what must resume is only claimed once it stays up.
`MCServices!Fairness`: the parser's mutex is FIFO (strongly fair) and an
inference ends, by its HTTP timeout at the latest (weakly fair). Callers owe
nothing.

## 4. Proofs

TLAPS proves the theorems listed in `PROJECT.json`, for every value of the
constants. Each module of proofs goes the same way: an invariant that is
stronger than the property and inductive, which TLC checked first on the run's
instance; one lemma for the initial states; lemmas for the steps, one per action
or per group of actions that disturb the same conjuncts; and the property as a
consequence. The inductive invariants stand in the modules they are about, next
to the properties.

**ProofLemmas** holds the facts about data that the others share: what taking an
element out of a sequence or putting one in does to its other places, lists
without repetition and how long they are, sums over a family of numbers when
one member changes, leaves or is split off, that different ranks are all taken
(which makes sorting by rank a rearrangement), and that a search or walk written
as a recursive function has the value its definition says. `FamilyInduction`,
`NatSetInduction`, `IterationExists` and `WalkExists` state induction over a
family of sets or numbers instead of a predicate, because a theorem with an
operator parameter cannot be applied here.

**OrchestratorProofs**: `Invariance` (`IndInv`), and from it `TypeCorrect`,
`GateSafety`, `DependencySafety`, `ExecutedOnce`, `MutualExclusion`,
`TruthfulReports`, `PlansInstall`. The safety properties are not inductive: that
a task starts once rests on the queue holding a task only while it is Ready and
once (`QueueInv`); that predecessors succeeded, on a node leaving Pending only
then (`GraphInv`); that a success report covers every node, on each unfinished
node being blocked, queued or current (`ProgressInv`). A graph with an empty
queue and only successes would otherwise have a set of blocked nodes each
waiting for another of the set, which is what `HasCycle` excludes. `PlansInstall`
needs that the empty graph accepts any plan the validator found acyclic.

**AuditLogProofs**, under `SingleWriter` (one thread, no rotation, no crash
inside a flush, no daemon lines; section 3 shows that each of these is needed):
`WriterInvariance` (`WriterInv`), `SingleWriterVerifies`,
`SingleWriterNoFalseAlarm`, `SingleWriterVerdictExact`, `SingleWriterTipOnDisk`.
The invariant says that the unedited file and the pending entries form one chain
whose ends are the tip and previous_hash, except inside the operations that move
them. `ExactInv` adds what a verification in progress has read: its verdict is
about the file as it is, because nobody else writes.

In the same module, for any number of threads: `LogTypes`, with every kind of
operation; `EntriesAccounted` and `ChainNeverForks` under `SharedAppends` (no
wipe, crash or edit). `SharedInv` says that every body that was given out is in
one place, a thread's hands, the pending list or a file, and that the heights of
the chain along file and pending list are those of the entries built, in some
order: two entries with one predecessor would share a height.

**ApprovalFlowProofs**: `AuditInvariance` (`AuditInv`), `ApprovalsAudited` (under
`LogWritable`), `VerdictsFinal`, `FlowTypes`; `DialogsHeld` by `DialogInv`, which
counts backlog, channel and queue as one list without repetition; and
`ApprovalsExplained` by `ScreenInv` and `ConsentInv`, which need no assumption on
the constants: a request that counts as approved was allowed while it was on the
screen (`consent`), or no dialog of it was ever on a stream and it came by the
second grading, where $HOME is on the dangerous list, or by a terminal prompt
(`Unseen`). The one hypothesis is about the user, that no second key is typed
while one is unread; section 3 shows it to be needed. `ApprovalsExplicit`, where
neither way round the watch is open, is its corollary. Of a key on its way,
`ScreenInv` knows that it is about the dialog on the screen.

**HalProofs**: `CacheInvariance` and `CacheImplementsMemo`, the refinement step
by step: the cache's map and its eviction list name the same digests once each,
and what is cached is what was stored last (`CacheCurrent`). `InitiativeBounded`,
`RulesInForce`, `RecordsReadable`, `AssessmentsHold`, `FloorsHeld`,
`SuspicionHeld` rest on one invariant per component: `BudgetInv`, `DepthInv`,
`RateInv`; `PoliciesInv` (installed policies are sorted, each once),
`ChangesInv`, `GuardsInv`; `ChainInv` (each entry links to the one before),
`IdentitiesInv`, `SnapshotsInv` and `SettledInv` (what a power failure can leave
is whole, and is there once a write has reached the disk), `PointsInv`; `CalInv`;
`SuspicionInv`. That no decider loosens is a fact about operators, proved for all
risks and confidences between 0 and 1; that a floor reaches the band it stands
for is `FloorsHold`. `TrustHolds` adds what `FloorsHeld` and `SuspicionHeld`
leave of `TrustSound`: `LazyInv` says what has decayed since an agent's trust was
last written down, with powers of two as a recursive function and their laws as
lemmas, and `ActivityInv` counts every event once, as a sum over open and closed
windows. `HalTypes` is the type invariant of all of them: it needs those
invariants and the bounds `DepthBounds`, `ContinuityBounds`, `RecordsBounds` and
`TrustBounds`, of which the last carries the reputation's clamp and its pull
towards neutral. The module assumes that the actions scored are ones an agent can
propose (`AssessAssumption`), that protected paths of the configuration are not
those protected by default (`GuardsAssumption`), that policies have finitely many
identifiers (`GovernanceAssumption`), and that there is a root identity.

**IpcProofs**: `IpcTypes`; `ConnectionsKept` from `ConnectionInv` (who sleeps has
attempts left) and `RuntimeInv` (which agent the lock's holder has changed in one
table and not in the other, and whose client was left behind); `StreamsComplete`
from `BusInv` (a receiver's next index between its first and the end, a call
answered after it was published); `DispatchesEntitled`, without assumptions; and
`DispatchesSound`, from `NoncesInv`, under `NoncesUnique` (one nonce, one stamp)
and `KeptLongEnough` (nonces are kept for twice the skew, as the code's constants
are).

**ServicesProofs**: `ServicesHold`, `IntentHolds` and `ServicesTypes`, from
`ServicesInv`, one invariant per service. `SchedulerInv` says that the timer is
never ahead of the last tick that agreed with the current scenario; `IntentInv`
says of each reply and each cache entry which request, input and confidence it
came from, and of the holder that only it can insert; `ChoicesInv` compares
memory, file and what the user chose. `IndexInv` accounts for every line that was
enqueued (in the queue, tried, or late for its drain) and for every record that
was written (in the store or in the hands of a wipe, wiped, raced or torn);
stamps differ. `PoolInv` is the tiling of the arena by the free list and the
handles as lists, so that two equal blocks count twice: acquiring splits a block
(`TiledMoved`) and sorting by offset rearranges (`ByOffsetPermutes`). `LockInv`
sums the live buffers, and rounding adds less than a page to a request or a page
to an empty one. `CommandInv` says that edits that do not overlap are one at a
time. `OrderHolds` is about Kahn's algorithm alone, for every finite graph:
placed and queued nodes are listed once and wait for nobody, every other node
waits for one that is not placed (`KahnKept`); so when the queue is empty, the
nodes left over are a set each of which depends on another of it.

**PlatformProofs**: `ClusterHolds` (`QuorumInv`, `ReplicaInv`, and `TopologyInv`:
the mesh is a star around the local node, with nodes beside it once that was
taken out),
where quorums meet because two sets of more than half of the members do;
`FilesHold` (`JournalInv`, `CachesInv`, `DeletesInv`, `GraphInv`, `ReadsInv`),
where the bytes counted are never fewer than the sum over the cached keys, and
evictions are a walk along the list that stops when there is room;
`RuntimeHolds` (`PoolInv`,
`CallsInv`, `WindowInv`, `TurnsInv`, `CommandsInv`, `RestartsInv`); and
`PlatformTypes`. Clusters, meshes, clients and models are finite sets.

Assumptions are the named ASSUMEs of the specifications, which TLC evaluates:
the "no value" constants are not members of the sets, flags are Booleans, bounds
are naturals; and the hypotheses named above, which stand in the statements of
the theorems they belong to.

Only model-checked:

- Liveness: `Answered`, `DaemonAnswers`, `IpcProgress`, `ServicesProgress`. The
  prover has no rule for fairness.
- That `SelectSeq`, `SortSeq` and `FoldLeft` return what they do: the prover does
  not expand them, so modules with theorems define what they need of them.

## 5. Plan

Done: the core (`TaskGraph`, `Orchestrator`, `AuditLog`, `HalPolicy`,
`ApprovalFlow`), HAL's models, IPC, the services and the platform crates, each
with its run; the refinement of the verdict cache; the theorems of section 4.

Left, in order of importance:

1. `GatedExecution`: an abstract specification (asked, decided, run or refused)
   that `Orchestrator` and `ApprovalFlow` are shown to implement.
2. A reference check of `topological` against `HasCycle`; library calls of the
   runtime (`cancel`, `status`, `shutdown`); write errors of the audit log.

## 6. Not modelled

- Model inference, tokenizer, embeddings and other numeric code (`llm`,
  `memory`'s embedder and tag engine, `trust_heuristics.rs`, the statistics of
  `anomaly_detection.rs`): their results are inputs of the models.
- Stubs, which change no state yet: `consensus.rs`, `state_sync.rs`'s merge,
  `mesh_router.rs` (a message is checked and not sent), the backing store of
  `anfs`, the chromadb bindings, the isolation back-ends of `hypervisor` and
  `unipkg`, the governance compiler.
- `agents/shared/ipc` is a copy of `ipc/agent-ipc`, and the maps name the latter.
- HAL's permission tables (`permissions.rs`, `capability_lattice.rs`): one-step
  lookups and insertions that nothing in HAL composes.
- `provenance.rs` as a chain validator and `grpc/src/pipeline_metrics.rs`, whose
  latency sums only feed reports.
- Pure I/O: TLS, telemetry, drawing code and user interfaces, parsing of the
  output of package managers, start-up wiring (`orchestrator_main.rs`).
- Generated protobuf code; kernel, image and packaging scripts; the Python
  agents. What the file agent does to files is its own process; what is modelled
  is when it may start.
- Write errors of the audit log, malformed frames on the approval socket, and the
  bound on connection threads, which the code does not have.

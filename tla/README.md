# Kron in TLA+

TLA+ models of Kron (`src/`), a durable timer engine in Rust with Python
bindings and an experimental Raft-backed server mode. The models are checked
by TLC on small instances; the safety properties of the embedded engine, of its
log and snapshots, of the server's run state machine, of its Raft file store, of
its audit log and of the legacy cluster engine are also proved with TLAPS for
every value of the constants.

Paths below are relative to `src/`; `core/` stands for
`crates/kron-core/src/`.

## 1. Inventory

### The system's parts

| Part | Source | State | Operations |
|---|---|---|---|
| Embedded engine | `core/engine.rs`, `state.rs`, `heap.rs`, `timer.rs`, `clock.rs` | one mutex over `Inner`: `EngineState` (specs, states, next runs, pending retries), a heap of scheduled runs, a registry of callables, runtime flags | `open`, `schedule`, `start` (background loop), `run_timer` (one Tokio task per popped entry), `shutdown`, `compact`, `status`, `list` |
| Schedules, retry | `core/schedule.rs`, `retry.rs` | none | next occurrence of every / cron / at / after; backoff |
| Log and snapshots | `core/log.rs`, `snapshot.rs`, `event.rs` | `kron.aof`, `kron.aof.old`, `kron.snapshot` | append with fsync, replay with a tolerated tail, load, compaction online and by the CLI |
| Replicated state machine | `core/openraft_adapter/file_store.rs` (`apply_kron_command`) | timers with fencing tokens, active runs, queue of replacements, history | create, claim, complete, fail, expire (cancel, pause, resume, worker and node commands) |
| Raft file store | `core/openraft_adapter/file_store.rs` (the rest) | vote, commit index, state and manifest files, log segments | save vote / committed, append, truncate, purge, apply, install snapshot; `persist` |
| Server runtime | `core/openraft_adapter/runtime.rs` | leader's view of the state machine, claim lock, lease task | create timer, poll, complete, fail, expire leases; HTTP routing, tokens, membership |
| Raft network | `core/openraft_adapter/network.rs` | none | HTTP client for OpenRaft |
| Legacy cluster engine | `core/cluster.rs` | `ClusterState` under one mutex (timers, next runs, workers with leases, pending and active runs, fencing tokens, peers), the file `kron.raft.aof` under another | `create_timer`, `register_worker`, `join`, `leave`, heartbeat, poll, complete, fail; a scheduler thread; replay at open. Predecessor of server mode; its `RaftCommand` type is shared |
| Audit log | `core/audit.rs`, `authed` and `audit` of `runtime.rs` | hash-chained `kron.audit.jsonl`, sequence number and hash of the last record under a mutex | record (end of every HTTP handler), verify, read back at startup |
| Local IPC | `core/ipc.rs` | socket | status, list, history, shutdown, compact requests |
| Python bindings | `crates/kron-py` | a global runtime handle and registrations under a mutex, callables; a distributed worker | start, schedule, shutdown wrappers; worker: register, poll, execute, report |
| CLI | `crates/kron-cli` | none | request dispatch, printing, offline compaction |

### How they interact

Callers (Python, IPC) call `schedule` and `shutdown` on an `Engine`; these, the
loop and the run tasks meet only in the mutex of `Inner` and in two `Notify`
objects (`notify` wakes the loop, `idle_notify` wakes `shutdown`). Every change
of `EngineState` is an event appended to the log before it is applied, so the
log is the state; snapshots shorten it. The server replaces the engine by a
replicated state machine: HTTP handlers read the leader's copy, compute a
command, propose it through OpenRaft and read the copy again; OpenRaft drives
the file store of each node, which also holds the applied state machine.
The legacy engine has neither engine nor Raft: its one leader sends a command
to each peer over HTTP, counts acknowledgements, appends the command to its own
log and applies it; claims and reports it only appends itself.

### What is hard, and what must hold

*Engine.* Runs of one timer, live re-registration, retries and shutdown
interleave at every critical section; flags are read under the lock and acted
on after it; a log append can fail anywhere. It is correct when overlap
policies are honoured, no timer or retry is forgotten, the loop does not sleep
through a due entry, `active_runs` is exact, and `shutdown` neither returns
early nor never.

*Log and snapshots.* A crash can come between any two durable steps of a
compaction and inside a line. It is correct when everything acknowledged is
recovered once and in order, and the directory opens.

*Run claims.* Commands are computed from a state that is old by the time they
are committed; answers get lost, leases expire while completions are under
way. It is correct when a timer has one active run and one live holder, a run
ends once, and an abandoned run does not block its timer.

*Raft file store.* One operation replaces four files and all segments, one
after the other. It is correct when a restart finds the vote, the commit index
and the state machine that OpenRaft was promised, and the log entries that
were acknowledged.

*Legacy cluster engine.* Threads append under one lock and apply under another,
answers of peers get lost, leases end in memory only, and a restart knows
nothing but the log. It is correct when a timer has one run, fencing tokens
grow, an accepted report is final, the log gives back what the leader holds,
and an answered request is on a majority.

*Audit log.* Handlers end in any order; a record and its newline are two
writes, and each may fail. It is correct when `verify` accepts whatever the
server wrote and nothing else, and an answered request is recorded once.

## 2. Modules

| Module | Models | Notes |
|---|---|---|
| `KronEngine` | embedded engine | one action per critical section; program counters for the loop, each task and each caller of `shutdown` |
| `KronEngineProofs` | | types, the skip policy, callables, `active_runs` and shutdown of `KronEngine` |
| `KronEngineQueueProofs` | | on top of it: the loop and the queue; delay timers and retries |
| `EventStore` | what storage promises | abstract specification: an append-only history |
| `AofStore` | log and snapshots | one action per durable step; implements `EventStore` |
| `AofStoreProofs` | | theorems about `AofStore`, its refinement of `EventStore` included |
| `RunClaims` | state machine and handlers of server mode | OpenRaft external: a set of proposed commands, committed in any order, or lost |
| `RunClaimsProofs` | | theorems about `RunClaims` |
| `RaftFileStore` | `KronRaftFileStore` | one action per durable step of `persist`; OpenRaft external: the protocol of its calls |
| `RaftFileStoreProofs` | | theorems about `RaftFileStore` |
| `ClusterEngine` | legacy cluster engine | one action per critical section of the request handlers, of workers' calls and of the scheduler thread; a log per node |
| `ClusterEngineProofs` | | theorems about `ClusterEngine` |
| `AuditLog` | audit log | one action per write; SHA-256 is collision-free |
| `AuditLogProofs` | | theorems about `AuditLog` |
| `Recursions` | | lemmas that stand in for induction: `Least`, `Recursion` |
| `MC*` | | instances for TLC |

Operators whose comment starts with `Mutant:` are faulty variants of the
definition that follows them. They are part of no specification; substituted
for that definition they must make a property fail, which shows that the
property depends on it.

### KronEngine and the code

The variables are the fields of `Inner` and `EngineState`, the locals of the
loop that live across a critical section (`due`, `wakeAt`), the run tasks, and
the callers of `shutdown`. Correspondence of the actions:

- `ScheduleTimer` is `schedule_with_overlap`: resolve the overlap policy, write
  `TimerCreated` or `TimerUpdated`, clear the heap of an updated timer, bind
  the function, push the first run if `next_runs` has none, `notify_one`.
- `LoopExit`, `LoopPop`, `LoopCount`, `LoopSpawn`, `LoopDrop`, `LoopPark`,
  `LoopWakeByTimer`, `LoopWakeByNotify` are the loop of `start`. A popped entry
  is counted under the lock (`LoopCount`) and spawned after the unlock
  (`LoopSpawn`): a shutdown announced in between does not keep it from running,
  and is what `active_runs` must make `shutdown` wait for. `notify_one` leaves a
  permit; `notify_waiters` wakes only who is already waiting.
- `RunSkip` and `RunStart` are the first critical section of `run_timer`,
  `RunSucceed`, `RunRetry`, `RunDie` the last; `RunStartFault` and
  `RunFinishFault` are the early returns of both when an append fails. The
  task keeps the copy of the spec it was started with, as the code does.
- `ShutdownCall`, `ShutdownSignal`, `ShutdownCheck`, `ShutdownArm`,
  `ShutdownTimesOut`, `ShutdownFinish` are `shutdown`; reading `active_runs`
  and creating the `Notified` future are two steps because they are in the code.
- `Reopen` is the end of the process and `Engine::open`. An event whose append
  reported an error may be in the file all the same; `ReplayUnacked` is its
  replay, of the end of a run or of the spec of a `schedule` call.

Abstractions: time is a bounded natural number; a cron schedule is a grid;
`after` behaves like `at`; a schedule of kind `Never` is one whose
`next_run_after` gives `Err` or `None` (a cron expression or time zone that does
not parse, a date that does not exist): `schedule` accepts it and queues nothing;
the saturating operations of the backoff are exact integers, which the cap makes
equal; a run id is drawn from a finite set when its entry is pushed and returns to it when nothing refers to
it, so `RunIds` bounds the runs alive at once, not the runs of a behaviour.
`TimerPaused`, `TimerCancelled` and their kin have no caller in the code.

### AofStore and the code

A state is the sequence of events it was folded from. A file is a sequence of
pieces: a line, a line without its newline, a fragment, or a fragment cut inside
a multi-byte character, on which `lines()` fails (`core/log.rs:80`). Sizes are
kept because `load_state` compares `last_aof_offset` with the length of the file;
`Ends(f)` has the offset after each piece.
`CompactSnapshot` to `CompactReset` are the durable steps of
`snapshot::compact`, `CompactReopen` is the end of `Engine::compact`;
`OfflineCompact` starts the same steps from the CLI. `CompactFails` is an error
of the step that `pc` names: the engine goes on, with the file handle it has
(`handle`). `AppendCrash` and `AppendError` leave any part of the line; after
`AppendError` the engine goes on too. A crash keeps completed system calls in
order (`append` and the snapshots are fsynced).

`append` checks nothing before it writes, and neither does the model. Some writes
go where the next `load_state` will not look, or make a file it cannot read:
behind an unfinished line (finding 2), up to or past the offset of an interrupted
compaction (finding 3), to a file that was renamed under the handle, or a cut
inside a character. `Harms` lists these writes and the history variable `harm`
remembers them: `files` while the process that made one is still up (it has
everything in memory, and its next compaction makes it durable again), `lost`
once it ended before that. No guard depends on `harm`.

`EventStore` is the promise: an event that is acknowledged is added at the end
and stays; a restart may bring in an event that was written and not acknowledged.
The promise lasts while the history is `intact`, which `AofStore` maps to
`harm # "lost"`.

### RunClaims and the code

`Apply*` are the arms of `apply_kron_command` for the commands that move runs;
`CreateTimer`, `TryClaim`, `ClaimReturns`, `ClaimErrors`, `CompleteRun`,
`FailRun`, `ExpireLease` are the handlers and the lease task. A proposed
command waits in `inflight` until `Commit` or `Lose`. A handler and the commit
of its command are separate actions, so every race between reading the state
and applying the command is covered. `Abandon` is the worker of the Python
bindings (`execute_run`) that does not know the task or whose report fails: it
lets go of the run and says nothing. `Rescheduled` is a set because
`reschedule_timer` drops the next run of a timer whose schedule has none any
more. `reused` is history: the timers for which a token may have been given out
twice, because they were created anew or a claim was granted after the token it
was computed from had moved on (`TokenReused`). Worker registration, heartbeats,
nodes and the history list do not influence runs and are left out.

### ClusterEngine and the code

`st[n]` and `log[n]` are the `ClusterState` and `kron.raft.aof` of node `n`;
`Apply` is `apply_command`, and `Replay` applies the lines of a log one after
the other, as a recursive function over their positions. A timer recurs or has
one of the `Moments`; `past` says which of them are over, the only thing either
reads from the clock, so a timer created anew with a later moment is scheduled
again.
`RemoveNode` drops one entry of the peers where the code drops all equal ones:
no node is listed twice (`NodeInv`, a part of `TypeOK`). A request of
`create_timer`, `register_worker` or `join` is a thread of the leader
(`calls`): `BeginReplicated` takes the peers, `ReplicateSend` and
`ReplicateApply` are the append and the change on the next peer, after which
the answer arrives or not, `ReplicateUnreachable` a peer that is skipped,
`QuorumFails` and `QuorumAppend` the end of `append_replicated_command`, and
`ApplyOwn` the change the handler makes under the lock it took again.
`BeginLocal` is the path of a `try_lock` that fails, and `leave`.
`HeartbeatWorker`, `ClaimPending`, `CompleteRun` and `FailRun` hold the lock
throughout. `EnqueueDueRuns` and `LeaderExpires` alternate as in the scheduler
thread, which looks at `shutting_down` at the top of its loop only: leases are
expired in the pass in which a shutdown comes. `OccurrenceDue` and `MomentPasses` are the wall clock; `FollowerExpires` is the same thread on a follower. `Restart` is a crash
between two steps and `open_with_leader`, `Torn` one inside `write_all`;
`ClaimUnsynced`, `ReportUnsynced` and `RequestUnsynced` are the errors of
`sync_data`.

Abstractions: a next run waits for the occurrence or moment it is named after
or is `due`, a worker's lease is `live` or `lapsed`, a run's lease is over when it
is in `overdue`. `pending` is a set, every worker serves every task, and
`max_attempts` is one constant. Left out: the commands no handler of
`cluster.rs` produces (cancel, pause, resume, expiry of a lease as a command),
`kron.cluster.json` (written, never read), the history, HTTP and the token
file. A peer does not crash between its append and its change.

### AuditLog and the code

`Decide` is `authed` up to its call of `audit` (authentication, the role, the
operation itself); `WriteRecord`, `WriteNewline` and `Sync` are `audit`, the
first two being the two writes of `writeln!`; `AuditFails` is each of its early
returns, after which `audit_state` is unchanged and the file keeps what it has.
`Verify` and `LastState` are `verify` and `read_last_state_unverified`; `Open`
is the part of `OpenRaftCluster::open` that uses them. The hash of a record is
what it covers: the hash before it and the record's own content, so the whole
chain up to it. A record may be cut between two characters, which both readers
ignore at the end of the file, or inside one, on which they fail.

### RaftFileStore and the code

`mem` is `PersistedRaftStore`, `json`, `manifest` and `files` are the
directory, `done` remembers the store as of the last operation that returned.
An operation changes `mem` and starts `persist`: `WriteVote`,
`WriteCommitted`, `WriteState`, `RemoveSegment`..., `CreateSegment`,
`WriteRecord`, `RotateSegment`, `FinishSegments`, `WriteManifest`. `Crash` may
come between any two, and inside a record. `Readable` is the verdict of
`read_log_segments` and `read_segment_file`: a listed segment must exist, a
cut record is ignored unless it is the first of its file. Records have equal
size, so `LOG_SEGMENT_MAX_BYTES` is a number of records. Corruption other than
truncation and loss of power are not modelled.

## 3. Runs

| Run | Checks | Shows |
|---|---|---|
| `engine_policies` | `TypeOK`, `RunsHaveFunction`, `RecurringNeverStalls`, `NeverOversleeps`, `NextRunIsQueued` | one timer whose callers switch policy and schedule while it runs, also to a schedule without a next time, a failing append and a restart |
| `engine_live` | `ActiveRunsCounted`, `ShutdownWaits`, `SkipNeverOverlaps`, `DelayNeverOverlaps`, `RetryIsQueued`, `AttemptTracked`, `DueRunBegins`, `ShutdownReturns` | a caller of `shutdown` against the loop, the runs and retries of a timer of each policy, and a failing append |
| `engine_allow_retries` | `RetryNeverDropped` violated | finding 1 |
| `store_compaction` | `TypeOK`, `AckedRecoverable`, `IsAppendOnlyHistory` | three crashes anywhere in appends and compactions, a line cut in any way, a failing append, a compaction that fails at any step |
| `store_crash_tail` | `NeverRefuses` violated | finding 2 |
| `store_outgrown` | `AckedIsDurable` violated | finding 3 |
| `claims_protocol` | `TypeOK`, `OneActiveRunPerTimer`, `OneLiveHolder`, `StaleHolderFenced`, `RunEndsOnce`, `LeaseIsReclaimed` | two workers, a timer that is created anew, a lost command; fairness for the lease task and its commits |
| `claims_replacement` | `ReplacementIsReclaimed` violated | finding 4 |
| `raft_store` | `TypeOK`, `LogIsContiguous`, `AppliedOnce`, `PurgedIsApplied`, `RaftStateKept`, `NothingResurrected` | two crashes at any step of `persist` |
| `raft_store_committed` | `CommittedIsKept` violated | finding 5 |
| `audit_chain` | `TypeOK`, `ChainVerifies`, `AnsweredIsRecorded`, `ChangeIsDetected` | four requests in any interleaving, two crashes, a failing write, tails that are text or not |
| `cluster_legacy` | `TypeOK`, `OneRunPerTimer`, `ReplayKeepsClaims`, `ReplayKeepsTimers`, `EndedStaysEnded`, `AnsweredIsOnMajority`, `TokensGrow` | two request threads, a peer and a worker, recurring and one-shot timers, with lost answers, ending leases, and a crash, a torn line, a failed sync or a shutdown |

Deadlock checking is off everywhere: every model has bounds (time, run ids,
crashes) at which it stops, and a refused store stays refused.

### Bounds

*Engine.* In `engine_policies` three run ids let a timer have a running callback,
a queued next run and a third one popped or retried, and two ticks let a retry and
the occurrence it collides with fall due. One fault lets a restart replay an event
that was not acknowledged. In `engine_live` retries are due at once, so that two
ticks also reach the occurrence after the collision, and
five run ids are more than can be alive, so that no step of which fairness is
assumed ever waits for an id. Two attempts separate a retry from the last
failure. One closer is enough because callers of `shutdown` do not wait
for each other: each sets flags that stay set and waits for the runs.

*Store.* Three crashes interrupt a compaction, its recovery and the compaction
after that; four events suffice for events in the snapshot, in the old log, in
the new log and cut at its end. The `Varied` sizes let one event, or two, bring
a log created anew up to the offset an interrupted compaction recorded, or past
it; `Cuts` names the ways in which a line may be cut and `FailSteps` the steps of
a compaction that may fail, all of them in `store_compaction`.

*Claims.* Three runs: an ended one, an active one and a late claim. Two
creations let a timer be re-created under an active run (`creates` counts them
per timer). Timers only share the supply of run ids, so one is enough; the
safety properties are also proved for any number of timers and workers.

*Audit.* Four requests: one before, one during and one after a fault, and one
that waits for the lock. Requests are symmetric.

*Legacy cluster.* Two run ids: one that ends or is taken back and the one after
it. Two request threads and two requests let each pair of requests race, and
`MaxEvents` bounds runs, requests and faults together at three, so that an
expired run, an ended one and a crash, or two racing requests and a crash, meet
in one behaviour. Two nodes make a majority both; a leave followed by other
requests gives a leader alone. Two moments let a timer be created anew with
another one, passed or to come. Nothing counts beyond that: leases, replies and
occurrences are unbounded. Request threads and moments are symmetric.

*Raft store.* Three entries in segments of two need a rotation; two terms let an
index be written twice; a second crash can hit the rewrite that follows the
first recovery.

### Fairness

`engine_live` assumes that the Tokio runtime polls the loop and every spawned
task up to its call of the user's function (by `RunSkip` or `RunStart`: a failing
append is not what a due run may rely on), that a caller of `shutdown` which
can move moves and that its timeout elapses. It does not assume that callbacks
return, that anybody calls, or that time passes. `claims_protocol` assumes that
the lease task, which runs every 250 ms on the leader, proposes an expiry while
a lease stays expired, and that OpenRaft eventually commits that proposal;
workers and clients owe nothing.

## 4. Proofs

All obligations are discharged by Z3, Zenon and the PTL backend. The assumptions
are the named `ASSUME`s of the models: a finite set of run ids, bounds that are
natural numbers and positive where the code divides or counts by them, subsets
of the right sets, finite sets of nodes and timers, and a `NoRequest` that is no
request. Every inductive
invariant below was checked by TLC on the instances of section 3 before it was
proved.

### Engine (`KronEngineProofs`, `KronEngineQueueProofs`)

- `TypeCorrect`: `Spec => []TypeOK`.
- `SkipSafe`: `Spec => []SkipNeverOverlaps`. That two
  callbacks of a skip timer are the same is not inductive: `run_timer` decides
  from `states[t]`, so the invariant `SkipInv` adds that whatever waits or works
  belongs to a stored spec (`SpecsKnown`), which stays `Skip` where callers ask
  for nothing else or do not ask again once the loop runs (`Settled`,
  `SkipKept`; `Anchored` says that there are no runs before that), that the
  state of a skip timer with a running callback is `Running`
  (`CallingIsRunning`), and that there is one such callback (`OneCalling`).
  Only a finishing callback takes the state away from `Running`, and it is the
  only one.
- `CountSafe`: `Spec => []ActiveRunsCounted`, the run between its count and its
  spawn included. Counting needs
  that the task set is finite and that a spawned entry is not already a task;
  `RunIdsApart` (no two entries or tasks share a run id) gives the latter, and
  is preserved because ids are fresh and a retry reuses the id of the task
  that ends.
- `FunctionSafe`: `Spec => []RunsHaveFunction`. `Anchored` says
  that the timer of every entry in the heap, with the loop or in a task is
  registered, `SpecsKnown` that it has a spec. A retry is pushed by a task, so
  by a registered timer; only a restart empties the registry, and it empties the
  heap, the loop and the tasks with it.
- `ShutdownSafe`: `ShutdownWaits`. A caller decides from `active_runs` and returns
  later. `ShutdownInv` carries the decision across: a waiting caller has announced
  itself (`Announced`), so that nothing is counted any more, and a caller about to
  finish, or an engine that stopped without a failing append, has no task and none
  to come (`NoTaskLeft`). That `active_runs = 0` means this is `CountSafe`.
- `OversleepSafe`: `NeverOversleeps`. It is inductive once every step outside the
  loop is shown to add a heap entry only together with a permit
  (`PushesNotify`).
- `NextRunSafe`: `NextRunIsQueued`. A popped entry counts only until the loop has
  spawned its batch, so `QueueInv` adds that a batch exists only while the loop
  spawns. Each step forgets `next_runs`, backs it by a new entry or leaves both
  alone (`Settles`).
- `RecurringSafe`: `RecurringNeverStalls`. A task is not enough to keep a timer
  going: a started run of a skip or allow timer has queued the next occurrence
  already and queues none when it ends. `RecurringHeld` is the stronger fact: an
  entry, a run that has not started, or a started run whose copied spec says
  delay. A caller may meanwhile have switched the policy; the entry that
  `schedule` pushes or leaves then carries the timer.
- `DelaySafe`: `DelayNeverOverlaps`. `LoneInv`: all that waits or works for such a
  timer is one entry or one task. Before `start` every timer is like that, and
  its entry is known to `next_runs`, which is why a second `schedule` adds none.
- `RetrySafe`: `RetryIsQueued`, with `NoRetryYet`: a timer that never ran has no
  pending retry. A failing run replaces the pending retry of its timer and queues
  its own, so the pending one is queued although others may be thrown away
  (finding 1).
- `AttemptSafe`: `AttemptTracked`. The number in `pending_retries` is the attempt
  of the one entry or task of a delay timer (`AttemptInv`); it rests on `LoneInv`.

### Log and snapshots (`AofStoreProofs`)

For any number and sizes of events and any number of crashes, cut lines, failing
appends and failing compactions.

- `TypeSafe`: `TypeOK`, with `FileShape`: there is a file behind the handle and at
  every step of a compaction that needs one, and whoever still writes to
  `kron.aof.old` finds nothing in `kron.aof`.
- `RecoverableSafe`: `AckedRecoverable`, and `Refinement`: `IsAppendOnlyHistory`,
  for every behaviour of the model: neither has a hypothesis on what may fail or
  on when callers append. What they say of a directory ends with the first write
  of the kinds in `Harms`; findings 2 and 3 show two of these to be necessary,
  and section 5 describes the others.

The invariant `StoreInv` says what a directory looks like whatever was
interrupted. `Directory`: it is read in one of the three ways of `load_state`.
Without a snapshot, all of `kron.aof` (`FromStart`); with a snapshot that is ahead
of the log, what follows the j-th piece of `kron.aof.old` and all of `kron.aof`
(`FromOld`); or what follows the k-th piece of `kron.aof` (`FromOffset`). In the
second case the log must not reach the offset, where another piece would be next.
`Recovered`: what is replayed is in the order of issue and has everything
acknowledged. `Agree`: the process has the same in memory, but for events whose
append failed; without it a snapshot could lose events. `Compaction`: which files
and which offset each step finds.

A file's length and its replay are functions over its pieces. `EndsSum` unfolds
them once (by `Recursion`); `EndsAppend`, `ReplayAppend`, `AppendedToAof` and
`AppendedToOld` show that one piece more, at the end of either file, gives one
event more, or none for a fragment. There is one lemma per action for the
invariant and the step of `EventStore` together: `AppendEvent` is a `Record`, also
while `harm` says that the files are behind; `AppendError` is a `Reject`;
`AppendCrash`, `Crash` and what a process finds that was not acknowledged are a
`Restart` (`PartInOrder`: in an increasing history, less events in the same order
are a part); openings and all other steps of a compaction leave what would be
replayed unchanged; and the end of a process with harm is a `GiveUp`.

### Run claims (`RunClaimsProofs`)

- `TypeCorrect`, `OneActiveSafe`, `OneHolderSafe`,
  `EndsOnce`. The inductive invariant `ClaimInv` says that claims under way,
  active and held runs with one id are the same claim (`ClaimsApart`), that a
  claim not yet committed has neither begun nor ended (`PendingClaimsFresh`),
  that active runs have not ended (`ActiveNotEnded`) and that a held run which
  has not ended is active (`HeldIsActive`). A second live holder would be a
  second active run, and a second ending would need an ended run to be active.
- `FenceSafe`: `StaleHolderFenced`. What a grant needs is that nobody is ahead of
  the timer. `FenceInv`: holders are at or behind the token of their timer
  (`HoldersBehind`), an active run is at it (`ActiveToken`), an expiry under way
  names a run that is active or has ended and a replacement for the same timer
  with a later token (`ExpireKnown`), and tokens are positive. A holder whose run
  was taken back is then behind whoever is granted the next one, whatever was
  delayed or lost, for timers that are not in `reused`.

### Raft file store (`RaftFileStoreProofs`)

Every property of `raft_store`, for logs of any length, segments of any size and
any number of crashes.

- `TypeSafe`: `TypeOK`, with the shape of a half-done rewrite (`WriteShape`): the
  segment name that sealing makes is a range.
- `KeptSafe`: `RaftStateKept`. `Kept` says, for each step of `persist`, which
  files are already new: each holds the value before or after the operation, and
  the ones whose step is over the value after it.
- `AppliedSafe`, `PurgedSafe`: the purge point in memory and in the manifest is
  below what the machine in memory and, because the state file is replaced
  before the manifest, on disk has applied (`Purged`).
- `ResurrectedSafe`: `NothingResurrected`. `Sourced` follows the records: during
  a rewrite every file holds entries of the new log, outside of it the listed
  files hold entries of the old one, and after a crash of either.
- `LogSafe`: `LogIsContiguous`. The manifest on disk lists names whose ranges
  cover the indices after the purge point up to some last one (`Tiled`), while
  the files under those names may be a mixture of two rewrites. `Written` says
  what a rewrite has done so far: the sealed segments hold exactly the entries of
  their names' ranges, the open one those from its first index on. What a crash
  leaves is `Tidy`: a file holds the indices of its name, or it is the one that
  was open, named after its first index and above every other file. A manifest
  that is tiled, read from tidy files that are all there, gives a log without
  gaps (`LoadedIsContiguous`).

### Audit log (`AuditLogProofs`)

- `TypeSafe`, `ChainSafe`, `AnsweredSafe`. `TypeOK` includes that `audit_state` is
  locked by the request whose record is being written, and by nobody otherwise.
  `AuditInv`: that request owns the last record (`Writing`), each
  request has at most one record, with its outcome (`Recorded`), and while
  nothing follows a failed or cut record the file verifies and, between two
  records, `audit_state` is the last one (`Chained`). The last part is what the
  next record is chained to, and is why `audit` holds the lock across the write.
- `ChangeSafe`: `ChangeIsDetected`, for a log of any length. The record after a
  changed one names its old hash; the one after a removed record has the wrong
  number. No invariant of the server is needed.

### Legacy cluster engine (`ClusterEngineProofs`)

Every property of `cluster_legacy`, for any number of nodes, request threads,
workers and lines of a log.

What a replay gives is shown without induction over data. A replay is a function
over the positions of the lines; two such functions over one log cannot differ,
as there would be a first line where they do (`Least` and `Recursion` of module
`Recursions`, `ReplayRuns`). From that follow `ReplayAppend` (one more line is one more
`Apply`) and `ReplayTimeless` (the claims, fencing tokens, timers and peers that
are replayed do not depend on the present, although next runs do). `ApplyIs`
gives the result of `Apply` field by field.

- `TypeSafe`: `TypeOK`, which includes `NodeInv` (no node is its own peer or listed
  twice), with `CallShape` (a handler at work has a request, one that waits for a peer has
  a peer left).
- `OneRunSafe`: `OneRunPerTimer`. `RunInv` counts queued and handed out runs
  together: one of a kind per timer, and no timer with both.
- `ClaimsReplayed`, `EndedSafe`, `TokensSafe`. `ClaimInv` has two parts that end
  at different moments. `Kept`: the log replays to the claims in memory, until
  one is expired or a sync fails (`unlogged`). `Tracked`: run ids are drawn, not
  over and of one timer, and the tokens handed out are behind those of the queue
  and behind the fencing tokens, until a restart forgets such an expiry
  (`forgot`). The replayed fencing tokens have to cover every token handed out,
  or the first restart would break `Tracked`.
- `AnsweredSafe`: `AnsweredIsOnMajority`. `CallOK`: a handler has counted itself
  and at most the peers it is done with whose logs hold the line; an answer that
  got lost makes it count too few. Logs only grow, torn ones included, so the
  majority stays.
- `TimersReplayed`: `ReplayKeepsTimers`. `TimersInv`: without overlapping
  requests there is one handler at work (`Alone`), and a node is at most one line
  behind its log, the line of that handler (`InStep`, `Ahead`, `Behind`).

### Lemmas

`DelayType` shows, for every strategy and attempt, that a retry delay is a
natural number and at most its cap; `GreatestIndex` that a nonempty set of
indices has a greatest one (what `get_log_state` reports); `CountUp` that
applying entries in order numbers commands in order.

### Only model-checked

The liveness properties (`DueRunBegins`, `ShutdownReturns`, `LeaseIsReclaimed`):
TLAPS does not reach fairness. The other properties of the passing runs are all
theorems. The findings are counterexamples.

## 5. Findings

1. `engine_allow_retries`: a failing run of a skip or allow timer calls
   `heap.remove_timer` (`core/engine.rs:533`) and so discards the queued retry
   of another failed run of the timer. `README.md:139` promises retries until
   the attempt limit.
2. `store_crash_tail`: an ignored crash tail stays in the file, the next append
   continues that line, and the restart after that refuses the log
   (`core/log.rs:92`). `README.md:216`: truncated final tails are handled.
3. `store_outgrown`: a compaction interrupted between its two snapshots leaves a
   snapshot with the length of the old log as its offset. `load_state` recognises
   this by the new log being shorter than the offset (`core/snapshot.rs:154`);
   once appends have made it as long, the restart after that replays the new log
   from the offset on and acknowledged events are gone. `core/log.rs:14`:
   durability over throughput.
4. `claims_replacement`: `ExpireRunLease` queues a replacement that
   `try_claim` never reads; the next worker gets a new run with attempt 1, so
   `max_attempts` never applies to abandoned runs
   (`core/openraft_adapter/runtime.rs:601`).
5. `raft_store_committed`: a segment that was created and not yet written has
   the name the old manifest lists and reads as empty; the node opens without a
   committed entry (`core/openraft_adapter/file_store.rs:805`). A crash a
   little earlier or later in the same rewrite leaves a missing segment, and
   the node refuses to open.

Met while modelling; the passing runs are restricted accordingly:

- `schedule` on a running delay timer queues a second run beside it
  (`core/engine.rs:249`); `DelayNeverOverlaps` is stated for timers that are
  not registered again once the loop runs (`Fixed`).
- The attempt of a failure is read per timer, not per run
  (`core/engine.rs:511`), so overlapping runs of an allow timer, or a skip
  timer's retry and next occurrence, take each other's number;
  `AttemptTracked` is about delay timers.
- A pending retry survives a restart but is queued by nobody; `RetryIsQueued`
  and `AttemptTracked` are stated without restarts.
- A retry of a skip timer that comes due while the next occurrence runs is
  skipped like any other run (`core/engine.rs:422`): it is not attempted again
  and `pending_retries` keeps it. `RetryIsQueued` is about delay and allow timers.
- A notification of the last run that falls between the check of `active_runs`
  and the creation of the `Notified` future is lost (`core/engine.rs:354`);
  `shutdown` then returns by its timeout. `ShutdownReturns` includes that case.
- After a failed append `stopped` is set while callbacks run, and `shutdown`
  returns `Ok` at once; `ShutdownWaits` is about engines without such a failure.
- Registering a known id with another spec replaces the stored one, against the
  comment at `core/engine.rs:181`.
- When `snapshot::compact` fails after it renamed `kron.aof`, or the log cannot be
  opened again, `Engine::compact` returns the error (`core/engine.rs:371`) and the
  engine goes on appending to the renamed file. If the snapshot on disk says
  offset 0, a restart reads `kron.aof` only and what was acknowledged since is
  gone. This is one of the `Harms`; `store_compaction` includes such failures and
  shows that nothing is lost before that append, and that a compaction after it
  mends the directory. A failure before the rename is harmless.
- A line that is cut inside a multi-byte character makes `lines()` fail, at the
  end of the file too (`core/log.rs:80`), and the engine does not open; event
  data that is ASCII cannot be cut so.
- A due entry of a skip or allow timer may be removed by another run of the timer
  that fails (finding 1's `remove_timer`). `DueRunBegins` names that case: then
  the failing run has left its own retry in the heap.
- `CreateTimer` for a known id resets its fencing token, and a late claim may be
  granted with a token already used: an expired holder then has the token of the
  current one. `StaleHolderFenced` is stated for timers to which neither has
  happened (`reused`).
- A failed write or sync of an audit record leaves `audit_state` behind the
  file, and a crash may leave a cut line or one without its newline; the next
  record then repeats a sequence number or continues that line, `verify` reports
  TAMPERED and the server does not open (`core/openraft_adapter/runtime.rs:1235`).
  So does a record cut inside a character, at once. `ChainVerifies` and
  `AnsweredIsRecorded` are about logs without such a cut, in which nothing follows
  a failed or unfinished record (`Sound`).

Of `core/cluster.rs`, in the same way:

- `expire_workers` writes nothing to the log (line 682): after a restart the
  first claim of a run is active again, a second one that was completed in the
  meantime notwithstanding, and tokens are counted from there. `EndedStaysEnded`
  and `TokensGrow` are stated until a restart forgets an expiry or meets the
  line of a failed sync (`forgot`), `ReplayKeepsClaims` until there is one.
- The line of a request and its change are made under different locks (lines 386
  and 390), so after overlapping requests memory and log may disagree about a
  timer or a member; `ReplayKeepsTimers` is stated without them (`blurred`).
- A request that fails to reach a quorum stays in the logs of the peers that
  took it (line 833).
- When `try_lock` fails, because any thread holds the state, the command is
  appended locally, sent to nobody and answered as done (line 809).
- Replay fails on a torn last line and the node does not open (line 865).
- Replay ignores the `next_run_at` of `CreateTimer` and schedules from the
  present: a one-shot timer that was due and not yet claimed at a crash is lost.
- A timer whose run failed is `Dead` and keeps the occurrence in `next_runs`;
  `enqueue_due_runs` queues it again at the next pass, 100 ms later.
- `replicate_command` sets no timeout: a peer that accepts and does not answer
  holds the request thread.

Of `crates/kron-py/src/lib.rs`, read and not modelled:

- `PyTimerFn::call` keeps the mutex of the callable across the Python call (line
  73). A second run of an `allow` timer takes the GIL and waits for that mutex
  with it, while the first waits for the GIL.
- `start` releases the GIL while it holds `GLOBAL` (line 187); another thread
  that calls into the module waits for `GLOBAL` with the GIL.
- `start` takes the pending registrations before it can fail (line 191); a
  second `start` does not find them.

## 6. Plan

Done: `KronEngine`, `AofStore` with `EventStore`, `RunClaims`,
`RaftFileStore`, `AuditLog`, `ClusterEngine`, their runs, and the theorems of
section 4. Next, in order:

1. The lifecycle of the Python runtime: the GIL, `GLOBAL`, the lock of a
   callable, the IPC thread and the data directory lock, with `start`,
   `shutdown` and callbacks as processes.
2. Extend the server: pause, resume and cancel commands, worker and node
   commands of the state machine, membership changes of the runtime.
3. Compose `RunClaims` with `RaftFileStore` (a node that restarts re-applies its
   log) and with `AuditLog` (an effect without a record).

Not modelled: the Raft protocol and its HTTP transport (external, and a client
without state); HTTP parsing, authentication and token files beyond their
verdict; IPC framing (its requests call operations that are modelled, and its
`history` only reads the log); CLI output; the global state of the Python
bindings (item 1 above) and their argument handling; time zones and daylight
saving; the layout of JSON.

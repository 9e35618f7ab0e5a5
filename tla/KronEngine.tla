----------------------------- MODULE KronEngine -----------------------------
(***************************************************************************)
(* The embedded engine of kron-core (engine.rs, with state.rs, heap.rs,    *)
(* retry.rs, schedule.rs and clock.rs as it uses them).                    *)
(*                                                                         *)
(* One mutex protects `Inner`: the state rebuilt from the log, the heap,   *)
(* the registry and the runtime flags.  Its users are the callers of       *)
(* schedule() and shutdown(), the background loop and one Tokio task per   *)
(* popped heap entry.  Every critical section is one action here; what     *)
(* happens between two critical sections (spawning, calling the function,  *)
(* arming a Notify) is visible as a program counter.                       *)
(*                                                                         *)
(* Time is a bounded natural number.  A run id is fresh when no heap entry,*)
(* task or pending retry uses it, so ids are drawn from a finite set and   *)
(* reused; the id of a future run is drawn when its entry is pushed.       *)
(***************************************************************************)
EXTENDS Integers, FiniteSets

CONSTANTS
  Timers,             \* timer ids
  RunIds,             \* run ids (bounds the entries and tasks alive at once)
  SpecOf,             \* SpecOf[t]: what callers may register for timer t
  MaxAttempts,        \* RetryPolicy::max_attempts
  Backoff,            \* RetryPolicy::backoff
  Closers,            \* callers of shutdown() (Python, IPC)
  Reregistered,       \* timers whose callers call schedule() again for them
                      \* once the loop runs
  MaxTime,            \* bound on the clock
  MaxReopens,         \* bound on process restarts
  MaxFaults           \* bound on failing log appends

NoTime == -1
Overlaps == {"Delay", "Skip", "Allow"}
\* "Never" stands for a schedule without a next time: an expression or a
\* timezone that does not parse, a date that does not exist.  schedule()
\* accepts it.
Schedule == [kind: {"Every", "Cron", "At", "Never"}, n: Nat \ {0}]
\* What a caller passes; overlap may be left out (None in the code).
Request  == [overlap: Overlaps \cup {"Unset"}, sched: Schedule]
TimerSpec == [overlap: Overlaps, sched: Schedule]
\* The stored form of "no spec yet".
NoSpec   == [overlap |-> "Unset", sched |-> [kind |-> "At", n |-> 1]]

\* Fixed uses base only, Exponential base and cap.
BackoffStrategy ==
  [kind: {"Fixed", "Exponential", "Linear"}, base: Nat, step: Nat, cap: Nat]

ASSUME ConstantsAssumption ==
  /\ IsFiniteSet(RunIds) /\ RunIds \subseteq Nat \ {0}
  /\ SpecOf \in [Timers -> SUBSET Request]
  /\ MaxAttempts \in Nat \ {0} /\ Backoff \in BackoffStrategy
  /\ Reregistered \subseteq Timers
  /\ MaxTime \in Nat /\ MaxReopens \in Nat /\ MaxFaults \in Nat

VARIABLES
  now,          \* Utc::now()
  \* EngineState
  specs, states, nextRuns, pending,
  \* Inner
  registry, heap, started, stopped, shuttingDown, active,
  \* the background loop: its place, the entries it popped and not yet
  \* spawned, the deadline of its sleep
  loop, due, wakeAt,
  permit,       \* the permit notify_one() left in Inner::notify
  tasks,        \* run_timer tasks before their last critical section
  notifying,    \* tasks past it that have not called idle_notify yet
  closer,       \* where each caller of shutdown() is
  reopens, faults

durable == <<specs, pending>>
sched   == <<states, nextRuns, heap, permit>>
flags   == <<started, stopped, shuttingDown>>
loopv   == <<loop, due, wakeAt>>
bounds  == <<now, reopens, faults>>
vars == <<now, specs, states, nextRuns, pending, registry, heap, started,
          stopped, shuttingDown, active, loop, due, wakeAt, permit, tasks,
          notifying, closer, reopens, faults>>

States   == {"None", "Orphaned", "Scheduled", "Running", "Retrying", "Dead"}
NoRetry  == [run |-> 0, attempt |-> 0]
Retry    == [run: RunIds, attempt: Nat]
\* heap.rs ScheduledTimer; run_id None is an id not used by anyone else.
Entry    == [timer: Timers, at: Nat, run: RunIds, attempt: Nat]
\* A run_timer task: its heap entry and the copy of the spec it works from.
Task     == [pc: {"spawned", "calling"}, entry: Entry, spec: TimerSpec \cup {NoSpec}]
LoopPcs  == {"unborn", "check", "spawn", "handoff", "sleep", "done"}
CloserPcs == {"idle", "signal", "check", "arm", "wait", "finish", "ok", "timeout"}

TypeOK ==
  /\ now \in Nat
  /\ specs \in [Timers -> TimerSpec \cup {NoSpec}]
  /\ states \in [Timers -> States]
  /\ nextRuns \in [Timers -> Nat \cup {NoTime}]
  /\ pending \in [Timers -> Retry \cup {NoRetry}]
  /\ registry \subseteq Timers
  /\ heap \subseteq Entry /\ due \subseteq Entry
  /\ started \in BOOLEAN /\ stopped \in BOOLEAN /\ shuttingDown \in BOOLEAN
  /\ active \in Nat
  /\ loop \in LoopPcs
  /\ wakeAt \in Nat \cup {NoTime}
  /\ permit \in BOOLEAN
  /\ tasks \subseteq Task
  /\ notifying \in Nat
  /\ closer \in [Closers -> CloserPcs]
  /\ reopens \in Nat /\ faults \in Nat

-----------------------------------------------------------------------------
(* Schedules, retries, fresh ids                                           *)

\* Schedule::next_run_after: the next occurrence strictly after `from`; Err
\* and None are one, as both its callers match on Ok(Some(..)).
NextRunAfter(s, from) ==
  IF s.kind = "Every" THEN from + s.n
  ELSE IF s.kind = "At" THEN (IF s.n > from THEN s.n ELSE NoTime)
  ELSE IF s.kind = "Never" THEN NoTime
  ELSE ((from \div s.n) + 1) * s.n

IsOneShot(s) == s.kind = "At"

\* The result of min(cap) is the same with u64's saturating operations.
Capped(delay, cap) == IF delay \in 0 .. cap THEN delay ELSE cap

\* BackoffStrategy::delay_seconds; attempt is 1 for the first retry.
DelaySeconds(attempt) ==
  IF Backoff.kind = "Fixed" THEN Backoff.base
  ELSE IF Backoff.kind = "Exponential"
  THEN Capped(Backoff.base * 2 ^ (attempt - 1), Backoff.cap)
  ELSE Capped(Backoff.base + Backoff.step * (attempt - 1), Backoff.cap)

\* RetryPolicy::next_retry_at: None once the attempts are used up.
NextRetryAt(at, attempt) ==
  IF attempt >= MaxAttempts THEN NoTime ELSE at + DelaySeconds(attempt)

UsedRuns == {e.run : e \in heap \cup due} \cup {k.entry.run : k \in tasks}
              \cup {pending[t].run : t \in Timers}
FreshRun == CHOOSE r \in RunIds : r \notin UsedRuns

FirstRun(t, at) == [timer |-> t, at |-> at, run |-> FreshRun, attempt |-> 1]

\* TimerHeap::remove_timer
RemoveTimer(h, t) == {e \in h : e.timer # t}

\* TimerHeap::pop_due and peek_next_at
PopDue(h)     == {e \in h : e.at <= now}
Earliest(h)   == {e \in h : \A f \in h : e.at <= f.at}
PeekNextAt(h) == IF h = {} THEN NoTime ELSE (CHOOSE e \in Earliest(h) : TRUE).at

\* Mutant: the push forgets notify_one.
PushQuietly(t, at, h, n) ==
  /\ ~(RunIds \subseteq UsedRuns)
  /\ heap' = h \cup {FirstRun(t, at)}
  /\ nextRuns' = [n EXCEPT ![t] = at]
  /\ UNCHANGED permit

\* heap.push of a first run with its next_runs entry and notify_one, over
\* the heap h and the next_runs n the critical section has reached.
PushFirstRun(t, at, h, n) ==
  /\ ~(RunIds \subseteq UsedRuns)
  /\ heap' = h \cup {FirstRun(t, at)}
  /\ nextRuns' = [n EXCEPT ![t] = at]
  /\ permit' = TRUE

\* reschedule_from
RescheduleFrom(t, spec, from, h, n) ==
  LET at == NextRunAfter(spec.sched, from) IN
  \/ /\ shuttingDown \/ stopped
     /\ heap' = h /\ nextRuns' = n /\ UNCHANGED permit
  \/ /\ ~shuttingDown /\ ~stopped /\ at # NoTime
     /\ PushFirstRun(t, at, h, n)
  \/ /\ ~shuttingDown /\ ~stopped /\ at = NoTime
     /\ heap' = h /\ nextRuns' = [n EXCEPT ![t] = NoTime] /\ UNCHANGED permit

\* notify_waiters wakes only those already waiting.
WakeClosers(c) == [x \in Closers |-> IF c[x] = "wait" THEN "check" ELSE c[x]]

-----------------------------------------------------------------------------
(* Callers                                                                 *)

\* The spec a request stands for: a missing overlap keeps the stored one.
Resolve(t, q) ==
  [overlap |-> IF q.overlap # "Unset" THEN q.overlap
               ELSE IF specs[t] = NoSpec THEN "Delay" ELSE specs[t].overlap,
   sched |-> q.sched]

\* Engine::schedule_with_overlap
ScheduleTimer(t, q) ==
  LET spec    == Resolve(t, q)
      updated == specs[t] # NoSpec /\ specs[t] # spec
      h       == IF updated THEN RemoveTimer(heap, t) ELSE heap
      n       == IF updated THEN [nextRuns EXCEPT ![t] = NoTime] ELSE nextRuns
      at      == NextRunAfter(spec.sched, now)
  IN /\ ~shuttingDown /\ ~stopped
     /\ t \in Reregistered \/ ~started \/ t \notin registry
     /\ specs' = [specs EXCEPT ![t] = spec]
     /\ registry' = registry \cup {t}
     /\ states' = [states EXCEPT ![t] = IF @ \in {"None", "Orphaned"}
                                        THEN "Scheduled" ELSE @]
     /\ \/ n[t] = NoTime /\ at # NoTime /\ PushFirstRun(t, at, h, n)
        \/ /\ n[t] # NoTime \/ at = NoTime
           /\ heap' = h /\ nextRuns' = n /\ UNCHANGED permit
     /\ UNCHANGED <<pending, flags, active, loopv, tasks, notifying, closer, bounds>>

\* Engine::start
Start ==
  /\ ~stopped /\ ~started
  /\ started' = TRUE
  /\ loop' = "check"
  /\ UNCHANGED <<durable, sched, registry, stopped, shuttingDown, active, due,
                 wakeAt, tasks, notifying, closer, bounds>>

\* Engine::shutdown, first critical section
ShutdownCall(c) ==
  /\ closer[c] \in {"idle", "ok", "timeout"}
  /\ \/ /\ stopped
        /\ closer' = [closer EXCEPT ![c] = "ok"]
        /\ UNCHANGED flags
     \/ /\ ~stopped /\ ~started
        /\ stopped' = TRUE
        /\ closer' = [closer EXCEPT ![c] = "ok"]
        /\ UNCHANGED <<started, shuttingDown>>
     \/ /\ ~stopped /\ started
        /\ shuttingDown' = TRUE
        /\ closer' = [closer EXCEPT ![c] = "signal"]
        /\ UNCHANGED <<started, stopped>>
  /\ UNCHANGED <<durable, sched, registry, active, loopv, tasks, notifying, bounds>>

\* notify.notify_waiters(): lost when the loop is not parked in its select.
ShutdownSignal(c) ==
  /\ closer[c] = "signal"
  /\ closer' = [closer EXCEPT ![c] = "check"]
  /\ loop' = IF loop = "sleep" THEN "check" ELSE loop
  /\ UNCHANGED <<durable, sched, registry, flags, active, due, wakeAt, tasks,
                 notifying, bounds>>

\* Mutant: shutdown() does not look at active_runs.
ShutdownCheckNothing(c) ==
  /\ closer[c] = "check"
  /\ closer' = [closer EXCEPT ![c] = "finish"]
  /\ UNCHANGED <<durable, sched, registry, flags, active, loopv, tasks,
                 notifying, bounds>>

\* The wait loop reads active_runs under the lock ...
ShutdownCheck(c) ==
  /\ closer[c] = "check"
  /\ closer' = [closer EXCEPT ![c] = IF active = 0 THEN "finish" ELSE "arm"]
  /\ UNCHANGED <<durable, sched, registry, flags, active, loopv, tasks,
                 notifying, bounds>>

\* ... and only then creates the Notified future it awaits.
ShutdownArm(c) ==
  /\ closer[c] = "arm"
  /\ closer' = [closer EXCEPT ![c] = "wait"]
  /\ UNCHANGED <<durable, sched, registry, flags, active, loopv, tasks,
                 notifying, bounds>>

\* Mutant: the timeout is looked at only once nothing runs any more.
ShutdownTimesOutIdle(c) ==
  /\ closer[c] = "wait" /\ active = 0
  /\ closer' = [closer EXCEPT ![c] = "timeout"]
  /\ UNCHANGED <<durable, sched, registry, flags, active, loopv, tasks,
                 notifying, bounds>>

\* timeout() elapses while the future is pending: ShutdownTimeout
ShutdownTimesOut(c) ==
  /\ closer[c] = "wait"
  /\ closer' = [closer EXCEPT ![c] = "timeout"]
  /\ UNCHANGED <<durable, sched, registry, flags, active, loopv, tasks,
                 notifying, bounds>>

\* last critical section of shutdown()
ShutdownFinish(c) ==
  /\ closer[c] = "finish"
  /\ stopped' = TRUE
  /\ closer' = [closer EXCEPT ![c] = "ok"]
  /\ UNCHANGED <<durable, sched, registry, started, shuttingDown, active, loopv,
                 tasks, notifying, bounds>>

-----------------------------------------------------------------------------
(* The background loop of Engine::start                                    *)

LoopExit ==
  /\ loop = "check" /\ shuttingDown
  /\ loop' = "done"
  /\ closer' = IF active = 0 THEN WakeClosers(closer) ELSE closer
  /\ UNCHANGED <<durable, sched, registry, flags, active, due, wakeAt, tasks,
                 notifying, bounds>>

LoopPop ==
  /\ loop = "check" /\ ~shuttingDown
  /\ due' = PopDue(heap)
  /\ heap' = heap \ PopDue(heap)
  /\ wakeAt' = PeekNextAt(heap')
  /\ loop' = "spawn"
  /\ UNCHANGED <<durable, states, nextRuns, permit, registry, flags, active,
                 tasks, notifying, closer, bounds>>

\* One turn of `for scheduled in due`: the run is counted under the lock ...
LoopCount ==
  /\ loop = "spawn" /\ ~shuttingDown /\ due # {}
  /\ active' = active + 1
  /\ loop' = "handoff"
  /\ UNCHANGED <<durable, sched, registry, flags, due, wakeAt, tasks, notifying,
                 closer, bounds>>

\* ... and its task is spawned after the unlock, shutdown or not.
LoopSpawn ==
  /\ loop = "handoff"
  /\ \E e \in Earliest(due) :
       /\ due' = due \ {e}
       /\ tasks' = tasks \cup {[pc |-> "spawned", entry |-> e, spec |-> NoSpec]}
  /\ loop' = "spawn"
  /\ UNCHANGED <<durable, sched, registry, flags, active, wakeAt, notifying,
                 closer, bounds>>

\* break out of the for: the entries still in `due` are dropped.
LoopDrop ==
  /\ loop = "spawn" /\ shuttingDown /\ due # {}
  /\ due' = {}
  /\ UNCHANGED <<durable, sched, registry, flags, active, loop, wakeAt, tasks,
                 notifying, closer, bounds>>

\* select! { sleep(duration), notify.notified() }
LoopPark ==
  /\ loop = "spawn" /\ due = {}
  /\ loop' = "sleep"
  /\ UNCHANGED <<durable, sched, registry, flags, active, due, wakeAt, tasks,
                 notifying, closer, bounds>>

\* Mutant: the sleep ends only after its deadline has passed.
LoopWakeLate ==
  /\ loop = "sleep" /\ (wakeAt = NoTime \/ wakeAt < now)
  /\ loop' = "check"
  /\ UNCHANGED <<durable, sched, registry, flags, active, due, wakeAt, tasks,
                 notifying, closer, bounds>>

\* With an empty heap sleep_duration_until is the polling interval.
LoopWakeByTimer ==
  /\ loop = "sleep" /\ (wakeAt = NoTime \/ wakeAt <= now)
  /\ loop' = "check"
  /\ UNCHANGED <<durable, sched, registry, flags, active, due, wakeAt, tasks,
                 notifying, closer, bounds>>

LoopWakeByNotify ==
  /\ loop = "sleep" /\ permit
  /\ permit' = FALSE
  /\ loop' = "check"
  /\ UNCHANGED <<durable, states, nextRuns, heap, registry, flags, active, due,
                 wakeAt, tasks, notifying, closer, bounds>>

-----------------------------------------------------------------------------
(* run_timer                                                               *)

\* Mutant: the run is uncounted twice.
FinishRunTwice(k) ==
  /\ tasks' = tasks \ {k}
  /\ active' = active - 2
  /\ notifying' = notifying + 1

\* finish_run and the return from run_timer
FinishRun(k) ==
  /\ tasks' = tasks \ {k}
  /\ active' = IF active = 0 THEN 0 ELSE active - 1
  /\ notifying' = notifying + 1

\* Mutant: a waiting retry counts as the previous run, a running callback
\* does not.
OverlappingRetry(t) == specs[t].overlap = "Skip" /\ states[t] = "Retrying"

\* A Skip timer whose state is Running skips the occurrence.
Overlapping(t) == specs[t].overlap = "Skip" /\ states[t] = "Running"

RunSkip(k) ==
  LET t == k.entry.timer IN
  /\ k.pc = "spawned" /\ Overlapping(t)
  /\ RescheduleFrom(t, specs[t], k.entry.at, heap, [nextRuns EXCEPT ![t] = NoTime])
  /\ FinishRun(k)
  /\ UNCHANGED <<durable, states, registry, flags, loopv, closer, bounds>>

\* Mutant: Delay keeps the wall-clock cadence as well.
RunStartAllReschedule(k) ==
  LET t == k.entry.timer IN
  /\ k.pc = "spawned" /\ ~Overlapping(t)
  /\ states' = [states EXCEPT ![t] = "Running"]
  /\ tasks' = (tasks \ {k}) \cup
       {[pc |-> "calling", entry |-> k.entry, spec |-> specs[t]]}
  /\ RescheduleFrom(t, specs[t], k.entry.at, heap, [nextRuns EXCEPT ![t] = NoTime])
  /\ UNCHANGED <<durable, registry, flags, active, loopv, notifying, closer, bounds>>

\* RunDue and RunStarted; Skip and Allow keep the wall-clock cadence.
RunStart(k) ==
  LET t == k.entry.timer
      n == [nextRuns EXCEPT ![t] = NoTime] IN
  /\ k.pc = "spawned" /\ ~Overlapping(t)
  /\ states' = [states EXCEPT ![t] = "Running"]
  /\ tasks' = (tasks \ {k}) \cup
       {[pc |-> "calling", entry |-> k.entry, spec |-> specs[t]]}
  /\ \/ /\ specs[t].overlap \in {"Skip", "Allow"}
        /\ RescheduleFrom(t, specs[t], k.entry.at, heap, n)
     \/ /\ specs[t].overlap \notin {"Skip", "Allow"}
        /\ nextRuns' = n /\ UNCHANGED <<heap, permit>>
  /\ UNCHANGED <<durable, registry, flags, active, loopv, notifying, closer, bounds>>

\* append_apply_or_stop failed before the call: at RunSkippedOverlap or
\* RunDue nothing is applied, at RunStarted the RunDue already is.
StopEngine ==
  /\ faults < MaxFaults /\ faults' = faults + 1
  /\ shuttingDown' = TRUE /\ stopped' = TRUE

\* Mutant: the early return forgets finish_run.
RunStartFaultUncounted(k) ==
  LET t == k.entry.timer IN
  /\ k.pc = "spawned"
  /\ StopEngine
  /\ nextRuns' = [nextRuns EXCEPT ![t] = NoTime]
  /\ tasks' = tasks \ {k} /\ notifying' = notifying + 1
  /\ UNCHANGED <<durable, states, active, heap, permit, registry, started, loopv,
                 closer, now, reopens>>

RunStartFault(k) ==
  LET t == k.entry.timer IN
  /\ k.pc = "spawned"
  /\ StopEngine
  /\ nextRuns' = [nextRuns EXCEPT ![t] = NoTime]
  /\ \/ UNCHANGED states
     \/ ~Overlapping(t) /\ states' = [states EXCEPT ![t] = "Running"]
  /\ FinishRun(k)
  /\ UNCHANGED <<durable, heap, permit, registry, started, loopv, closer, now, reopens>>

\* Mutant: RunSucceeded leaves the pending retry behind.
RunSucceedKeepsRetry(k) ==
  LET t == k.entry.timer IN
  /\ k.pc = "calling"
  /\ states' = [states EXCEPT ![t] = "Scheduled"]
  /\ \/ k.spec.overlap = "Delay" /\ RescheduleFrom(t, k.spec, now, heap, nextRuns)
     \/ k.spec.overlap # "Delay" /\ UNCHANGED <<heap, nextRuns, permit>>
  /\ FinishRun(k)
  /\ UNCHANGED <<durable, registry, flags, loopv, closer, bounds>>

\* The function returned Ok: RunSucceeded
RunSucceed(k) ==
  LET t == k.entry.timer IN
  /\ k.pc = "calling"
  /\ states' = [states EXCEPT ![t] = "Scheduled"]
  /\ pending' = [pending EXCEPT ![t] = NoRetry]
  /\ \/ k.spec.overlap = "Delay" /\ RescheduleFrom(t, k.spec, now, heap, nextRuns)
     \/ k.spec.overlap # "Delay" /\ UNCHANGED <<heap, nextRuns, permit>>
  /\ FinishRun(k)
  /\ UNCHANGED <<specs, registry, flags, loopv, closer, bounds>>

\* The attempt number a failure of timer t is recorded with.
FailedAttempt(t) == IF pending[t] = NoRetry THEN 1 ELSE pending[t].attempt

\* What a failing non-Delay run leaves of the heap before it retries.
KeptHeap(k) == IF k.spec.overlap = "Delay" THEN heap
               ELSE RemoveTimer(heap, k.entry.timer)
\* Mutant: the heap is cleaned and next_runs is not.
KeptAllNextRuns(k) == nextRuns
KeptNextRuns(k) == IF k.spec.overlap = "Delay" THEN nextRuns
                   ELSE [nextRuns EXCEPT ![k.entry.timer] = NoTime]

\* Mutant: the retry is recorded and never pushed.
RunRetryUnqueued(k) ==
  LET t == k.entry.timer
      a == FailedAttempt(t)
  IN
  /\ k.pc = "calling" /\ NextRetryAt(now, a) # NoTime
  /\ states' = [states EXCEPT ![t] = "Retrying"]
  /\ pending' = [pending EXCEPT ![t] = [run |-> k.entry.run, attempt |-> a + 1]]
  /\ nextRuns' = KeptNextRuns(k) /\ heap' = KeptHeap(k)
  /\ FinishRun(k)
  /\ UNCHANGED <<specs, permit, registry, flags, loopv, closer, bounds>>

\* RunFailed, RunRetrying: the same run goes back to the heap.
RunRetry(k) ==
  LET t  == k.entry.timer
      a  == FailedAttempt(t)
      at == NextRetryAt(now, a)
      again == [timer |-> t, at |-> at, run |-> k.entry.run, attempt |-> a + 1]
  IN
  /\ k.pc = "calling" /\ at # NoTime
  /\ states' = [states EXCEPT ![t] = "Retrying"]
  /\ pending' = [pending EXCEPT ![t] = [run |-> k.entry.run, attempt |-> a + 1]]
  /\ nextRuns' = KeptNextRuns(k)
  /\ \/ /\ ~shuttingDown /\ ~stopped
        /\ heap' = KeptHeap(k) \cup {again} /\ permit' = TRUE
     \/ /\ shuttingDown \/ stopped
        /\ heap' = KeptHeap(k) /\ UNCHANGED permit
  /\ FinishRun(k)
  /\ UNCHANGED <<specs, registry, flags, loopv, closer, bounds>>

\* RunFailed, RunDead: attempts used up.
RunDie(k) ==
  LET t == k.entry.timer IN
  /\ k.pc = "calling" /\ NextRetryAt(now, FailedAttempt(t)) = NoTime
  /\ states' = [states EXCEPT ![t] = "Dead"]
  /\ pending' = [pending EXCEPT ![t] = NoRetry]
  /\ \/ /\ k.spec.overlap = "Delay" /\ ~IsOneShot(k.spec.sched)
        /\ RescheduleFrom(t, k.spec, now, heap, nextRuns)
     \/ /\ k.spec.overlap # "Delay" \/ IsOneShot(k.spec.sched)
        /\ UNCHANGED <<heap, nextRuns, permit>>
  /\ FinishRun(k)
  /\ UNCHANGED <<specs, registry, flags, loopv, closer, bounds>>

\* An append of the finishing critical section fails: nothing is applied, or
\* (at RunRetrying) only the cleanup of the heap.
RunFinishFault(k) ==
  /\ k.pc = "calling"
  /\ StopEngine
  /\ \/ UNCHANGED <<heap, nextRuns>>
     \/ /\ NextRetryAt(now, FailedAttempt(k.entry.timer)) # NoTime
        /\ heap' = KeptHeap(k) /\ nextRuns' = KeptNextRuns(k)
  /\ FinishRun(k)
  /\ UNCHANGED <<durable, states, permit, registry, started, loopv, closer, now, reopens>>

\* idle_notify2.notify_waiters(), after run_timer has released the lock
NotifyIdle ==
  /\ notifying > 0
  /\ notifying' = notifying - 1
  /\ closer' = WakeClosers(closer)
  /\ UNCHANGED <<durable, sched, registry, flags, active, loopv, tasks, bounds>>

-----------------------------------------------------------------------------
(* The process ends, by a crash or not, and Engine::open replays the log.   *)
(* Every event was appended before it was applied, so replay gives back the *)
(* specs and pending retries; states, next_runs, heap and registry restart. *)

\* An append that failed may have left its line in the file all the same (the
\* write went through, the sync did not), and replay applies it: the end of a
\* run, or the spec of a call of schedule().
ReplayUnacked ==
  \/ /\ faults > 0
     /\ \E t \in Timers, p \in [run: RunIds, attempt: 2 .. MaxAttempts] \cup {NoRetry} :
          specs[t] # NoSpec /\ pending' = [pending EXCEPT ![t] = p]
     /\ UNCHANGED <<specs, faults>>
  \/ /\ faults < MaxFaults /\ faults' = faults + 1
     /\ \E t \in Timers : \E q \in SpecOf[t] :
          specs' = [specs EXCEPT ![t] = Resolve(t, q)]
     /\ UNCHANGED pending

\* Mutant: the heap survives the restart, the callables do not.
ReopenKeepsHeap ==
  /\ reopens < MaxReopens
  /\ reopens' = reopens + 1
  /\ states' = [t \in Timers |-> IF specs[t] = NoSpec THEN "None" ELSE "Orphaned"]
  /\ registry' = {} /\ due' = {} /\ tasks' = {}
  /\ started' = FALSE /\ stopped' = FALSE /\ shuttingDown' = FALSE
  /\ active' = 0 /\ notifying' = 0
  /\ loop' = "unborn" /\ wakeAt' = NoTime /\ permit' = FALSE
  /\ closer' = [c \in Closers |-> "idle"]
  /\ UNCHANGED <<durable, nextRuns, heap, now, faults>>

Reopen ==
  /\ reopens < MaxReopens
  /\ reopens' = reopens + 1
  /\ UNCHANGED <<durable, faults>> \/ ReplayUnacked
  /\ states' = [t \in Timers |-> IF specs'[t] = NoSpec THEN "None" ELSE "Orphaned"]
  /\ nextRuns' = [t \in Timers |-> NoTime]
  /\ registry' = {} /\ heap' = {} /\ due' = {} /\ tasks' = {}
  /\ started' = FALSE /\ stopped' = FALSE /\ shuttingDown' = FALSE
  /\ active' = 0 /\ notifying' = 0
  /\ loop' = "unborn" /\ wakeAt' = NoTime /\ permit' = FALSE
  /\ closer' = [c \in Closers |-> "idle"]
  /\ UNCHANGED now

Tick ==
  /\ now < MaxTime
  /\ now' = now + 1
  /\ UNCHANGED <<durable, sched, registry, flags, active, loopv, tasks,
                 notifying, closer, reopens, faults>>

-----------------------------------------------------------------------------
Init ==
  /\ now = 0
  /\ specs = [t \in Timers |-> NoSpec]
  /\ states = [t \in Timers |-> "None"]
  /\ nextRuns = [t \in Timers |-> NoTime]
  /\ pending = [t \in Timers |-> NoRetry]
  /\ registry = {} /\ heap = {} /\ due = {} /\ tasks = {}
  /\ started = FALSE /\ stopped = FALSE /\ shuttingDown = FALSE
  /\ active = 0 /\ notifying = 0
  /\ loop = "unborn" /\ wakeAt = NoTime /\ permit = FALSE
  /\ closer = [c \in Closers |-> "idle"]
  /\ reopens = 0 /\ faults = 0

LoopStep == LoopExit \/ LoopPop \/ LoopCount \/ LoopSpawn \/ LoopDrop \/ LoopPark
              \/ LoopWakeByTimer \/ LoopWakeByNotify

TaskBegin(k) == RunSkip(k) \/ RunStart(k) \/ RunStartFault(k)
TaskEnd(k)   == RunSucceed(k) \/ RunRetry(k) \/ RunDie(k) \/ RunFinishFault(k)

CloserStep(c) == ShutdownSignal(c) \/ ShutdownCheck(c) \/ ShutdownArm(c)
                   \/ ShutdownFinish(c)

Next ==
  \/ \E t \in Timers : \E q \in SpecOf[t] : ScheduleTimer(t, q)
  \/ Start
  \/ \E c \in Closers : ShutdownCall(c) \/ CloserStep(c) \/ ShutdownTimesOut(c)
  \/ LoopStep
  \/ \E k \in tasks : TaskBegin(k) \/ TaskEnd(k)
  \/ NotifyIdle
  \/ Reopen
  \/ Tick

Spec == Init /\ [][Next]_vars

\* The loop keeps running, a spawned task is polled, a shutdown caller that
\* can move moves and its timeout elapses.  Whether callers call, callbacks
\* return, appends fail and the clock ticks is left open.
FairSpec ==
  /\ Spec
  /\ WF_vars(LoopStep)
  /\ \A r \in RunIds : WF_vars(\E k \in tasks : k.entry.run = r /\ (RunSkip(k) \/ RunStart(k)))
  /\ WF_vars(NotifyIdle)
  /\ \A c \in Closers : WF_vars(CloserStep(c)) /\ WF_vars(ShutdownTimesOut(c))

-----------------------------------------------------------------------------
(* Properties                                                              *)

\* Every place a future or present run of timer t can be.
Waiting(t) == {e \in heap \cup due : e.timer = t}
Working(t) == {k \in tasks : k.entry.timer = t}
Calling(t) == {k \in Working(t) : k.pc = "calling"}

\* Timers whose overlap policy cannot change while they run: every caller
\* asks for the same, or none calls schedule() again once the loop runs.
Settled(policies) ==
  {t \in Timers : \/ \A q \in SpecOf[t] : q.overlap \in policies
                  \/ t \notin Reregistered /\ specs[t].overlap \in policies}
\* The second kind only.
Fixed(policies) == {t \in Timers \ Reregistered : specs[t].overlap \in policies}

\* active_runs is the number of tasks before finish_run, through every early
\* return of run_timer, and the run the loop has counted and not yet spawned:
\* shutdown() relies on it to know that no callback is left.
ActiveRunsCounted ==
  active = Cardinality(tasks) + (IF loop = "handoff" THEN 1 ELSE 0)

\* A popped entry always finds a spec and a callable: the "spec is gone" and
\* "function not registered" branches of run_timer are dead code.
RunsHaveFunction ==
  \A t \in Timers : Waiting(t) \cup Working(t) # {} =>
     t \in registry /\ specs[t] # NoSpec

\* Overlap policy skip: two callbacks of a timer whose policy stays skip
\* never run at once, whatever the retries, re-registrations and bursts.
SkipNeverOverlaps ==
  \A t \in Settled({"Skip"}) : \A j, k \in Calling(t) : j = k

\* Overlap policy delay: the next run is scheduled from the finish of the
\* current one, so a callback of the timer never runs beside another one.
\* (schedule() on a delay timer that runs queues a second run beside it.)
DelayNeverOverlaps ==
  \A t \in Fixed({"Delay"}) : \A j, k \in Calling(t) : j = k

\* Specs whose schedule has a next time after every time.
Recurs(spec) == spec.sched.kind \in {"Every", "Cron"}

\* A recurring timer is never forgotten: while the engine accepts work, each
\* registered one has an entry in the heap or with the loop, or a task.
RecurringNeverStalls ==
  ~shuttingDown /\ ~stopped =>
    \A t \in registry : Recurs(specs[t]) => Waiting(t) \cup Working(t) # {}

\* The deadline the loop sleeps on is read before it releases the lock; an
\* entry pushed later with an earlier deadline leaves a permit behind.
NeverOversleeps ==
  loop \in {"spawn", "handoff", "sleep"} /\ ~permit =>
    \A e \in heap : wakeAt # NoTime /\ wakeAt <= e.at

\* The next_run_at that status() reports belongs to an entry on its way.
NextRunIsQueued ==
  ~shuttingDown =>
    \A t \in Timers : nextRuns[t] # NoTime =>
      \/ \E e \in Waiting(t) : e.at = nextRuns[t]
      \/ \E k \in Working(t) : k.pc = "spawned" /\ k.entry.at = nextRuns[t]

\* A pending retry is on its way: while the engine accepts work and callers do
\* not register the timer anew, RunRetrying is never the last word.  (A skip
\* timer may skip its own retry, and a restart forgets the queue.)
RetryIsQueued ==
  reopens = 0 /\ ~shuttingDown /\ ~stopped =>
    \A t \in Fixed({"Delay", "Allow"}) : pending[t] # NoRetry =>
      \/ \E e \in Waiting(t) : e.run = pending[t].run
      \/ \E k \in Working(t) : k.entry.run = pending[t].run

\* A queued retry leaves the heap only to be run: another run of the timer
\* does not throw it away.
RetryNeverDropped ==
  [][reopens' = reopens /\ specs' = specs =>
       \A e \in heap : e.attempt > 1 => e \in heap' \cup due']_vars

\* A run of a delay timer that fails is recorded with the attempt it was
\* started with, so the attempt limit counts the attempts of that run.
AttemptTracked ==
  reopens = 0 => \A t \in Fixed({"Delay"}) : \A k \in Calling(t) :
                   FailedAttempt(t) = k.entry.attempt

\* While no append has failed, shutdown() returning Ok means that every
\* callback has returned and that no counted run is still to be spawned.
ShutdownWaits ==
  faults = 0 => \A c \in Closers :
    closer[c] = "ok" => tasks = {} /\ loop # "handoff"

\* A call of shutdown() returns, with Ok or with ShutdownTimeout, even if a
\* callback never returns or the notification of the last run is missed.
ShutdownReturns ==
  \A c \in Closers : (closer[c] = "signal") ~> (closer[c] \in {"idle", "ok", "timeout"})

\* A run that is nowhere any more: not queued, not popped, not in a task.
Gone(r) == /\ ~\E e \in heap \cup due : e.run = r
           /\ ~\E k \in tasks : k.entry.run = r

\* A due run of a started engine is begun: its callback is called, unless the
\* engine shuts down, the timer is of policy skip and another callback runs,
\* or a failing run of a skip or allow timer removes it and leaves its own
\* retry in the heap instead (the case RetryNeverDropped is about).
DueRunBegins ==
  \A t \in Timers \ Reregistered : \A r \in RunIds :
    (started /\ \E e \in heap : e.timer = t /\ e.run = r /\ e.at <= now)
      ~> (\/ shuttingDown \/ ~started
          \/ \E k \in Calling(t) : k.entry.run = r
          \/ Gone(r) /\ specs[t].overlap = "Skip" /\ Calling(t) # {}
          \/ /\ Gone(r) /\ specs[t].overlap # "Delay"
             /\ \E e \in heap : e.timer = t /\ e.attempt > 1)
=============================================================================

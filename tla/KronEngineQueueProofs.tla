------------------------ MODULE KronEngineQueueProofs ------------------------
(***************************************************************************)
(* Theorems about the queue of the engine and the runs it starts:          *)
(* next_runs, the heap, the batch the loop has popped and the deadline it  *)
(* sleeps on stay in step; a delay timer never overlaps itself, a pending  *)
(* retry is on its way, and a failure is recorded with the attempt its run *)
(* was started with.                                                       *)
(***************************************************************************)
EXTENDS KronEngineProofs

-----------------------------------------------------------------------------
(* The deadline of the sleep                                               *)

\* peek_next_at is a lower bound of the heap's deadlines.
LEMMA PeekLeast ==
  ASSUME NEW h \in SUBSET Entry, NEW e \in h
  PROVE  PeekNextAt(h) # NoTime /\ PeekNextAt(h) <= e.at
<1> DEFINE T == {f.at : f \in h}
<1>1. T \in SUBSET Nat /\ T # {}
  BY DEF Entry
<1>2. PICK x \in T : \A y \in T : x <= y
  BY <1>1, Least
<1>3. PICK f \in h : f.at = x
  BY <1>2
<1>4. f \in Earliest(h)
  BY <1>2, <1>3 DEF Earliest
<1>5. (CHOOSE g \in Earliest(h) : TRUE) \in Earliest(h)
  BY <1>4
<1> DEFINE g == CHOOSE g \in Earliest(h) : TRUE
<1>6. g \in h /\ g.at <= e.at
  BY <1>5 DEF Earliest
<1>7. PeekNextAt(h) = g.at /\ g.at \in Nat
  BY <1>6 DEF PeekNextAt, Entry
<1> QED
  BY <1>6, <1>7 DEF NoTime

\* What a step outside the loop does to the heap: it adds an entry only with
\* a permit for the loop.
PushesNotify == (heap' \subseteq heap /\ permit' = permit) \/ permit'

LEMMA RescheduleNotifies ==
  ASSUME NEW t, NEW spec, NEW from, NEW n, RescheduleFrom(t, spec, from, heap, n)
  PROVE  PushesNotify
BY DEF RescheduleFrom, PushFirstRun, PushesNotify

LEMMA ScheduleTimerNotifies ==
  ASSUME NEW t, NEW q, ScheduleTimer(t, q)
  PROVE  PushesNotify
BY DEF ScheduleTimer, PushFirstRun, PushesNotify, RemoveTimer

LEMMA TaskNotifies ==
  ASSUME NEW k \in tasks, TaskBegin(k) \/ TaskEnd(k)
  PROVE  PushesNotify
<1> DEFINE t == k.entry.timer
<1>1. CASE UNCHANGED <<heap, permit>>
  BY <1>1 DEF PushesNotify
<1>2. CASE RunSkip(k)
  BY <1>2, RescheduleNotifies DEF RunSkip
<1>3. CASE RunStart(k)
  BY <1>1, <1>3, RescheduleNotifies DEF RunStart
<1>4. CASE RunSucceed(k)
  BY <1>1, <1>4, RescheduleNotifies DEF RunSucceed
<1>5. CASE RunDie(k)
  BY <1>1, <1>5, RescheduleNotifies DEF RunDie
<1>6. CASE RunRetry(k)
  BY <1>6, KeptSmaller DEF RunRetry, PushesNotify
<1>7. CASE RunStartFault(k)
  BY <1>7, <1>1 DEF RunStartFault
<1>8. CASE RunFinishFault(k)
  BY <1>8, KeptSmaller DEF RunFinishFault, PushesNotify
<1> QED
  BY <1>2, <1>3, <1>4, <1>5, <1>6, <1>7, <1>8 DEF TaskBegin, TaskEnd

LEMMA NextOversleeps ==
  TypeOK /\ NeverOversleeps /\ [Next]_vars => NeverOversleeps'
<1> SUFFICES ASSUME TypeOK, NeverOversleeps, [Next]_vars PROVE NeverOversleeps'
  OBVIOUS
<1> USE DEF sched, loopv
<1>1. ASSUME UNCHANGED wakeAt, PushesNotify,
             loop' \in {"spawn", "handoff", "sleep"} => loop \in {"spawn", "handoff", "sleep"}
      PROVE  NeverOversleeps'
  BY <1>1 DEF NeverOversleeps, PushesNotify
<1>2. ASSUME NEW t \in Timers, NEW q \in SpecOf[t], ScheduleTimer(t, q)
      PROVE  NeverOversleeps'
  BY <1>1, <1>2, ScheduleTimerNotifies DEF ScheduleTimer
<1>3. ASSUME NEW k \in tasks, TaskBegin(k) \/ TaskEnd(k) PROVE NeverOversleeps'
  <2>1. UNCHANGED <<loop, wakeAt>>
    BY <1>3 DEF TaskBegin, TaskEnd, RunSkip, RunStart, RunStartFault, RunSucceed, RunRetry,
                RunDie, RunFinishFault
  <2> QED
    BY <1>1, <1>3, <2>1, TaskNotifies
<1>4. CASE LoopPop
  <2>1. heap' \in SUBSET Entry /\ wakeAt' = PeekNextAt(heap')
    BY <1>4 DEF LoopPop, TypeOK
  <2> QED
    BY <2>1, PeekLeast DEF NeverOversleeps
<1>5. CASE \/ LoopExit \/ LoopWakeByTimer \/ LoopWakeByNotify \/ Reopen \/ Start
  BY <1>5 DEF LoopExit, LoopWakeByTimer, LoopWakeByNotify, Reopen, Start, NeverOversleeps
<1>6. CASE LoopCount \/ LoopSpawn \/ LoopDrop \/ LoopPark
  BY <1>1, <1>6 DEF LoopCount, LoopSpawn, LoopDrop, LoopPark, PushesNotify
<1>7. CASE \/ NotifyIdle \/ Tick \/ UNCHANGED vars
           \/ \E c \in Closers : ShutdownCall(c) \/ CloserStep(c) \/ ShutdownTimesOut(c)
  BY <1>1, <1>7 DEF NotifyIdle, Tick, vars, ShutdownCall, CloserStep, ShutdownSignal,
                    ShutdownCheck, ShutdownArm, ShutdownFinish, ShutdownTimesOut, PushesNotify
<1> QED
  BY <1>2, <1>3, <1>4, <1>5, <1>6, <1>7 DEF Next, LoopStep

\* Whenever the loop is about to sleep or asleep and no permit is left for it,
\* it wakes no later than the earliest entry is due: for every interleaving of
\* pushes with the unlocked part of the loop.
THEOREM OversleepSafe == Spec => []NeverOversleeps
<1>1. Init => NeverOversleeps
  BY DEF Init, NeverOversleeps
<1> QED
  BY <1>1, NextOversleeps, TypeCorrect, PTL DEF Spec

-----------------------------------------------------------------------------
(* next_run_at is queued.  The loop overwrites the batch it popped, so the  *)
(* invariant adds that the batch is empty whenever the loop pops.           *)

BatchOnlySpawning == due # {} => loop \in {"spawn", "handoff"}

QueueInv == NextRunIsQueued /\ BatchOnlySpawning

\* Where a first run of timer t at time `at` can be before it starts.
OnItsWay(t, at) ==
  \/ \E e \in heap \cup due : e.timer = t /\ e.at = at
  \/ \E k \in tasks : k.entry.timer = t /\ k.pc = "spawned" /\ k.entry.at = at

LEMMA QueuedMeans ==
  NextRunIsQueued <=> (~shuttingDown => \A t \in Timers : nextRuns[t] # NoTime => OnItsWay(t, nextRuns[t]))
BY DEF NextRunIsQueued, OnItsWay, Waiting, Working

LEMMA InitQueue == Init => QueueInv
BY DEF Init, QueueInv, NextRunIsQueued, BatchOnlySpawning

\* What a step leaves on its way for timer u.
Undisturbed(u) ==
  /\ \A e \in heap \cup due : e.timer = u =>
       \/ e \in heap' \cup due'
       \/ \E k \in tasks' : k.pc = "spawned" /\ k.entry = e
  /\ \A k \in tasks : k.entry.timer = u /\ k.pc = "spawned" => k \in tasks'

\* What a step must do to next_runs of timer u: forget it, back it by a new
\* entry, or leave both alone.
Settles(u) ==
  \/ nextRuns'[u] = NoTime
  \/ \E e \in heap' : e.timer = u /\ e.at = nextRuns'[u]
  \/ nextRuns'[u] = nextRuns[u] /\ Undisturbed(u)

LEMMA SettlesQueue ==
  ASSUME QueueInv, shuttingDown' \/ ~shuttingDown, BatchOnlySpawning',
         ~shuttingDown' => \A u \in Timers : Settles(u)
  PROVE  QueueInv'
<1> SUFFICES ASSUME ~shuttingDown', NEW u \in Timers, nextRuns'[u] # NoTime
             PROVE  OnItsWay(u, nextRuns[u])'
  BY DEF QueueInv, NextRunIsQueued, OnItsWay, Waiting, Working
<1>1. CASE \E e \in heap' : e.timer = u /\ e.at = nextRuns'[u]
  BY <1>1 DEF OnItsWay
<1>2. CASE nextRuns'[u] = nextRuns[u] /\ Undisturbed(u)
  <2>1. OnItsWay(u, nextRuns[u])
    BY <1>2, QueuedMeans DEF QueueInv
  <2>2. CASE \E e \in heap \cup due : e.timer = u /\ e.at = nextRuns[u]
    BY <1>2, <2>2 DEF OnItsWay, Undisturbed
  <2>3. CASE \E k \in tasks : k.entry.timer = u /\ k.pc = "spawned" /\ k.entry.at = nextRuns[u]
    BY <1>2, <2>3 DEF OnItsWay, Undisturbed
  <2> QED
    BY <2>1, <2>2, <2>3 DEF OnItsWay
<1> QED
  BY <1>1, <1>2 DEF Settles

\* reschedule_from forgets the next run, pushes it, or changes nothing.
LEMMA RescheduleNext ==
  ASSUME NEW t \in Timers, NEW spec, NEW from, NEW h,
         NEW n \in [Timers -> Nat \cup {NoTime}],
         RescheduleFrom(t, spec, from, h, n)
  PROVE  /\ h \subseteq heap'
         /\ \A u \in Timers : \/ nextRuns'[u] = n[u]
                              \/ nextRuns'[u] = NoTime
                              \/ \E e \in heap' : e.timer = u /\ e.at = nextRuns'[u]
<1> DEFINE at == NextRunAfter(spec.sched, from)
<1>1. CASE heap' = h /\ nextRuns' = n
  BY <1>1
<1>2. CASE heap' = h /\ nextRuns' = [n EXCEPT ![t] = NoTime]
  BY <1>2
<1>3. CASE PushFirstRun(t, at, h, n)
  <2> HIDE DEF at
  <2>1. heap' = h \cup {FirstRun(t, at)} /\ nextRuns' = [n EXCEPT ![t] = at]
    BY <1>3 DEF PushFirstRun
  <2>2. FirstRun(t, at).timer = t /\ FirstRun(t, at).at = at
    BY DEF FirstRun
  <2> QED
    BY <2>1, <2>2
<1> QED
  BY <1>1, <1>2, <1>3 DEF RescheduleFrom

LEMMA ScheduleTimerQueue ==
  ASSUME TypeOK, QueueInv, NEW t \in Timers, NEW q \in SpecOf[t], ScheduleTimer(t, q)
  PROVE  QueueInv'
<1> DEFINE updated == specs[t] # NoSpec /\ specs[t] # Resolve(t, q)
           h == IF updated THEN RemoveTimer(heap, t) ELSE heap
           n == IF updated THEN [nextRuns EXCEPT ![t] = NoTime] ELSE nextRuns
           at == NextRunAfter(Resolve(t, q).sched, now)
<1>1. UNCHANGED <<tasks, due, loop, shuttingDown>>
  BY DEF ScheduleTimer, flags, loopv
<1>2. n \in [Timers -> Nat \cup {NoTime}]
  BY DEF TypeOK
<1>3. ASSUME NEW u \in Timers, h \subseteq heap', nextRuns'[u] = n[u] PROVE Settles(u)
  BY <1>1, <1>3 DEF Settles, Undisturbed, RemoveTimer, TypeOK
<1>4. ASSUME NEW u \in Timers PROVE Settles(u)
  <2> HIDE DEF h, n, at
  <2>1. CASE PushFirstRun(t, at, h, n)
    <3>1. heap' = h \cup {FirstRun(t, at)} /\ nextRuns' = [n EXCEPT ![t] = at]
      BY <2>1 DEF PushFirstRun
    <3>2. FirstRun(t, at).timer = t /\ FirstRun(t, at).at = at
      BY DEF FirstRun
    <3>3. CASE u = t
      BY <1>2, <3>1, <3>2, <3>3 DEF Settles
    <3>4. CASE u # t
      BY <1>2, <1>3, <1>4, <3>1, <3>4
    <3> QED
      BY <3>3, <3>4
  <2>2. CASE heap' = h /\ nextRuns' = n
    BY <1>3, <1>4, <2>2
  <2> QED
    BY <2>1, <2>2 DEF ScheduleTimer, h, n, at
<1> QED
  BY <1>1, <1>4, SettlesQueue DEF QueueInv, BatchOnlySpawning

LEMMA LoopQueue ==
  ASSUME QueueInv, LoopStep
  PROVE  QueueInv'
<1> USE DEF sched, flags, loopv
<1>1. UNCHANGED <<nextRuns, shuttingDown>>
  BY DEF LoopStep, LoopExit, LoopPop, LoopCount, LoopSpawn, LoopDrop, LoopPark, LoopWakeByTimer,
         LoopWakeByNotify
<1>2. BatchOnlySpawning'
  BY DEF LoopStep, LoopExit, LoopPop, LoopCount, LoopSpawn, LoopDrop, LoopPark, LoopWakeByTimer,
         LoopWakeByNotify, QueueInv, BatchOnlySpawning
<1>3. ASSUME NEW u \in Timers, ~shuttingDown PROVE Undisturbed(u)
  <2>1. CASE LoopPop
    BY <2>1 DEF LoopPop, Undisturbed, QueueInv, BatchOnlySpawning
  <2>2. CASE LoopSpawn
    <3>1. PICK e \in due :
            /\ due' = due \ {e} /\ heap' = heap
            /\ tasks' = tasks \cup {[pc |-> "spawned", entry |-> e, spec |-> NoSpec]}
      BY <2>2 DEF LoopSpawn, Earliest
    <3> DEFINE new == [pc |-> "spawned", entry |-> e, spec |-> NoSpec]
    <3>2. new \in tasks' /\ new.pc = "spawned" /\ new.entry = e
      BY <3>1
    <3> HIDE DEF new
    <3> QED
      BY <3>1, <3>2 DEF Undisturbed
  <2>3. CASE UNCHANGED <<heap, due, tasks>>
    BY <2>3 DEF Undisturbed
  <2> QED
    BY <1>3, <2>1, <2>2, <2>3
    DEF LoopStep, LoopExit, LoopCount, LoopDrop, LoopPark, LoopWakeByTimer, LoopWakeByNotify
<1> QED
  BY <1>1, <1>2, <1>3, SettlesQueue DEF Settles

LEMMA TaskQueue ==
  ASSUME TypeOK, QueueInv, NEW k \in tasks, TaskBegin(k) \/ TaskEnd(k)
  PROVE  QueueInv'
<1> USE DEF sched, flags, loopv
<1> DEFINE t == k.entry.timer
           n == [nextRuns EXCEPT ![t] = NoTime]
<1>1. t \in Timers /\ n \in [Timers -> Nat \cup {NoTime}]
  BY DEF TypeOK, Task, Entry
<1>2. UNCHANGED <<due, loop>> /\ (shuttingDown' \/ ~shuttingDown)
  BY DEF TaskBegin, TaskEnd, RunSkip, RunStart, RunStartFault, RunSucceed, RunRetry,
         RunDie, RunFinishFault, StopEngine
<1>3. \A j \in tasks : j # k => j \in tasks'
  BY DEF TaskBegin, TaskEnd, RunSkip, RunStart, RunStartFault, RunSucceed, RunRetry,
         RunDie, RunFinishFault, FinishRun
\* A task that starts or skips has its next run forgotten first.
<1>4. ASSUME NEW m \in {nextRuns, n}, m = n \/ k.pc = "calling",
             \/ \E spec, from : RescheduleFrom(t, spec, from, heap, m)
             \/ heap' = heap /\ nextRuns' = m,
             NEW u \in Timers
      PROVE  Settles(u)
  <2>1. m \in [Timers -> Nat \cup {NoTime}]
    BY <1>1, <1>4 DEF TypeOK
  <2>2. /\ heap \subseteq heap'
        /\ \/ nextRuns'[u] = m[u]
           \/ nextRuns'[u] = NoTime
           \/ \E e \in heap' : e.timer = u /\ e.at = nextRuns'[u]
    BY <1>1, <1>4, <2>1, RescheduleNext
  <2>3. CASE nextRuns'[u] = m[u]
    <3>1. CASE u = t /\ m = n
      BY <1>1, <2>3, <3>1 DEF Settles, TypeOK
    <3>2. CASE u # t
      <4>1. nextRuns'[u] = nextRuns[u]
        BY <1>4, <2>3, <3>2 DEF TypeOK
      <4> QED
        BY <1>2, <1>3, <2>2, <3>2, <4>1 DEF Settles, Undisturbed
    <3>3. CASE k.pc = "calling" /\ m = nextRuns
      BY <1>2, <1>3, <2>2, <2>3, <3>3 DEF Settles, Undisturbed
    <3> QED
      BY <1>4, <3>1, <3>2, <3>3
  <2> QED
    BY <2>2, <2>3 DEF Settles
<1>5. ASSUME ~shuttingDown', NEW u \in Timers PROVE Settles(u)
  <2> HIDE DEF n
  <2>1. CASE RunSkip(k)
    BY <1>4, <1>5, <2>1 DEF RunSkip, n
  <2>2. CASE RunStart(k)
    BY <1>4, <1>5, <2>2 DEF RunStart, n
  <2>3. CASE RunSucceed(k)
    BY <1>4, <1>5, <2>3 DEF RunSucceed
  <2>4. CASE RunDie(k)
    BY <1>4, <1>5, <2>4 DEF RunDie
  <2>5. CASE RunRetry(k)
    <3>1. /\ k.pc = "calling" /\ nextRuns' = KeptNextRuns(k) /\ KeptHeap(k) \subseteq heap'
      BY <2>5 DEF RunRetry
    <3>2. CASE u = t /\ k.spec.overlap # "Delay"
      BY <1>1, <3>1, <3>2 DEF Settles, KeptNextRuns, TypeOK
    <3>3. CASE u # t \/ k.spec.overlap = "Delay"
      BY <1>1, <1>2, <1>3, <3>1, <3>3
      DEF Settles, Undisturbed, KeptNextRuns, KeptHeap, RemoveTimer, TypeOK
    <3> QED
      BY <3>2, <3>3
  <2>6. CASE RunStartFault(k) \/ RunFinishFault(k)
    BY <1>5, <2>6 DEF RunStartFault, RunFinishFault, StopEngine
  <2> QED
    BY <2>1, <2>2, <2>3, <2>4, <2>5, <2>6 DEF TaskBegin, TaskEnd
<1> QED
  BY <1>2, <1>5, SettlesQueue DEF QueueInv, BatchOnlySpawning

LEMMA NextQueue == TypeOK /\ Anchored /\ QueueInv /\ [Next]_vars => QueueInv'
<1> SUFFICES ASSUME TypeOK, Anchored, QueueInv, [Next]_vars PROVE QueueInv'
  OBVIOUS
<1> USE DEF sched, flags, loopv
<1>1. ASSUME NEW t \in Timers, NEW q \in SpecOf[t], ScheduleTimer(t, q) PROVE QueueInv'
  BY <1>1, ScheduleTimerQueue
<1>2. CASE \/ Start \/ NotifyIdle \/ Tick \/ UNCHANGED vars
           \/ \E c \in Closers : ShutdownCall(c) \/ CloserStep(c) \/ ShutdownTimesOut(c)
  <2>1. UNCHANGED <<nextRuns, heap, due, tasks>> /\ (shuttingDown' \/ ~shuttingDown)
    BY <1>2 DEF Start, NotifyIdle, Tick, vars, ShutdownCall, CloserStep, ShutdownSignal,
                ShutdownCheck, ShutdownArm, ShutdownFinish, ShutdownTimesOut
  <2>2. due # {} => loop' = loop
    BY <1>2 DEF Start, NotifyIdle, Tick, vars, ShutdownCall, CloserStep, ShutdownSignal,
                ShutdownCheck, ShutdownArm, ShutdownFinish, ShutdownTimesOut,
                QueueInv, BatchOnlySpawning, Anchored
  <2>3. \A u \in Timers : Settles(u)
    BY <2>1 DEF Settles, Undisturbed
  <2> QED
    BY <2>1, <2>2, <2>3, SettlesQueue DEF QueueInv, BatchOnlySpawning
<1>3. CASE LoopStep
  BY <1>3, LoopQueue
<1>4. ASSUME NEW k \in tasks, TaskBegin(k) \/ TaskEnd(k) PROVE QueueInv'
  BY <1>4, TaskQueue
<1>5. CASE Reopen
  BY <1>5 DEF Reopen, QueueInv, NextRunIsQueued, BatchOnlySpawning
<1> QED
  BY <1>1, <1>2, <1>3, <1>4, <1>5 DEF Next

\* The next_run_at that status() reports is the deadline of an entry that is
\* in the heap, in the loop's batch or with a task that has not started.
THEOREM NextRunSafe == Spec => []NextRunIsQueued
<1>1. QueueInv => NextRunIsQueued
  BY DEF QueueInv
<1> QED
  BY <1>1, InitQueue, NextQueue, InitAnchored, NextAnchored, TypeCorrect, PTL DEF Spec

-----------------------------------------------------------------------------
(* A recurring timer is never forgotten.  Having a task is not enough for   *)
(* an inductive argument: only a task that will queue the next run counts,  *)
(* so a callback under way counts only if it works from a recurring spec    *)
(* with policy delay.  (The other policies queue the next run first.)       *)

Carries(k) == k.pc = "spawned" \/ (k.spec.overlap = "Delay" /\ Recurs(k.spec))

Held(t) ==
  \/ \E e \in heap \cup due : e.timer = t
  \/ \E k \in tasks : k.entry.timer = t /\ Carries(k)

RecurringHeld ==
  ~shuttingDown /\ ~stopped => \A t \in registry : Recurs(specs[t]) => Held(t)

\* A recurring schedule always has a next occurrence.
LEMMA RecursForever ==
  ASSUME NEW spec \in TimerSpec \cup {NoSpec}, Recurs(spec), NEW from \in Nat
  PROVE  NextRunAfter(spec.sched, from) # NoTime
<1> DEFINE s == spec.sched
<1>1. s \in Schedule /\ s.n \in Nat /\ s.n > 0 /\ s.kind \in {"Every", "Cron"}
  BY NoSpecSchedule DEF Schedule, Recurs, IsOneShot
<1> HIDE DEF s
<1>2. from \div s.n \in Nat
  BY <1>1
<1>3. \A a, b \in Nat : (a + 1) * b \in Nat
  OBVIOUS
<1>4. ((from \div s.n) + 1) * s.n \in Nat
  BY <1>1, <1>2, <1>3
<1>5. NextRunAfter(s, from) \in Nat
  BY <1>1, <1>4 DEF NextRunAfter
<1> QED
  BY <1>5 DEF s, NoTime

\* reschedule_from of a recurring spec queues the next run.
LEMMA RescheduleHolds ==
  ASSUME ~shuttingDown, ~stopped, NEW t,
         NEW spec \in TimerSpec \cup {NoSpec}, Recurs(spec), NEW from \in Nat,
         NEW h, NEW n, RescheduleFrom(t, spec, from, h, n)
  PROVE  Held(t)'
<1> DEFINE at == NextRunAfter(spec.sched, from)
<1>1. PushFirstRun(t, at, h, n)
  BY RecursForever DEF RescheduleFrom
<1>2. FirstRun(t, at) \in heap' /\ FirstRun(t, at).timer = t
  BY <1>1 DEF PushFirstRun, FirstRun
<1> QED
  BY <1>2 DEF Held

\* What carries timer u is still there after the step.
StillHeld(u) ==
  /\ \A e \in heap \cup due : e.timer = u =>
       \/ e \in heap' \cup due'
       \/ \E k \in tasks' : k.pc = "spawned" /\ k.entry = e
  /\ \A k \in tasks : k.entry.timer = u /\ Carries(k) => k \in tasks'

LEMMA StaysHeld ==
  ASSUME NEW u, Held(u), StillHeld(u)
  PROVE  Held(u)'
<1>1. CASE \E e \in heap \cup due : e.timer = u
  BY <1>1 DEF StillHeld, Held, Carries
<1>2. CASE \E k \in tasks : k.entry.timer = u /\ Carries(k)
  BY <1>2 DEF StillHeld, Held, Carries
<1> QED
  BY <1>1, <1>2 DEF Held

LEMMA StepHeld ==
  ASSUME RecurringHeld, UNCHANGED <<specs, registry>>,
         shuttingDown' \/ ~shuttingDown, stopped' \/ ~stopped,
         ~shuttingDown' /\ ~stopped' =>
            \A u \in registry : Recurs(specs[u]) => StillHeld(u) \/ Held(u)'
  PROVE  RecurringHeld'
BY StaysHeld DEF RecurringHeld, Recurs

\* schedule() leaves a recurring timer with an entry or a task to come.
LEMMA ScheduleTimerHeld ==
  ASSUME TypeOK, QueueInv, RecurringHeld, NEW t \in Timers, NEW q \in SpecOf[t],
         ScheduleTimer(t, q)
  PROVE  RecurringHeld'
<1> DEFINE spec == Resolve(t, q)
           updated == specs[t] # NoSpec /\ specs[t] # spec
           h == IF updated THEN RemoveTimer(heap, t) ELSE heap
           n == IF updated THEN [nextRuns EXCEPT ![t] = NoTime] ELSE nextRuns
           at == NextRunAfter(spec.sched, now)
<1>1. /\ ~shuttingDown /\ ~stopped /\ UNCHANGED <<tasks, due, flags>>
      /\ specs' = [specs EXCEPT ![t] = spec] /\ registry' = registry \cup {t}
  BY DEF ScheduleTimer, loopv
<1>2. spec \in TimerSpec /\ now \in Nat
  BY ResolveType DEF TypeOK
<1>3. \/ n[t] = NoTime /\ at # NoTime /\ PushFirstRun(t, at, h, n)
      \/ (n[t] # NoTime \/ at = NoTime) /\ heap' = h
  BY DEF ScheduleTimer
<1>4. h \subseteq heap'
  BY <1>3 DEF PushFirstRun
<1>5. ASSUME NEW u \in registry, u # t, Recurs(specs'[u]) PROVE Held(u)'
  <2>1. u \in Timers /\ specs'[u] = specs[u]
    BY <1>1, <1>5 DEF TypeOK
  <2>2. Held(u)
    BY <1>1, <1>5, <2>1 DEF RecurringHeld
  <2>3. StillHeld(u)
    BY <1>1, <1>4, <1>5 DEF StillHeld, RemoveTimer
  <2> QED
    BY <2>2, <2>3, StaysHeld
<1>6. ASSUME Recurs(spec) PROVE Held(t)'
  <2>1. at # NoTime
    BY <1>2, <1>6, RecursForever
  <2>2. CASE n[t] = NoTime
    <3>1. FirstRun(t, at) \in heap' /\ FirstRun(t, at).timer = t
      BY <1>3, <2>1, <2>2 DEF PushFirstRun, FirstRun
    <3> QED
      BY <3>1 DEF Held
  <2>3. CASE n[t] # NoTime
    <3>1. ~updated /\ nextRuns[t] # NoTime
      BY <2>3 DEF TypeOK
    <3>2. heap' = heap
      BY <1>3, <2>3, <3>1
    <3>3. OnItsWay(t, nextRuns[t])
      BY <1>1, <3>1, QueuedMeans DEF QueueInv
    <3> QED
      BY <1>1, <3>2, <3>3 DEF OnItsWay, Held, Carries
  <2> QED
    BY <2>2, <2>3
<1>7. specs'[t] = spec
  BY <1>1 DEF TypeOK
<1> QED
  BY <1>1, <1>5, <1>6, <1>7 DEF RecurringHeld

LEMMA LoopHeld ==
  ASSUME QueueInv, RecurringHeld, LoopStep
  PROVE  RecurringHeld'
<1> USE DEF durable, sched, flags, loopv
<1>1. UNCHANGED <<specs, registry, shuttingDown, stopped>>
  BY DEF LoopStep, LoopExit, LoopPop, LoopCount, LoopSpawn, LoopDrop, LoopPark, LoopWakeByTimer,
         LoopWakeByNotify
<1>2. ASSUME NEW u, ~shuttingDown PROVE StillHeld(u)
  <2>1. CASE LoopPop
    BY <2>1 DEF LoopPop, StillHeld, QueueInv, BatchOnlySpawning
  <2>2. CASE LoopSpawn
    <3>1. PICK e \in due :
            /\ due' = due \ {e} /\ heap' = heap
            /\ tasks' = tasks \cup {[pc |-> "spawned", entry |-> e, spec |-> NoSpec]}
      BY <2>2 DEF LoopSpawn, Earliest
    <3> DEFINE new == [pc |-> "spawned", entry |-> e, spec |-> NoSpec]
    <3>2. new \in tasks' /\ new.pc = "spawned" /\ new.entry = e
      BY <3>1
    <3> HIDE DEF new
    <3> QED
      BY <3>1, <3>2 DEF StillHeld
  <2>3. CASE UNCHANGED <<heap, due, tasks>>
    BY <2>3 DEF StillHeld
  <2> QED
    BY <1>2, <2>1, <2>2, <2>3
    DEF LoopStep, LoopExit, LoopCount, LoopDrop, LoopPark, LoopWakeByTimer, LoopWakeByNotify
<1> QED
  BY <1>1, <1>2, StepHeld

LEMMA TaskHeld ==
  ASSUME TypeOK, RecurringHeld, NEW k \in tasks, TaskBegin(k) \/ TaskEnd(k)
  PROVE  RecurringHeld'
<1> USE DEF durable, sched, flags, loopv
<1> DEFINE t == k.entry.timer
<1>1. /\ t \in Timers /\ k.entry.at \in Nat /\ now \in Nat
      /\ specs[t] \in TimerSpec \cup {NoSpec} /\ k.spec \in TimerSpec \cup {NoSpec}
  BY DEF TypeOK, Task, Entry
<1>2. /\ UNCHANGED <<due, specs, registry>>
      /\ shuttingDown' \/ ~shuttingDown
      /\ stopped' \/ ~stopped
  BY DEF TaskBegin, TaskEnd, RunSkip, RunStart, RunStartFault, RunSucceed, RunRetry,
         RunDie, RunFinishFault, StopEngine
<1>3. \A j \in tasks : j # k => j \in tasks'
  BY DEF TaskBegin, TaskEnd, RunSkip, RunStart, RunStartFault, RunSucceed, RunRetry,
         RunDie, RunFinishFault, FinishRun
<1>4. ASSUME heap \subseteq heap', NEW u, u # t \/ ~Carries(k) PROVE StillHeld(u)
  BY <1>2, <1>3, <1>4 DEF StillHeld
<1>5. ASSUME ~shuttingDown', ~stopped', NEW u \in registry, Recurs(specs[u])
      PROVE  StillHeld(u) \/ Held(u)'
  <2>1. CASE RunSkip(k)
    <3>1. RescheduleFrom(t, specs[t], k.entry.at, heap, [nextRuns EXCEPT ![t] = NoTime])
          /\ ~shuttingDown /\ ~stopped
      BY <1>5, <2>1 DEF RunSkip
    <3>2. heap \subseteq heap'
      BY <3>1 DEF RescheduleFrom, PushFirstRun
    <3>3. Recurs(specs[t]) => Held(t)'
      BY <1>1, <3>1, RescheduleHolds
    <3> QED
      BY <1>4, <1>5, <3>2, <3>3
  <2>2. CASE RunStart(k)
    <3>1. heap \subseteq heap' /\ ~shuttingDown /\ ~stopped
      BY <1>5, <2>2 DEF RunStart, RescheduleFrom, PushFirstRun
    <3>2. CASE specs[t].overlap \in {"Skip", "Allow"} /\ Recurs(specs[t])
      <4>1. RescheduleFrom(t, specs[t], k.entry.at, heap, [nextRuns EXCEPT ![t] = NoTime])
        BY <2>2, <3>2 DEF RunStart
      <4>2. Held(t)'
        BY <1>1, <3>1, <3>2, <4>1, RescheduleHolds
      <4> QED
        BY <1>4, <3>1, <4>2
    <3>3. CASE specs[t].overlap \notin {"Skip", "Allow"} /\ Recurs(specs[t])
      <4> DEFINE new == [pc |-> "calling", entry |-> k.entry, spec |-> specs[t]]
      <4>1. specs[t].overlap = "Delay"
        BY <1>1, <3>3 DEF TimerSpec, NoSpec, Overlaps, Recurs, IsOneShot
      <4>2. new \in tasks' /\ new.entry = k.entry /\ new.spec = specs[t]
        BY <2>2 DEF RunStart
      <4> HIDE DEF new
      <4>3. Held(t)'
        BY <3>3, <4>1, <4>2 DEF Held, Carries
      <4> QED
        BY <1>4, <3>1, <4>3
    <3> QED
      BY <1>4, <1>5, <3>1, <3>2, <3>3
  <2>3. CASE RunSucceed(k) \/ RunDie(k)
    <3>1. heap \subseteq heap' /\ k.pc = "calling" /\ ~shuttingDown /\ ~stopped
      BY <1>5, <2>3 DEF RunSucceed, RunDie, RescheduleFrom, PushFirstRun
    <3>2. CASE Carries(k)
      <4>1. k.spec.overlap = "Delay" /\ Recurs(k.spec)
        BY <3>1, <3>2 DEF Carries
      <4>2. RescheduleFrom(t, k.spec, now, heap, nextRuns)
        BY <2>3, <4>1 DEF RunSucceed, RunDie, Recurs, IsOneShot
      <4>3. Held(t)'
        BY <1>1, <3>1, <4>1, <4>2, RescheduleHolds
      <4> QED
        BY <1>4, <3>1, <4>3
    <3> QED
      BY <1>4, <3>1, <3>2
  <2>4. CASE RunRetry(k)
    <3> DEFINE again == [timer |-> t, at |-> NextRetryAt(now, FailedAttempt(t)),
                         run |-> k.entry.run, attempt |-> FailedAttempt(t) + 1]
    <3>1. again \in heap' /\ again.timer = t
      BY <1>2, <1>5, <2>4 DEF RunRetry
    <3> HIDE DEF again
    <3>2. KeptHeap(k) \subseteq heap'
      BY <2>4 DEF RunRetry
    <3>3. u # t => StillHeld(u)
      BY <1>2, <1>3, <3>2 DEF StillHeld, KeptHeap, RemoveTimer
    <3> QED
      BY <3>1, <3>3 DEF Held
  <2>5. CASE RunStartFault(k) \/ RunFinishFault(k)
    BY <1>5, <2>5 DEF RunStartFault, RunFinishFault, StopEngine
  <2> QED
    BY <2>1, <2>2, <2>3, <2>4, <2>5 DEF TaskBegin, TaskEnd
<1> QED
  BY <1>2, <1>5, StepHeld

LEMMA NextHeld == TypeOK /\ QueueInv /\ RecurringHeld /\ [Next]_vars => RecurringHeld'
<1> SUFFICES ASSUME TypeOK, QueueInv, RecurringHeld, [Next]_vars PROVE RecurringHeld'
  OBVIOUS
<1> USE DEF durable, sched, flags, loopv
<1>1. ASSUME NEW t \in Timers, NEW q \in SpecOf[t], ScheduleTimer(t, q)
      PROVE  RecurringHeld'
  BY <1>1, ScheduleTimerHeld
<1>2. CASE \/ Start \/ NotifyIdle \/ Tick \/ UNCHANGED vars
           \/ \E c \in Closers : ShutdownCall(c) \/ CloserStep(c) \/ ShutdownTimesOut(c)
  <2>1. /\ UNCHANGED <<specs, registry, heap, due, tasks>>
        /\ shuttingDown' \/ ~shuttingDown
        /\ stopped' \/ ~stopped
    BY <1>2 DEF Start, NotifyIdle, Tick, vars, ShutdownCall, CloserStep, ShutdownSignal,
                ShutdownCheck, ShutdownArm, ShutdownFinish, ShutdownTimesOut
  <2>2. \A u \in registry : StillHeld(u)
    BY <2>1 DEF StillHeld
  <2> QED
    BY <2>1, <2>2, StepHeld
<1>3. CASE LoopStep
  BY <1>3, LoopHeld
<1>4. ASSUME NEW k \in tasks, TaskBegin(k) \/ TaskEnd(k) PROVE RecurringHeld'
  BY <1>4, TaskHeld
<1>5. CASE Reopen
  BY <1>5 DEF Reopen, RecurringHeld
<1> QED
  BY <1>1, <1>2, <1>3, <1>4, <1>5 DEF Next

\* While the engine accepts work, a registered recurring timer always has an
\* entry or a task, through changes of schedule and policy, retries, deaths,
\* skipped occurrences and restarts.
THEOREM RecurringSafe == Spec => []RecurringNeverStalls
<1>1. RecurringHeld => RecurringNeverStalls
  BY DEF RecurringHeld, RecurringNeverStalls, Held, Recurs, Waiting, Working
<1>2. Init => RecurringHeld
  BY DEF Init, RecurringHeld
<1> QED
  BY <1>1, <1>2, InitQueue, NextQueue, NextHeld, InitAnchored, NextAnchored, TypeCorrect,
     PTL DEF Spec

-----------------------------------------------------------------------------
(* The runs of one timer                                                   *)

DelayTimers == Fixed({"Delay"})

\* What the seven steps of run_timer have in common.
LEMMA TaskShape ==
  ASSUME TypeOK, NEW k \in tasks, TaskBegin(k) \/ TaskEnd(k)
  PROVE  /\ UNCHANGED <<specs, registry, started, due, loop, reopens>>
         /\ \A e \in heap' : e \in heap \/ e.timer = k.entry.timer
         /\ \A e \in heap : e.timer # k.entry.timer => e \in heap'
         /\ \A j \in tasks' : j \in tasks \ {k} \/ (j.entry = k.entry /\ RunStart(k))
         /\ \A j \in tasks : j # k => j \in tasks'
<1> USE DEF durable, sched, flags, loopv, bounds
<1> DEFINE t == k.entry.timer
<1>1. UNCHANGED <<specs, registry, started, due, loop, reopens>>
  BY DEF TaskBegin, TaskEnd, RunSkip, RunStart, RunStartFault, RunSucceed, RunRetry,
         RunDie, RunFinishFault, StopEngine
<1>2. RunRetry(k) \/ RunFinishFault(k) \/ MayPush(t, heap)
  BY RescheduleAddsOne DEF TaskBegin, TaskEnd, RunSkip, RunStart, RunStartFault,
                           RunSucceed, RunDie, MayPush
<1>3. \A e \in heap' : e \in heap \/ e.timer = t
  BY <1>2 DEF RunRetry, RunFinishFault, KeptHeap, RemoveTimer, MayPush
<1>4. \A e \in heap : e.timer # t => e \in heap'
  BY <1>2 DEF RunRetry, RunFinishFault, KeptHeap, RemoveTimer, MayPush
<1>5. tasks' = tasks \ {k}
      \/ (RunStart(k) /\ \E j \in tasks' : tasks' = (tasks \ {k}) \cup {j} /\ j.entry = k.entry)
  <2>1. CASE RunStart(k)
    <3> DEFINE new == [pc |-> "calling", entry |-> k.entry, spec |-> specs[t]]
    <3>1. tasks' = (tasks \ {k}) \cup {new} /\ new.entry = k.entry
      BY <2>1 DEF RunStart
    <3> HIDE DEF new
    <3> QED
      BY <2>1, <3>1
  <2>2. CASE ~RunStart(k)
    BY <2>2 DEF TaskBegin, TaskEnd, RunSkip, RunStartFault, RunSucceed, RunRetry,
                RunDie, RunFinishFault, FinishRun
  <2> QED
    BY <2>1, <2>2
<1> QED
  BY <1>1, <1>3, <1>4, <1>5

-----------------------------------------------------------------------------
(* A delay timer never overlaps itself: it has one run at most, wherever    *)
(* that run is.  Before start() this holds of every timer (its policy may   *)
(* still change), because schedule() pushes only when next_runs has none.   *)

Lonely(t) ==
  /\ \A e, f \in heap \cup due : e.timer = t /\ f.timer = t => e = f
  /\ \A j, k \in tasks : j.entry.timer = t /\ k.entry.timer = t => j = k
  /\ \A k \in tasks, e \in heap \cup due : ~(k.entry.timer = t /\ e.timer = t)

LoneInv ==
  /\ \A t \in Timers : t \in DelayTimers \/ ~started => Lonely(t)
  /\ ~started => \A e \in heap : nextRuns[e.timer] # NoTime

LEMMA InitLone == Init => LoneInv
BY DEF Init, LoneInv, Lonely

\* Nothing is added to what timer t has.
LEMMA FewerLonely ==
  ASSUME NEW t, Lonely(t),
         \A e \in heap' \cup due' : e.timer = t => e \in heap \cup due,
         \A k \in tasks' : k.entry.timer = t => k \in tasks
  PROVE  Lonely(t)'
BY DEF Lonely

\* Before start() there is only the heap.
LEMMA UnstartedQuiet ==
  ASSUME Anchored, QueueInv, ~started
  PROVE  tasks = {} /\ due = {}
BY DEF Anchored, QueueInv, BatchOnlySpawning

LEMMA ScheduleTimerLone ==
  ASSUME TypeOK, Anchored, QueueInv, LoneInv, NEW t \in Timers, NEW q \in SpecOf[t],
         ScheduleTimer(t, q)
  PROVE  LoneInv'
<1> DEFINE spec == Resolve(t, q)
           updated == specs[t] # NoSpec /\ specs[t] # spec
           h == IF updated THEN RemoveTimer(heap, t) ELSE heap
           n == IF updated THEN [nextRuns EXCEPT ![t] = NoTime] ELSE nextRuns
           at == NextRunAfter(spec.sched, now)
<1>1. /\ UNCHANGED <<tasks, due, started>>
      /\ specs' = [specs EXCEPT ![t] = spec]
      /\ t \in Reregistered \/ ~started \/ t \notin registry
  BY DEF ScheduleTimer, loopv, flags
<1>2. n \in [Timers -> Nat \cup {NoTime}]
  BY DEF TypeOK
<1>3. \/ /\ n[t] = NoTime /\ at # NoTime
         /\ heap' = h \cup {FirstRun(t, at)} /\ nextRuns' = [n EXCEPT ![t] = at]
      \/ (n[t] # NoTime \/ at = NoTime) /\ heap' = h /\ nextRuns' = n
  BY DEF ScheduleTimer, PushFirstRun
<1>4. FirstRun(t, at).timer = t
  BY DEF FirstRun
<1>5. h \subseteq heap /\ \A e \in h : updated => e.timer # t
  BY DEF RemoveTimer
<1>6. \A e \in heap' : e \in heap \/ e.timer = t
  BY <1>3, <1>4, <1>5
<1>7. ASSUME ~started, NEW e \in h PROVE n[e.timer] # NoTime
  <2>1. nextRuns[e.timer] # NoTime /\ e.timer \in Timers
    BY <1>5, <1>7 DEF LoneInv, TypeOK, Entry
  <2> QED
    BY <1>5, <2>1 DEF TypeOK
<1> HIDE DEF spec, h, n, at, updated
<1>8. ~started' => \A e \in heap' : nextRuns'[e.timer] # NoTime
  <2> SUFFICES ASSUME ~started, NEW e \in heap' PROVE nextRuns'[e.timer] # NoTime
    BY <1>1
  <2>1. CASE e \in h
    <3>1. e.timer \in Timers
      BY <1>5, <2>1 DEF TypeOK, Entry
    <3> QED
      BY <1>2, <1>3, <1>7, <2>1, <3>1
  <2>2. CASE e \notin h
    <3>1. e.timer = t /\ at # NoTime /\ nextRuns' = [n EXCEPT ![t] = at]
      BY <1>3, <1>4, <2>2
    <3> QED
      BY <1>2, <3>1
  <2> QED
    BY <2>1, <2>2
<1>9. ASSUME NEW u \in Timers, u # t, u \in DelayTimers' \/ ~started' PROVE Lonely(u)'
  <2>1. specs'[u] = specs[u]
    BY <1>1, <1>9 DEF TypeOK
  <2>2. Lonely(u)
    BY <1>1, <1>9, <2>1 DEF LoneInv, DelayTimers, Fixed
  <2> QED
    BY <1>1, <1>6, <1>9, <2>2, FewerLonely
<1>10. ASSUME t \in DelayTimers' \/ ~started' PROVE Lonely(t)'
  <2>1. ~started \/ t \notin registry
    BY <1>1, <1>10 DEF DelayTimers, Fixed
  <2>2. /\ \A k \in tasks : k.entry.timer # t
        /\ \A e \in due : e.timer # t
    BY <2>1, UnstartedQuiet DEF Anchored
  <2>3. \A e, f \in h : e.timer = t /\ f.timer = t => e = f
    BY <1>5, <2>1 DEF Anchored, LoneInv, Lonely
  <2>4. n[t] = NoTime => \A e \in h : e.timer # t
    BY <1>5, <1>7, <2>1 DEF Anchored
  <2>5. \A e, f \in heap' : e.timer = t /\ f.timer = t => e = f
    BY <1>3, <2>3, <2>4
  <2> QED
    BY <1>1, <2>2, <2>5 DEF Lonely
<1> QED
  BY <1>8, <1>9, <1>10 DEF LoneInv

LEMMA LoopLone ==
  ASSUME Anchored, CountInv, LoneInv, LoopStep
  PROVE  LoneInv'
<1> USE DEF durable, sched, flags, loopv
<1>1. UNCHANGED <<specs, started>> /\ started
  BY DEF LoopStep, LoopExit, LoopPop, LoopCount, LoopSpawn, LoopDrop, LoopPark, LoopWakeByTimer,
         LoopWakeByNotify, Anchored
<1>2. ASSUME NEW u \in DelayTimers PROVE Lonely(u)'
  <2>1. Lonely(u)
    BY <1>2 DEF LoneInv, DelayTimers, Fixed
  <2>2. CASE LoopSpawn
    <3>1. PICK e \in due :
            /\ due' = due \ {e} /\ heap' = heap
            /\ tasks' = tasks \cup {[pc |-> "spawned", entry |-> e, spec |-> NoSpec]}
      BY <2>2 DEF LoopSpawn, Earliest
    <3> DEFINE new == [pc |-> "spawned", entry |-> e, spec |-> NoSpec]
    <3>2. tasks' = tasks \cup {new} /\ new.entry = e
      BY <3>1
    <3> HIDE DEF new
    <3>3. CASE e.timer # u
      BY <2>1, <3>1, <3>2, <3>3, FewerLonely
    <3>4. CASE e.timer = u
      <4>1. e \notin heap' \cup due'
        BY <3>1 DEF CountInv, RunIdsApart
      <4>2. \A f \in heap' \cup due' : f.timer # u
        BY <2>1, <3>1, <3>4, <4>1 DEF Lonely
      <4>3. \A k \in tasks : k.entry.timer # u
        BY <2>1, <3>4 DEF Lonely
      <4> QED
        BY <3>2, <4>2, <4>3 DEF Lonely
    <3> QED
      BY <3>3, <3>4
  <2>3. CASE tasks' = tasks /\ heap' \cup due' \subseteq heap \cup due
    BY <2>1, <2>3, FewerLonely
  <2> QED
    BY <2>2, <2>3 DEF LoopStep, LoopExit, LoopPop, LoopCount, LoopDrop, LoopPark, LoopWakeByTimer,
                      LoopWakeByNotify, PopDue
<1> QED
  BY <1>1, <1>2 DEF LoneInv, DelayTimers, Fixed

LEMMA TaskLone ==
  ASSUME TypeOK, Anchored, LoneInv, NEW k \in tasks, TaskBegin(k) \/ TaskEnd(k)
  PROVE  LoneInv'
<1> DEFINE t == k.entry.timer
<1>1. /\ UNCHANGED <<specs, started, due>>
      /\ \A e \in heap' : e \in heap \/ e.timer = t
      /\ \A j \in tasks' : j \in tasks \ {k} \/ (j.entry = k.entry /\ RunStart(k))
  BY TaskShape
<1>2. started
  BY DEF Anchored
<1>3. ASSUME NEW u \in DelayTimers PROVE Lonely(u)'
  <2>1. Lonely(u)
    BY <1>3 DEF LoneInv, DelayTimers, Fixed
  <2>2. CASE u # t
    BY <1>1, <2>1, <2>2, FewerLonely
  <2>3. CASE u = t
    <3>1. /\ \A e \in heap \cup due : e.timer # u
          /\ \A j \in tasks : j.entry.timer = u => j = k
          /\ specs[t].overlap = "Delay"
      BY <1>3, <2>1, <2>3 DEF Lonely, DelayTimers, Fixed
    <3>2. CASE RunStart(k)
      <4> DEFINE new == [pc |-> "calling", entry |-> k.entry, spec |-> specs[t]]
      <4>1. heap' = heap /\ tasks' = (tasks \ {k}) \cup {new}
        BY <3>1, <3>2 DEF RunStart
      <4> HIDE DEF new
      <4> QED
        BY <1>1, <2>3, <3>1, <4>1 DEF Lonely
    <3>3. CASE ~RunStart(k)
      <4>1. \A j \in tasks' : j.entry.timer # u
        BY <1>1, <3>1, <3>3
      <4>2. \A e, f \in heap' : e.timer = u /\ f.timer = u => e = f
        <5>1. CASE MayPush(t, heap)
          BY <3>1, <5>1 DEF MayPush
        <5>2. CASE RunRetry(k) \/ RunFinishFault(k)
          BY <3>1, <5>2, KeptSmaller DEF RunRetry, RunFinishFault
        <5> QED
          BY <3>3, <5>1, <5>2, RescheduleAddsOne
          DEF TaskBegin, TaskEnd, RunSkip, RunStartFault, RunSucceed, RunDie, MayPush
      <4> QED
        BY <1>1, <3>1, <4>1, <4>2 DEF Lonely
    <3> QED
      BY <3>2, <3>3
  <2> QED
    BY <2>2, <2>3
<1> QED
  BY <1>1, <1>2, <1>3 DEF LoneInv, DelayTimers, Fixed

LEMMA NextLone ==
  TypeOK /\ Anchored /\ CountInv /\ QueueInv /\ LoneInv /\ [Next]_vars => LoneInv'
<1> SUFFICES ASSUME TypeOK, Anchored, CountInv, QueueInv, LoneInv, [Next]_vars
             PROVE  LoneInv'
  OBVIOUS
<1> USE DEF durable, sched, flags, loopv
<1>1. ASSUME NEW t \in Timers, NEW q \in SpecOf[t], ScheduleTimer(t, q) PROVE LoneInv'
  BY <1>1, ScheduleTimerLone
<1>2. CASE \/ Start \/ NotifyIdle \/ Tick \/ UNCHANGED vars
           \/ \E c \in Closers : ShutdownCall(c) \/ CloserStep(c) \/ ShutdownTimesOut(c)
  <2>1. /\ UNCHANGED <<specs, nextRuns, heap, due, tasks>>
        /\ started' = started \/ started' = TRUE
    BY <1>2 DEF Start, NotifyIdle, Tick, vars, ShutdownCall, CloserStep, ShutdownSignal,
                ShutdownCheck, ShutdownArm, ShutdownFinish, ShutdownTimesOut
  <2> QED
    BY <2>1, FewerLonely DEF LoneInv, DelayTimers, Fixed
<1>3. CASE LoopStep
  BY <1>3, LoopLone
<1>4. ASSUME NEW k \in tasks, TaskBegin(k) \/ TaskEnd(k) PROVE LoneInv'
  BY <1>4, TaskLone
<1>5. CASE Reopen
  BY <1>5 DEF Reopen, LoneInv, Lonely
<1> QED
  BY <1>1, <1>2, <1>3, <1>4, <1>5 DEF Next

\* Two callbacks of a delay timer never run at once, as long as nobody calls
\* schedule() for it again while it runs: for any number of retries, faults
\* and restarts, and whatever was asked for before start().
THEOREM DelaySafe == Spec => []DelayNeverOverlaps
<1>1. LoneInv => DelayNeverOverlaps
  BY DEF LoneInv, Lonely, DelayNeverOverlaps, DelayTimers, Fixed, Calling, Working
<1> QED
  BY <1>1, InitLone, NextLone, InitQueue, NextQueue, InitCount, NextCount, InitAnchored,
     NextAnchored, TypeCorrect, PTL DEF Spec

-----------------------------------------------------------------------------
(* A pending retry is on its way.  What makes this inductive is that a      *)
(* timer whose spec callers may still replace has no pending retry yet.     *)

RetriedTimers == Fixed({"Delay", "Allow"})

NoRetryYet ==
  reopens = 0 => \A t \in Timers : ~started \/ t \notin registry => pending[t] = NoRetry

\* Run r of timer t waits or works.
Follows(t, r) ==
  \/ \E e \in heap \cup due : e.timer = t /\ e.run = r
  \/ \E k \in tasks : k.entry.timer = t /\ k.entry.run = r

LEMMA RetryQueuedMeans ==
  RetryIsQueued <=>
    (reopens = 0 /\ ~shuttingDown /\ ~stopped =>
       \A t \in RetriedTimers : pending[t] # NoRetry => Follows(t, pending[t].run))
BY DEF RetryIsQueued, RetriedTimers, Follows, Waiting, Working

\* Every run of timer u is somewhere after the step too.
NoRunLost(u) ==
  /\ \A e \in heap \cup due : e.timer = u =>
       \/ e \in heap' \cup due'
       \/ \E k \in tasks' : k.entry = e
  /\ \A k \in tasks : k.entry.timer = u => \E j \in tasks' : j.entry = k.entry

LEMMA StillFollows ==
  ASSUME NEW u, NEW r, Follows(u, r), NoRunLost(u)
  PROVE  Follows(u, r)'
<1>1. CASE \E e \in heap \cup due : e.timer = u /\ e.run = r
  BY <1>1 DEF NoRunLost, Follows
<1>2. CASE \E k \in tasks : k.entry.timer = u /\ k.entry.run = r
  BY <1>2 DEF NoRunLost, Follows
<1> QED
  BY <1>1, <1>2 DEF Follows

RetryInv == NoRetryYet /\ RetryIsQueued

LEMMA InitRetry == Init => RetryInv
BY DEF Init, RetryInv, NoRetryYet, RetryIsQueued, Fixed

\* Steps that leave pending_retries and the specs alone and lose no run of a
\* timer whose retry must come.
LEMMA QuietRetry ==
  ASSUME RetryInv, UNCHANGED <<specs, pending, registry, reopens>>,
         started' = started \/ started' = TRUE,
         shuttingDown' \/ ~shuttingDown, stopped' \/ ~stopped,
         ~shuttingDown' /\ ~stopped' => \A u \in RetriedTimers : NoRunLost(u)
  PROVE  RetryInv'
<1>1. RetriedTimers' = RetriedTimers
  BY DEF RetriedTimers, Fixed
<1>2. NoRetryYet'
  BY DEF RetryInv, NoRetryYet
<1>3. ASSUME reopens' = 0, ~shuttingDown', ~stopped', NEW u \in RetriedTimers,
             pending[u] # NoRetry
      PROVE  Follows(u, pending[u].run)'
  <2>1. Follows(u, pending[u].run)
    BY <1>3, RetryQueuedMeans DEF RetryInv
  <2>2. PICK r : r = pending[u].run
    OBVIOUS
  <2>3. Follows(u, r)'
    BY <1>3, <2>1, <2>2, StillFollows
  <2> QED
    BY <2>2, <2>3 DEF Follows
<1>4. RetryIsQueued'
  BY <1>1, <1>3 DEF RetryIsQueued, RetriedTimers, Follows, Waiting, Working
<1> QED
  BY <1>2, <1>4 DEF RetryInv

LEMMA ScheduleTimerRetry ==
  ASSUME TypeOK, RetryInv, NEW t \in Timers, NEW q \in SpecOf[t], ScheduleTimer(t, q)
  PROVE  RetryInv'
<1>1. /\ UNCHANGED <<pending, tasks, due, flags, reopens>>
      /\ specs' = [specs EXCEPT ![t] = Resolve(t, q)] /\ registry' = registry \cup {t}
      /\ t \in Reregistered \/ ~started \/ t \notin registry
      /\ ~shuttingDown /\ ~stopped
  BY DEF ScheduleTimer, loopv, bounds
<1>2. NoRetryYet'
  BY <1>1 DEF RetryInv, NoRetryYet, flags
<1>3. \A e \in heap : e.timer # t => e \in heap'
  BY DEF ScheduleTimer, PushFirstRun, RemoveTimer
<1>4. ASSUME reopens = 0, NEW u \in RetriedTimers', pending[u] # NoRetry
      PROVE  Follows(u, pending[u].run)'
  <2>1. u \in Timers /\ u # t
    BY <1>1, <1>4 DEF RetryInv, NoRetryYet, RetriedTimers, Fixed
  <2>2. specs'[u] = specs[u]
    BY <1>1, <2>1 DEF TypeOK
  <2>3. u \in RetriedTimers
    BY <1>4, <2>1, <2>2 DEF RetriedTimers, Fixed
  <2>4. Follows(u, pending[u].run)
    BY <1>1, <1>4, <2>3, RetryQueuedMeans DEF RetryInv
  <2>5. NoRunLost(u)
    BY <1>1, <1>3, <2>1 DEF NoRunLost
  <2>6. PICK r : r = pending[u].run
    OBVIOUS
  <2>7. Follows(u, r)'
    BY <2>4, <2>5, <2>6, StillFollows
  <2> QED
    BY <1>1, <2>6, <2>7 DEF Follows
<1>5. RetryIsQueued'
  BY <1>1, <1>4 DEF RetryIsQueued, RetriedTimers, Follows, Waiting, Working
<1> QED
  BY <1>2, <1>5 DEF RetryInv

LEMMA LoopRetry ==
  ASSUME QueueInv, RetryInv, LoopStep
  PROVE  RetryInv'
<1> USE DEF durable, sched, flags, loopv, bounds
<1>1. UNCHANGED <<specs, pending, registry, flags, reopens>>
  BY DEF LoopStep, LoopExit, LoopPop, LoopCount, LoopSpawn, LoopDrop, LoopPark, LoopWakeByTimer,
         LoopWakeByNotify
<1>2. ASSUME NEW u, ~shuttingDown PROVE NoRunLost(u)
  <2>1. CASE LoopPop
    BY <2>1 DEF LoopPop, NoRunLost, QueueInv, BatchOnlySpawning
  <2>2. CASE LoopSpawn
    <3>1. PICK e \in due :
            /\ due' = due \ {e} /\ heap' = heap
            /\ tasks' = tasks \cup {[pc |-> "spawned", entry |-> e, spec |-> NoSpec]}
      BY <2>2 DEF LoopSpawn, Earliest
    <3> DEFINE new == [pc |-> "spawned", entry |-> e, spec |-> NoSpec]
    <3>2. new \in tasks' /\ new.entry = e /\ tasks \subseteq tasks'
      BY <3>1
    <3> HIDE DEF new
    <3> QED
      BY <3>1, <3>2 DEF NoRunLost
  <2>3. CASE UNCHANGED <<heap, due, tasks>>
    BY <2>3 DEF NoRunLost
  <2> QED
    BY <1>2, <2>1, <2>2, <2>3
    DEF LoopStep, LoopExit, LoopCount, LoopDrop, LoopPark, LoopWakeByTimer, LoopWakeByNotify
<1> QED
  BY <1>1, <1>2, QuietRetry

\* A run that starts keeps its entry; only a skip timer drops one.
LEMMA TaskBeginRetry ==
  ASSUME TypeOK, RetryInv, NEW k \in tasks, TaskBegin(k)
  PROVE  RetryInv'
<1> USE DEF durable, sched, flags, loopv
<1> DEFINE t == k.entry.timer
<1>1. /\ UNCHANGED <<specs, registry, started, due, loop, reopens>>
      /\ \A j \in tasks : j # k => j \in tasks'
      /\ \A e \in heap : e.timer # t => e \in heap'
  BY TaskShape
<1>2. UNCHANGED pending /\ (shuttingDown' \/ ~shuttingDown) /\ (stopped' \/ ~stopped)
  BY DEF TaskBegin, RunSkip, RunStart, RunStartFault, StopEngine
<1>3. ASSUME ~shuttingDown', NEW u \in RetriedTimers PROVE NoRunLost(u)
  <2>1. CASE u # t
    BY <1>1, <2>1 DEF NoRunLost
  <2>2. CASE u = t
    <3>1. ~RunSkip(k) /\ ~RunStartFault(k)
      BY <1>3, <2>2 DEF RunSkip, RunStartFault, Overlapping, RetriedTimers, Fixed, StopEngine
    <3> DEFINE new == [pc |-> "calling", entry |-> k.entry, spec |-> specs[t]]
    <3>2. new \in tasks' /\ new.entry = k.entry
      BY <3>1 DEF TaskBegin, RunStart
    <3>3. heap \subseteq heap'
      BY <3>1 DEF TaskBegin, RunStart, RescheduleFrom, PushFirstRun
    <3> HIDE DEF new
    <3> QED
      BY <1>1, <3>2, <3>3 DEF NoRunLost
  <2> QED
    BY <2>1, <2>2
<1> QED
  BY <1>1, <1>2, <1>3, QuietRetry

\* A run that ends settles the retry of its timer and of no other.
LEMMA TaskEndRetry ==
  ASSUME TypeOK, Anchored, RetryInv, NEW k \in tasks, TaskEnd(k)
  PROVE  RetryInv'
<1> USE DEF durable, sched, flags, loopv
<1> DEFINE t == k.entry.timer
<1>1. /\ UNCHANGED <<specs, registry, started, due, loop, reopens>>
      /\ \A j \in tasks : j # k => j \in tasks'
      /\ \A e \in heap : e.timer # t => e \in heap'
  BY TaskShape
<1>2. t \in Timers /\ started /\ t \in registry
  BY DEF TypeOK, Task, Entry, Anchored
<1>3. \A u \in Timers : u # t => pending'[u] = pending[u]
  BY DEF TaskEnd, RunSucceed, RunRetry, RunDie, RunFinishFault, TypeOK
<1>4. NoRetryYet'
  BY <1>1, <1>2, <1>3 DEF RetryInv, NoRetryYet
<1>5. ASSUME reopens = 0, ~shuttingDown', ~stopped', NEW u \in RetriedTimers,
             pending'[u] # NoRetry
      PROVE  Follows(u, pending[u].run)'
  <2>1. CASE u # t
    <3>1. u \in Timers /\ pending'[u] = pending[u] /\ ~shuttingDown /\ ~stopped
      BY <1>3, <1>5, <2>1 DEF RetriedTimers, Fixed, TaskEnd, RunSucceed, RunRetry, RunDie,
                              RunFinishFault, StopEngine
    <3>2. Follows(u, pending[u].run)
      BY <1>5, <3>1, RetryQueuedMeans DEF RetryInv
    <3>3. NoRunLost(u)
      BY <1>1, <2>1 DEF NoRunLost
    <3>4. PICK r : r = pending[u].run
      OBVIOUS
    <3>5. Follows(u, r)'
      BY <3>2, <3>3, <3>4, StillFollows
    <3> QED
      BY <3>1, <3>4, <3>5 DEF Follows
  <2>2. CASE u = t
    <3>1. RunRetry(k)
      BY <1>2, <1>5, <2>2 DEF TaskEnd, RunSucceed, RunDie, RunFinishFault, StopEngine, TypeOK
    <3> DEFINE again == [timer |-> t, at |-> NextRetryAt(now, FailedAttempt(t)),
                         run |-> k.entry.run, attempt |-> FailedAttempt(t) + 1]
    <3>2. again \in heap' /\ again.timer = t /\ again.run = k.entry.run
      BY <1>5, <3>1 DEF RunRetry
    <3>3. pending'[t].run = k.entry.run
      BY <1>2, <3>1 DEF RunRetry, TypeOK
    <3> HIDE DEF again
    <3> QED
      BY <2>2, <3>2, <3>3 DEF Follows
  <2> QED
    BY <2>1, <2>2
<1>6. RetryIsQueued'
  BY <1>1, <1>5 DEF RetryIsQueued, RetriedTimers, Fixed, Follows, Waiting, Working
<1> QED
  BY <1>4, <1>6 DEF RetryInv

LEMMA NextRetry ==
  TypeOK /\ Anchored /\ QueueInv /\ RetryInv /\ [Next]_vars => RetryInv'
<1> SUFFICES ASSUME TypeOK, Anchored, QueueInv, RetryInv, [Next]_vars PROVE RetryInv'
  OBVIOUS
<1> USE DEF durable, sched, flags, loopv, bounds
<1>1. ASSUME NEW t \in Timers, NEW q \in SpecOf[t], ScheduleTimer(t, q) PROVE RetryInv'
  BY <1>1, ScheduleTimerRetry
<1>2. CASE \/ Start \/ NotifyIdle \/ Tick \/ UNCHANGED vars
           \/ \E c \in Closers : ShutdownCall(c) \/ CloserStep(c) \/ ShutdownTimesOut(c)
  <2>1. /\ UNCHANGED <<specs, pending, registry, reopens, heap, due, tasks>>
        /\ started' = started \/ started' = TRUE
        /\ shuttingDown' \/ ~shuttingDown
        /\ stopped' \/ ~stopped
    BY <1>2 DEF Start, NotifyIdle, Tick, vars, ShutdownCall, CloserStep, ShutdownSignal,
                ShutdownCheck, ShutdownArm, ShutdownFinish, ShutdownTimesOut
  <2>2. \A u \in RetriedTimers : NoRunLost(u)
    BY <2>1 DEF NoRunLost
  <2> QED
    BY <2>1, <2>2, QuietRetry
<1>3. CASE LoopStep
  BY <1>3, LoopRetry
<1>4. ASSUME NEW k \in tasks, TaskBegin(k) \/ TaskEnd(k) PROVE RetryInv'
  BY <1>4, TaskBeginRetry, TaskEndRetry
<1>5. CASE Reopen
  <2>1. reopens' # 0
    BY <1>5 DEF Reopen, TypeOK
  <2> QED
    BY <2>1 DEF RetryInv, NoRetryYet, RetryIsQueued
<1> QED
  BY <1>1, <1>2, <1>3, <1>4, <1>5 DEF Next

\* In one life of the process a recorded retry is queued, popped or running
\* while the engine accepts work: for any number of overlapping runs of an
\* allow timer, each of whose failures clears the heap of the others.
THEOREM RetrySafe == Spec => []RetryIsQueued
<1>1. RetryInv => RetryIsQueued
  BY DEF RetryInv
<1> QED
  BY <1>1, InitRetry, NextRetry, InitQueue, NextQueue, InitAnchored, NextAnchored,
     TypeCorrect, PTL DEF Spec

-----------------------------------------------------------------------------
(* Attempts.  pending_retries is per timer and the attempt of a run is in   *)
(* its entry; for a delay timer they agree because it has one run at most.  *)

AttemptInv ==
  reopens = 0 =>
    /\ ~started => \A e \in heap : e.attempt = 1
    /\ \A e \in heap \cup due : e.timer \in DelayTimers => e.attempt = FailedAttempt(e.timer)
    /\ \A k \in tasks : k.entry.timer \in DelayTimers
                          => k.entry.attempt = FailedAttempt(k.entry.timer)

LEMMA InitAttempt == Init => AttemptInv
BY DEF Init, AttemptInv

\* Steps that leave specs and pending_retries alone and invent no run.
LEMMA QuietAttempt ==
  ASSUME AttemptInv, UNCHANGED <<specs, pending, reopens>>,
         started' = started \/ started' = TRUE,
         heap' \cup due' \subseteq heap \cup due, ~started => heap' \subseteq heap,
         \A k \in tasks' : (\E j \in tasks : j.entry = k.entry) \/ k.entry \in due
  PROVE  AttemptInv'
<1>1. DelayTimers' = DelayTimers /\ \A t : FailedAttempt(t)' = FailedAttempt(t)
  BY DEF DelayTimers, Fixed, FailedAttempt
<1> QED
  BY <1>1 DEF AttemptInv

LEMMA ScheduleTimerAttempt ==
  ASSUME TypeOK, Anchored, QueueInv, NoRetryYet, AttemptInv,
         NEW t \in Timers, NEW q \in SpecOf[t], ScheduleTimer(t, q)
  PROVE  AttemptInv'
<1> SUFFICES ASSUME reopens = 0 PROVE AttemptInv'
  BY DEF AttemptInv, ScheduleTimer, bounds
<1>1. /\ UNCHANGED <<pending, tasks, due, started, reopens>>
      /\ specs' = [specs EXCEPT ![t] = Resolve(t, q)]
      /\ t \in Reregistered \/ ~started \/ t \notin registry
  BY DEF ScheduleTimer, loopv, bounds, flags
<1>2. \A u : FailedAttempt(u)' = FailedAttempt(u)
  BY <1>1 DEF FailedAttempt
<1>3. \A e \in heap' : e \in heap \/ (e.timer = t /\ e.attempt = 1)
  BY DEF ScheduleTimer, PushFirstRun, FirstRun, RemoveTimer
<1>4. ASSUME NEW u \in DelayTimers', u # t PROVE u \in DelayTimers
  BY <1>1, <1>4 DEF DelayTimers, Fixed, TypeOK
<1>5. ASSUME t \in DelayTimers'
      PROVE  /\ FailedAttempt(t) = 1
             /\ \A e \in heap' : e.timer = t => e.attempt = 1
             /\ \A e \in due : e.timer # t
             /\ \A k \in tasks : k.entry.timer # t
  <2>1. ~started \/ t \notin registry
    BY <1>1, <1>5 DEF DelayTimers, Fixed
  <2>2. FailedAttempt(t) = 1
    BY <2>1 DEF NoRetryYet, FailedAttempt
  <2>3. \A e \in heap : e.timer = t => e.attempt = 1
    BY <2>1 DEF AttemptInv, Anchored
  <2> QED
    BY <1>3, <2>1, <2>2, <2>3, UnstartedQuiet DEF Anchored
<1>6. ~started' => \A e \in heap' : e.attempt = 1
  BY <1>1, <1>3 DEF AttemptInv
<1>7. \A e \in heap' \cup due' : e.timer \in DelayTimers' => e.attempt = FailedAttempt(e.timer)
  BY <1>1, <1>3, <1>4, <1>5 DEF AttemptInv
<1>8. \A k \in tasks' : k.entry.timer \in DelayTimers'
                          => k.entry.attempt = FailedAttempt(k.entry.timer)
  BY <1>1, <1>4, <1>5 DEF AttemptInv
<1> QED
  BY <1>2, <1>6, <1>7, <1>8 DEF AttemptInv

LEMMA TaskAttempt ==
  ASSUME TypeOK, Anchored, LoneInv, AttemptInv, NEW k \in tasks, TaskBegin(k) \/ TaskEnd(k)
  PROVE  AttemptInv'
<1> USE DEF durable, sched, flags, loopv
<1> DEFINE t == k.entry.timer
           a == FailedAttempt(t)
<1>1. /\ UNCHANGED <<specs, registry, started, due, loop, reopens>>
      /\ \A e \in heap' : e \in heap \/ e.timer = t
      /\ \A j \in tasks' : j \in tasks \ {k} \/ (j.entry = k.entry /\ RunStart(k))
  BY TaskShape
<1> SUFFICES ASSUME reopens = 0 PROVE AttemptInv'
  BY <1>1 DEF AttemptInv
<1>2. t \in Timers /\ started /\ DelayTimers' = DelayTimers
  BY <1>1 DEF TypeOK, Task, Entry, Anchored, DelayTimers, Fixed
<1>3. \A u \in Timers : u # t => FailedAttempt(u)' = FailedAttempt(u)
  BY DEF TaskBegin, TaskEnd, RunSkip, RunStart, RunStartFault, RunSucceed, RunRetry, RunDie,
         RunFinishFault, TypeOK, FailedAttempt
<1>4. ASSUME t \in DelayTimers
      PROVE  /\ \A e \in heap \cup due : e.timer # t
             /\ \A j \in tasks : j.entry.timer = t => j = k
             /\ specs[t].overlap = "Delay"
  <2>1. Lonely(t)
    BY <1>2, <1>4 DEF LoneInv
  <2> QED
    BY <1>4, <2>1 DEF Lonely, DelayTimers, Fixed
<1>5. ASSUME t \in DelayTimers
      PROVE  /\ \A e \in heap' : e.timer = t => e.attempt = FailedAttempt(t)'
             /\ \A j \in tasks' : j.entry.timer = t => j.entry.attempt = FailedAttempt(t)'
  <2>1. CASE RunStart(k) \/ RunSkip(k) \/ RunStartFault(k) \/ RunFinishFault(k)
    <3>1. heap' \subseteq heap /\ UNCHANGED pending
      BY <1>4, <1>5, <2>1, KeptSmaller DEF RunStart, RunSkip, RunStartFault, RunFinishFault,
                                        Overlapping
    <3>2. FailedAttempt(t)' = a
      BY <3>1 DEF FailedAttempt
    <3>3. k.entry.attempt = a
      BY <1>5 DEF AttemptInv
    <3> QED
      BY <1>1, <1>4, <1>5, <3>1, <3>2, <3>3
  <2>2. CASE RunSucceed(k) \/ RunDie(k)
    <3>1. pending'[t] = NoRetry
      BY <1>2, <2>2 DEF RunSucceed, RunDie, TypeOK
    <3>2. FailedAttempt(t)' = 1
      BY <3>1 DEF FailedAttempt
    <3>3. \A e \in heap' : e \in heap \/ e.attempt = 1
      BY <2>2 DEF RunSucceed, RunDie, RescheduleFrom, PushFirstRun, FirstRun
    <3>4. tasks' = tasks \ {k}
      BY <2>2 DEF RunSucceed, RunDie, FinishRun
    <3> QED
      BY <1>4, <1>5, <3>2, <3>3, <3>4
  <2>3. CASE RunRetry(k)
    <3>1. pending'[t] = [run |-> k.entry.run, attempt |-> a + 1]
      BY <1>2, <2>3 DEF RunRetry, TypeOK
    <3>2. k.entry.run # 0
      BY ConstantsAssumption DEF TypeOK, Task, Entry
    <3>3. pending'[t] # NoRetry /\ pending'[t].attempt = a + 1
      BY <3>1, <3>2 DEF NoRetry
    <3>4. FailedAttempt(t)' = a + 1
      BY <3>3 DEF FailedAttempt
    <3>5. \A e \in heap' : e \in heap \/ e.attempt = a + 1
      BY <2>3, KeptSmaller DEF RunRetry
    <3>6. tasks' = tasks \ {k}
      BY <2>3 DEF RunRetry, FinishRun
    <3> QED
      BY <1>4, <1>5, <3>4, <3>5, <3>6
  <2> QED
    BY <2>1, <2>2, <2>3 DEF TaskBegin, TaskEnd
<1>6. \A e \in heap' \cup due' : e.timer \in DelayTimers' => e.attempt = FailedAttempt(e.timer)'
  <2> SUFFICES ASSUME NEW e \in heap' \cup due', e.timer \in DelayTimers
               PROVE  e.attempt = FailedAttempt(e.timer)'
    BY <1>2
  <2>1. CASE e.timer = t
    BY <1>1, <1>4, <1>5, <2>1
  <2>2. CASE e.timer # t
    <3>1. e \in heap \cup due /\ e.timer \in Timers
      BY <1>1, <2>2 DEF DelayTimers, Fixed
    <3>2. FailedAttempt(e.timer)' = FailedAttempt(e.timer)
      BY <1>3, <2>2, <3>1
    <3> QED
      BY <3>1, <3>2 DEF AttemptInv
  <2> QED
    BY <2>1, <2>2
<1>7. \A j \in tasks' : j.entry.timer \in DelayTimers'
                          => j.entry.attempt = FailedAttempt(j.entry.timer)'
  <2> SUFFICES ASSUME NEW j \in tasks', j.entry.timer \in DelayTimers
               PROVE  j.entry.attempt = FailedAttempt(j.entry.timer)'
    BY <1>2
  <2>1. CASE j.entry.timer = t
    BY <1>5, <2>1
  <2>2. CASE j.entry.timer # t
    <3>1. j \in tasks /\ j.entry.timer \in Timers
      BY <1>1, <2>2 DEF DelayTimers, Fixed
    <3>2. FailedAttempt(j.entry.timer)' = FailedAttempt(j.entry.timer)
      BY <1>3, <2>2, <3>1
    <3> QED
      BY <3>1, <3>2 DEF AttemptInv
  <2> QED
    BY <2>1, <2>2
<1> QED
  BY <1>1, <1>2, <1>6, <1>7 DEF AttemptInv

LEMMA NextAttempt ==
  TypeOK /\ Anchored /\ QueueInv /\ LoneInv /\ RetryInv /\ AttemptInv /\ [Next]_vars
    => AttemptInv'
<1> SUFFICES ASSUME TypeOK, Anchored, QueueInv, LoneInv, RetryInv, AttemptInv, [Next]_vars
             PROVE  AttemptInv'
  OBVIOUS
<1> USE DEF durable, sched, flags, loopv, bounds
<1>1. ASSUME NEW t \in Timers, NEW q \in SpecOf[t], ScheduleTimer(t, q) PROVE AttemptInv'
  BY <1>1, ScheduleTimerAttempt DEF RetryInv
<1>2. CASE \/ Start \/ NotifyIdle \/ Tick \/ UNCHANGED vars
           \/ \E c \in Closers : ShutdownCall(c) \/ CloserStep(c) \/ ShutdownTimesOut(c)
  <2>1. /\ UNCHANGED <<specs, pending, reopens, heap, due, tasks>>
        /\ started' = started \/ started' = TRUE
    BY <1>2 DEF Start, NotifyIdle, Tick, vars, ShutdownCall, CloserStep, ShutdownSignal,
                ShutdownCheck, ShutdownArm, ShutdownFinish, ShutdownTimesOut
  <2> QED
    BY <2>1, QuietAttempt
<1>3. CASE LoopStep
  <2>1. UNCHANGED <<specs, pending, reopens, started>> /\ heap' \subseteq heap
    BY <1>3 DEF LoopStep, LoopExit, LoopPop, LoopCount, LoopSpawn, LoopDrop, LoopPark,
                LoopWakeByTimer, LoopWakeByNotify
  <2>2. heap' \cup due' \subseteq heap \cup due
    BY <1>3 DEF LoopStep, LoopExit, LoopPop, LoopCount, LoopSpawn, LoopDrop, LoopPark,
                LoopWakeByTimer, LoopWakeByNotify, PopDue
  <2>3. \A k \in tasks' : k \in tasks \/ k.entry \in due
    BY <1>3 DEF LoopStep, LoopExit, LoopPop, LoopCount, LoopSpawn, LoopDrop, LoopPark,
                LoopWakeByTimer, LoopWakeByNotify, Earliest
  <2> QED
    BY <2>1, <2>2, <2>3, QuietAttempt
<1>4. ASSUME NEW k \in tasks, TaskBegin(k) \/ TaskEnd(k) PROVE AttemptInv'
  BY <1>4, TaskAttempt
<1>5. CASE Reopen
  <2>1. reopens' # 0
    BY <1>5 DEF Reopen, TypeOK
  <2> QED
    BY <2>1 DEF AttemptInv
<1> QED
  BY <1>1, <1>2, <1>3, <1>4, <1>5 DEF Next

\* In one life of the process a failing run of a delay timer is recorded with
\* the attempt it was started with, so max_attempts counts the attempts of
\* that run: for any number of attempts and timers.
THEOREM AttemptSafe == Spec => []AttemptTracked
<1>1. AttemptInv => AttemptTracked
  BY DEF AttemptInv, AttemptTracked, DelayTimers, Fixed, Calling, Working
<1> QED
  BY <1>1, InitAttempt, NextAttempt, InitRetry, NextRetry, InitLone, NextLone, InitQueue,
     NextQueue, InitCount, NextCount, InitAnchored, NextAnchored, TypeCorrect, PTL DEF Spec
=============================================================================

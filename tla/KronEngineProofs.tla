-------------------------- MODULE KronEngineProofs --------------------------
(***************************************************************************)
(* Theorems about the embedded engine, for every set of timers, every      *)
(* policy mix and every bound: its state is well typed, a skip timer never *)
(* overlaps itself, active_runs counts the run_timer tasks, and shutdown() *)
(* returns only when no task is left.                                      *)
(***************************************************************************)
EXTENDS KronEngine, Recursions, FiniteSetTheorems, WellFoundedInduction, TLAPS

-----------------------------------------------------------------------------
(* Operators                                                               *)

\* peek_next_at: the earliest deadline of the heap, if it has one.
LEMMA PeekType ==
  ASSUME NEW h \in SUBSET Entry
  PROVE  PeekNextAt(h) \in Nat \cup {NoTime}
<1>1. CASE h = {}
  BY <1>1 DEF PeekNextAt
<1>2. CASE h # {}
  <2> DEFINE T == {e.at : e \in h}
  <2>1. T \in SUBSET Nat /\ T # {}
    BY <1>2 DEF Entry
  <2>2. PICK x \in T : \A y \in T : x <= y
    BY <2>1, Least
  <2>3. PICK e \in h : e.at = x
    BY <2>2
  <2>4. e \in Earliest(h)
    BY <2>2, <2>3 DEF Earliest
  <2>5. (CHOOSE f \in Earliest(h) : TRUE) \in h
    BY <2>4 DEF Earliest
  <2> QED
    BY <1>2, <2>5 DEF PeekNextAt, Entry
<1> QED
  BY <1>1, <1>2

\* next_run_after: a point in time, or nothing left to run.
LEMMA NextRunType ==
  ASSUME NEW s \in Schedule, NEW from \in Nat
  PROVE  NextRunAfter(s, from) \in Nat \cup {NoTime}
<1>1. s.n \in Nat /\ s.n > 0
  BY DEF Schedule
<1>2. from \div s.n \in Nat
  BY <1>1
<1>3. \A a, b \in Nat : (a + 1) * b \in Nat
  OBVIOUS
<1>4. ((from \div s.n) + 1) * s.n \in Nat
  BY <1>1, <1>2, <1>3
<1> QED
  BY <1>1, <1>4 DEF NextRunAfter

\* A fresh run id exists when the push is allowed, and no one uses it.
LEMMA FreshRunIsFresh ==
  ASSUME ~(RunIds \subseteq UsedRuns)
  PROVE  FreshRun \in RunIds /\ FreshRun \notin UsedRuns
BY DEF FreshRun

LEMMA NoSpecSchedule ==
  ASSUME NEW s \in TimerSpec \cup {NoSpec}
  PROVE  s.sched \in Schedule
BY DEF TimerSpec, NoSpec, Schedule

\* PushFirstRun and reschedule_from keep heap, next_runs and permit typed.
LEMMA PushType ==
  ASSUME NEW t \in Timers, NEW at \in Nat, NEW h \in SUBSET Entry,
         NEW n \in [Timers -> Nat \cup {NoTime}], PushFirstRun(t, at, h, n)
  PROVE  /\ heap' \in SUBSET Entry
         /\ nextRuns' \in [Timers -> Nat \cup {NoTime}]
         /\ permit' \in BOOLEAN
<1>1. FreshRun \in RunIds
  BY FreshRunIsFresh DEF PushFirstRun
<1>2. FirstRun(t, at) \in Entry
  BY <1>1 DEF FirstRun, Entry
<1> QED
  BY <1>2 DEF PushFirstRun

LEMMA RescheduleType ==
  ASSUME permit \in BOOLEAN,
         NEW t \in Timers, NEW spec \in TimerSpec \cup {NoSpec}, NEW from \in Nat,
         NEW h \in SUBSET Entry, NEW n \in [Timers -> Nat \cup {NoTime}],
         RescheduleFrom(t, spec, from, h, n)
  PROVE  /\ heap' \in SUBSET Entry
         /\ nextRuns' \in [Timers -> Nat \cup {NoTime}]
         /\ permit' \in BOOLEAN
<1> DEFINE at == NextRunAfter(spec.sched, from)
<1>1. at \in Nat \cup {NoTime}
  BY NoSpecSchedule, NextRunType
<1> HIDE DEF at
<1>2. CASE shuttingDown \/ stopped
  BY <1>2 DEF RescheduleFrom
<1>3. CASE ~(shuttingDown \/ stopped) /\ at # NoTime
  <2>1. PushFirstRun(t, at, h, n) /\ at \in Nat
    BY <1>1, <1>3 DEF RescheduleFrom, at
  <2> QED
    BY <2>1, PushType
<1>4. CASE ~(shuttingDown \/ stopped) /\ at = NoTime
  BY <1>4 DEF RescheduleFrom, at
<1> QED
  BY <1>2, <1>3, <1>4

\* finish_run
LEMMA FinishType ==
  ASSUME TypeOK, NEW k \in tasks, FinishRun(k)
  PROVE  tasks' \in SUBSET Task /\ active' \in Nat /\ notifying' \in Nat
BY DEF FinishRun, TypeOK

\* delay_seconds is a duration and keeps to its cap.
LEMMA DelayType ==
  ASSUME NEW attempt
  PROVE  /\ DelaySeconds(attempt) \in Nat
         /\ Backoff.kind # "Fixed" => DelaySeconds(attempt) <= Backoff.cap
<1>1. Backoff.base \in Nat /\ Backoff.cap \in Nat
  BY ConstantsAssumption DEF BackoffStrategy
<1>2. ASSUME NEW d PROVE Capped(d, Backoff.cap) \in Nat /\ Capped(d, Backoff.cap) <= Backoff.cap
  BY <1>1 DEF Capped
<1>3. /\ Capped(Backoff.base * 2 ^ (attempt - 1), Backoff.cap) \in Nat
      /\ Capped(Backoff.base * 2 ^ (attempt - 1), Backoff.cap) <= Backoff.cap
  BY <1>2, Zenon
<1>4. /\ Capped(Backoff.base + Backoff.step * (attempt - 1), Backoff.cap) \in Nat
      /\ Capped(Backoff.base + Backoff.step * (attempt - 1), Backoff.cap) <= Backoff.cap
  BY <1>2, Zenon
<1> QED
  BY <1>1, <1>3, <1>4, Zenon DEF DelaySeconds

\* The attempt a failure is recorded with and the retry it earns.
LEMMA RetryType ==
  ASSUME TypeOK, NEW t \in Timers
  PROVE  /\ FailedAttempt(t) \in Nat
         /\ NextRetryAt(now, FailedAttempt(t)) \in Nat \cup {NoTime}
<1>1. FailedAttempt(t) \in Nat
  BY DEF FailedAttempt, TypeOK, Retry, NoRetry
<1> QED
  BY <1>1, DelayType, ConstantsAssumption DEF NextRetryAt, TypeOK

LEMMA ResolveType ==
  ASSUME TypeOK, NEW t \in Timers, NEW q \in SpecOf[t]
  PROVE  Resolve(t, q) \in TimerSpec
<1>1. q \in Request
  BY ConstantsAssumption
<1> QED
  BY <1>1 DEF Resolve, TypeOK, Request, TimerSpec, Overlaps, NoSpec

LEMMA KeptType ==
  ASSUME TypeOK, NEW k \in tasks
  PROVE  /\ KeptHeap(k) \in SUBSET Entry
         /\ KeptNextRuns(k) \in [Timers -> Nat \cup {NoTime}]
BY DEF KeptHeap, KeptNextRuns, RemoveTimer, TypeOK, Task, Entry

-----------------------------------------------------------------------------
(* Type correctness                                                        *)

LEMMA InitType == Init => TypeOK
<1> SUFFICES ASSUME Init PROVE TypeOK
  OBVIOUS
<1>1. specs \in [Timers -> TimerSpec \cup {NoSpec}] /\ states \in [Timers -> States]
  BY DEF Init, States
<1>2. nextRuns \in [Timers -> Nat \cup {NoTime}]
      /\ pending \in [Timers -> Retry \cup {NoRetry}]
  BY DEF Init
<1>3. closer \in [Closers -> CloserPcs] /\ loop \in LoopPcs
  BY DEF Init, LoopPcs, CloserPcs
<1> QED
  BY <1>1, <1>2, <1>3 DEF Init, TypeOK

LEMMA ScheduleTimerType ==
  ASSUME TypeOK, NEW t \in Timers, NEW q \in SpecOf[t], ScheduleTimer(t, q)
  PROVE  TypeOK'
<1> DEFINE spec == Resolve(t, q)
           updated == specs[t] # NoSpec /\ specs[t] # spec
           h == IF updated THEN RemoveTimer(heap, t) ELSE heap
           n == IF updated THEN [nextRuns EXCEPT ![t] = NoTime] ELSE nextRuns
           at == NextRunAfter(spec.sched, now)
<1>1. spec \in TimerSpec
  BY ResolveType
<1>2. h \in SUBSET Entry /\ n \in [Timers -> Nat \cup {NoTime}]
  BY DEF TypeOK, RemoveTimer
<1>3. at \in Nat \cup {NoTime}
  BY <1>1, NoSpecSchedule, NextRunType DEF TypeOK
<1>4. /\ heap' \in SUBSET Entry
      /\ nextRuns' \in [Timers -> Nat \cup {NoTime}]
      /\ permit' \in BOOLEAN
  <2> HIDE DEF h, n, at
  <2>1. CASE at # NoTime /\ PushFirstRun(t, at, h, n)
    BY <2>1, <1>2, <1>3, PushType
  <2>2. CASE heap' = h /\ nextRuns' = n /\ UNCHANGED permit
    BY <2>2, <1>2 DEF TypeOK
  <2> QED
    BY <2>1, <2>2 DEF ScheduleTimer, h, n, at
<1>5. specs' \in [Timers -> TimerSpec \cup {NoSpec}] /\ registry' \subseteq Timers
  BY <1>1 DEF ScheduleTimer, TypeOK
<1>6. states' \in [Timers -> States]
  BY DEF ScheduleTimer, TypeOK, States
<1> QED
  BY <1>4, <1>5, <1>6 DEF ScheduleTimer, TypeOK, flags, loopv, bounds

LEMMA CallerType ==
  ASSUME TypeOK,
         \/ Start
         \/ \E c \in Closers : ShutdownCall(c) \/ CloserStep(c) \/ ShutdownTimesOut(c)
  PROVE  TypeOK'
<1> USE DEF durable, sched, flags, loopv, bounds, CloserPcs, LoopPcs
<1>1. CASE Start
  BY <1>1 DEF Start, TypeOK
<1>2. ASSUME NEW c \in Closers, ShutdownCall(c) PROVE TypeOK'
  BY <1>2 DEF ShutdownCall, TypeOK
<1>3. ASSUME NEW c \in Closers, ShutdownSignal(c) PROVE TypeOK'
  BY <1>3 DEF ShutdownSignal, TypeOK
<1>4. ASSUME NEW c \in Closers, ShutdownCheck(c) \/ ShutdownArm(c) \/ ShutdownTimesOut(c)
      PROVE  TypeOK'
  BY <1>4 DEF ShutdownCheck, ShutdownArm, ShutdownTimesOut, TypeOK
<1>5. ASSUME NEW c \in Closers, ShutdownFinish(c) PROVE TypeOK'
  BY <1>5 DEF ShutdownFinish, TypeOK
<1> QED
  BY <1>1, <1>2, <1>3, <1>4, <1>5 DEF CloserStep

LEMMA LoopType ==
  ASSUME TypeOK, LoopStep
  PROVE  TypeOK'
<1> USE DEF durable, sched, flags, loopv, bounds
<1>1. CASE LoopExit
  BY <1>1 DEF LoopExit, WakeClosers, TypeOK, LoopPcs, CloserPcs
<1>2. CASE LoopPop
  <2>1. PopDue(heap) \in SUBSET Entry /\ heap' \in SUBSET Entry
    BY <1>2 DEF LoopPop, PopDue, TypeOK
  <2>2. wakeAt' \in Nat \cup {NoTime}
    BY <1>2, <2>1, PeekType DEF LoopPop
  <2> QED
    BY <1>2, <2>1, <2>2 DEF LoopPop, TypeOK, LoopPcs
<1>3. CASE LoopSpawn
  <2>1. PICK e \in Earliest(due) :
          /\ due' = due \ {e}
          /\ tasks' = tasks \cup {[pc |-> "spawned", entry |-> e, spec |-> NoSpec]}
    BY <1>3 DEF LoopSpawn
  <2>2. e \in Entry
    BY <2>1 DEF Earliest, TypeOK
  <2>3. due' \in SUBSET Entry /\ tasks' \in SUBSET Task
    BY <2>1, <2>2 DEF TypeOK, Task
  <2> QED
    BY <1>3, <2>3 DEF LoopSpawn, TypeOK, LoopPcs
<1>4. CASE LoopCount \/ LoopDrop \/ LoopPark
  BY <1>4 DEF LoopCount, LoopDrop, LoopPark, TypeOK, LoopPcs
<1>5. CASE LoopWakeByTimer \/ LoopWakeByNotify
  BY <1>5 DEF LoopWakeByTimer, LoopWakeByNotify, TypeOK, LoopPcs
<1> QED
  BY <1>1, <1>2, <1>3, <1>4, <1>5 DEF LoopStep

LEMMA TaskBeginType ==
  ASSUME TypeOK, NEW k \in tasks, TaskBegin(k)
  PROVE  TypeOK'
<1> USE DEF durable, sched, flags, loopv, bounds
<1> DEFINE t == k.entry.timer
           n == [nextRuns EXCEPT ![t] = NoTime]
<1>1. k \in Task /\ t \in Timers /\ k.entry.at \in Nat
  BY DEF TypeOK, Task, Entry
<1>2. specs[t] \in TimerSpec \cup {NoSpec} /\ n \in [Timers -> Nat \cup {NoTime}]
  BY <1>1 DEF TypeOK
<1>3. CASE RunSkip(k)
  <2>1. RescheduleFrom(t, specs[t], k.entry.at, heap, n) /\ FinishRun(k)
    BY <1>3 DEF RunSkip
  <2>2. /\ heap' \in SUBSET Entry
        /\ nextRuns' \in [Timers -> Nat \cup {NoTime}]
        /\ permit' \in BOOLEAN
    BY <2>1, <1>1, <1>2, RescheduleType DEF TypeOK
  <2> QED
    BY <1>3, <2>1, <2>2, FinishType DEF RunSkip, TypeOK
<1>4. CASE RunStart(k)
  <2>1. /\ heap' \in SUBSET Entry
        /\ nextRuns' \in [Timers -> Nat \cup {NoTime}]
        /\ permit' \in BOOLEAN
    <3>1. CASE RescheduleFrom(t, specs[t], k.entry.at, heap, n)
      BY <3>1, <1>1, <1>2, RescheduleType DEF TypeOK
    <3>2. CASE nextRuns' = n /\ UNCHANGED <<heap, permit>>
      BY <3>2, <1>2 DEF TypeOK
    <3> QED
      BY <1>4, <3>1, <3>2 DEF RunStart
  <2>2. tasks' \in SUBSET Task
    BY <1>4, <1>1, <1>2 DEF RunStart, TypeOK, Task
  <2>3. states' \in [Timers -> States]
    BY <1>4 DEF RunStart, TypeOK, States
  <2> QED
    BY <1>4, <2>1, <2>2, <2>3 DEF RunStart, TypeOK
<1>5. CASE RunStartFault(k)
  <2>1. FinishRun(k) /\ StopEngine /\ nextRuns' = n
    BY <1>5 DEF RunStartFault
  <2>2. states' \in [Timers -> States]
    BY <1>5 DEF RunStartFault, TypeOK, States
  <2>3. tasks' \in SUBSET Task /\ active' \in Nat /\ notifying' \in Nat
    BY <2>1, FinishType
  <2>4. /\ nextRuns' \in [Timers -> Nat \cup {NoTime}] /\ faults' \in Nat
        /\ shuttingDown' \in BOOLEAN /\ stopped' \in BOOLEAN
    BY <1>2, <2>1 DEF StopEngine, TypeOK
  <2>5. UNCHANGED <<durable, heap, permit, registry, started, loopv, closer, now, reopens>>
    BY <1>5 DEF RunStartFault
  <2> QED
    BY <2>2, <2>3, <2>4, <2>5 DEF TypeOK
<1> QED
  BY <1>3, <1>4, <1>5 DEF TaskBegin

LEMMA TaskEndType ==
  ASSUME TypeOK, NEW k \in tasks, TaskEnd(k)
  PROVE  TypeOK'
<1> USE DEF durable, sched, flags, loopv, bounds
<1> DEFINE t == k.entry.timer
           Queue == /\ heap' \in SUBSET Entry
                    /\ nextRuns' \in [Timers -> Nat \cup {NoTime}]
                    /\ permit' \in BOOLEAN
<1>1. k \in Task /\ t \in Timers /\ k.entry.run \in RunIds
  BY DEF TypeOK, Task, Entry
<1>2. k.spec \in TimerSpec \cup {NoSpec}
  BY <1>1 DEF Task
<1>3. ASSUME RescheduleFrom(t, k.spec, now, heap, nextRuns) PROVE Queue
  BY <1>1, <1>2, <1>3, RescheduleType DEF TypeOK
<1>4. ASSUME UNCHANGED <<heap, nextRuns, permit>> PROVE Queue
  BY <1>4 DEF TypeOK
<1> DEFINE a == FailedAttempt(t)
<1>5. a \in Nat /\ NextRetryAt(now, a) \in Nat \cup {NoTime}
  BY <1>1, RetryType
<1>6. KeptHeap(k) \in SUBSET Entry /\ KeptNextRuns(k) \in [Timers -> Nat \cup {NoTime}]
  BY KeptType
<1> HIDE DEF t, a
<1>7. CASE RunSucceed(k)
  <2>1. Queue
    BY <1>7, <1>3, <1>4 DEF RunSucceed, t
  <2>2. FinishRun(k) /\ pending' \in [Timers -> Retry \cup {NoRetry}]
    BY <1>7 DEF RunSucceed, TypeOK
  <2>3. states' \in [Timers -> States]
    BY <1>7 DEF RunSucceed, TypeOK, States
  <2> QED
    BY <1>7, <2>1, <2>2, <2>3, FinishType DEF RunSucceed, TypeOK
<1>8. CASE RunRetry(k)
  <2> DEFINE again == [timer |-> t, at |-> NextRetryAt(now, a),
                       run |-> k.entry.run, attempt |-> a + 1]
  <2>1. again \in Entry
    BY <1>8, <1>1, <1>5 DEF RunRetry, Entry, t, a
  <2>2. Queue
    BY <1>8, <1>6, <2>1 DEF RunRetry, TypeOK, t, a
  <2>3. [run |-> k.entry.run, attempt |-> a + 1] \in Retry
    BY <1>1, <1>5 DEF Retry
  <2>4. FinishRun(k) /\ pending' \in [Timers -> Retry \cup {NoRetry}]
    BY <1>8, <2>3 DEF RunRetry, TypeOK, t, a
  <2>5. states' \in [Timers -> States]
    BY <1>8 DEF RunRetry, TypeOK, States
  <2> QED
    BY <1>8, <2>2, <2>4, <2>5, FinishType DEF RunRetry, TypeOK
<1>9. CASE RunDie(k)
  <2>1. Queue
    BY <1>9, <1>3, <1>4 DEF RunDie, t
  <2>2. FinishRun(k) /\ pending' \in [Timers -> Retry \cup {NoRetry}]
    BY <1>9 DEF RunDie, TypeOK
  <2>3. states' \in [Timers -> States]
    BY <1>9 DEF RunDie, TypeOK, States
  <2> QED
    BY <1>9, <2>1, <2>2, <2>3, FinishType DEF RunDie, TypeOK
<1>10. CASE RunFinishFault(k)
  <2>1. heap' \in SUBSET Entry /\ nextRuns' \in [Timers -> Nat \cup {NoTime}]
    BY <1>10, <1>6 DEF RunFinishFault, TypeOK
  <2>2. FinishRun(k) /\ StopEngine
    BY <1>10 DEF RunFinishFault
  <2> QED
    BY <1>10, <2>1, <2>2, FinishType DEF RunFinishFault, StopEngine, TypeOK
<1> QED
  BY <1>7, <1>8, <1>9, <1>10 DEF TaskEnd

LEMMA OtherType ==
  ASSUME TypeOK, NotifyIdle \/ Reopen \/ Tick
  PROVE  TypeOK'
<1> USE DEF durable, sched, flags, loopv, bounds
<1>1. CASE NotifyIdle
  BY <1>1 DEF NotifyIdle, WakeClosers, TypeOK, CloserPcs
<1>2. CASE Reopen
  <2>1. states' \in [Timers -> States] /\ nextRuns' \in [Timers -> Nat \cup {NoTime}]
    BY <1>2 DEF Reopen, States
  <2>2. closer' \in [Closers -> CloserPcs] /\ loop' \in LoopPcs
    BY <1>2 DEF Reopen, LoopPcs, CloserPcs
  <2>3. reopens' \in Nat
    BY <1>2 DEF Reopen, TypeOK
  <2>4. /\ specs' \in [Timers -> TimerSpec \cup {NoSpec}]
        /\ pending' \in [Timers -> Retry \cup {NoRetry}]
        /\ faults' \in Nat
    <3>1. CASE UNCHANGED <<durable, faults>>
      BY <3>1 DEF TypeOK
    <3>2. CASE ReplayUnacked
      <4>1. [run: RunIds, attempt: 2 .. MaxAttempts] \subseteq Retry
        BY ConstantsAssumption DEF Retry
      <4> QED
        BY <3>2, <4>1, ResolveType DEF ReplayUnacked, TypeOK
    <3> QED
      BY <1>2, <3>1, <3>2 DEF Reopen
  <2> QED
    BY <1>2, <2>1, <2>2, <2>3, <2>4 DEF Reopen, TypeOK
<1>3. CASE Tick
  BY <1>3 DEF Tick, TypeOK
<1> QED
  BY <1>1, <1>2, <1>3

LEMMA NextType == TypeOK /\ [Next]_vars => TypeOK'
<1> SUFFICES ASSUME TypeOK, [Next]_vars PROVE TypeOK'
  OBVIOUS
<1>1. CASE UNCHANGED vars
  BY <1>1 DEF TypeOK, vars
<1>2. CASE Next
  BY <1>2, ScheduleTimerType, CallerType, LoopType, TaskBeginType, TaskEndType,
     OtherType DEF Next
<1> QED
  BY <1>1, <1>2

\* Every state the engine reaches is well typed, for every constant: heap
\* entries carry real deadlines and run ids, counters stay natural.
THEOREM TypeCorrect == Spec => []TypeOK
BY InitType, NextType, PTL DEF Spec

-----------------------------------------------------------------------------
(* Whatever waits or works belongs to a timer with a registered function,   *)
(* and nothing works before start(): a restart empties the heap with the    *)
(* registry, and everything else is pushed for a timer that already has one.*)

\* What a critical section may do to the heap of timer t, starting from h: at
\* most one entry of that timer is added, under an id nobody uses.
MayPush(t, h) ==
  \/ heap' = h
  \/ \E e \in heap' : heap' = h \cup {e} /\ e.timer = t /\ e.run \notin UsedRuns

LEMMA PushAddsOne ==
  ASSUME NEW t, NEW at, NEW h, NEW n, PushFirstRun(t, at, h, n)
  PROVE  MayPush(t, h)
<1>1. FirstRun(t, at).timer = t /\ FirstRun(t, at).run \notin UsedRuns
  BY FreshRunIsFresh DEF PushFirstRun, FirstRun
<1> QED
  BY <1>1 DEF PushFirstRun, MayPush

LEMMA RescheduleAddsOne ==
  ASSUME NEW t, NEW spec, NEW from, NEW h, NEW n, RescheduleFrom(t, spec, from, h, n)
  PROVE  MayPush(t, h)
BY PushAddsOne DEF RescheduleFrom, MayPush

LEMMA KeptSmaller == \A k \in tasks : KeptHeap(k) \subseteq heap
BY DEF KeptHeap, RemoveTimer

\* What the four ends of a run have in common.
LEMMA TaskEndShape ==
  ASSUME TypeOK, NEW k \in tasks, TaskEnd(k)
  PROVE  /\ k.pc = "calling" /\ FinishRun(k)
         /\ UNCHANGED <<specs, due>>
         /\ \A e \in heap' : e \in heap \/ e.timer = k.entry.timer
         /\ \A u \in Timers : u # k.entry.timer => states'[u] = states[u]
<1> USE DEF durable, sched, flags, loopv, bounds
<1> DEFINE t == k.entry.timer
<1>1. CASE RunSucceed(k) \/ RunDie(k)
  <2>1. MayPush(t, heap)
    BY <1>1, RescheduleAddsOne DEF RunSucceed, RunDie, MayPush
  <2>2. \A e \in heap' : e \in heap \/ e.timer = t
    BY <2>1 DEF MayPush
  <2>3. \A u \in Timers : u # t => states'[u] = states[u]
    BY <1>1 DEF RunSucceed, RunDie, TypeOK
  <2> QED
    BY <1>1, <2>2, <2>3 DEF RunSucceed, RunDie
<1>2. CASE RunRetry(k)
  <2>1. \A e \in heap' : e \in heap \/ e.timer = t
    BY <1>2, KeptSmaller DEF RunRetry
  <2>2. \A u \in Timers : u # t => states'[u] = states[u]
    BY <1>2 DEF RunRetry, TypeOK
  <2> QED
    BY <1>2, <2>1, <2>2 DEF RunRetry
<1>3. CASE RunFinishFault(k)
  BY <1>3, KeptSmaller DEF RunFinishFault
<1> QED
  BY <1>1, <1>2, <1>3 DEF TaskEnd

Anchored ==
  /\ \A e \in heap \cup due : e.timer \in registry
  /\ \A k \in tasks : k.entry.timer \in registry
  /\ (loop # "unborn" \/ tasks # {}) => started

LEMMA InitAnchored == Init => Anchored
BY DEF Init, Anchored

\* Steps that only move entries from place to place.
LEMMA MoveAnchored ==
  ASSUME Anchored, UNCHANGED <<registry, started>>,
         \A e \in heap' \cup due' : e \in heap \cup due \/ e.timer \in registry,
         \A k \in tasks' : k.entry.timer \in registry,
         tasks' # {} \/ loop' # "unborn" => tasks # {} \/ loop # "unborn"
  PROVE  Anchored'
BY DEF Anchored

LEMMA NextAnchored == TypeOK /\ Anchored /\ [Next]_vars => Anchored'
<1> SUFFICES ASSUME TypeOK, Anchored, [Next]_vars PROVE Anchored'
  OBVIOUS
<1> USE DEF durable, sched, flags, loopv, bounds
<1>1. ASSUME NEW t \in Timers, NEW q \in SpecOf[t], ScheduleTimer(t, q) PROVE Anchored'
  <2>1. MayPush(t, heap) \/ MayPush(t, RemoveTimer(heap, t))
    BY <1>1, PushAddsOne DEF ScheduleTimer, MayPush
  <2>2. \A e \in heap' : e \in heap \/ e.timer = t
    BY <2>1 DEF MayPush, RemoveTimer
  <2>3. registry' = registry \cup {t} /\ UNCHANGED <<tasks, due, loop, started>>
    BY <1>1 DEF ScheduleTimer
  <2> QED
    BY <2>2, <2>3 DEF Anchored
<1>2. CASE Start
  <2>1. UNCHANGED <<heap, due, tasks, registry>> /\ started'
    BY <1>2 DEF Start
  <2> QED
    BY <2>1 DEF Anchored
<1>3. CASE \E c \in Closers : ShutdownCall(c) \/ CloserStep(c) \/ ShutdownTimesOut(c)
  <2>1. UNCHANGED <<heap, due, tasks, registry, started>>
    BY <1>3 DEF ShutdownCall, CloserStep, ShutdownSignal, ShutdownCheck,
                ShutdownArm, ShutdownFinish, ShutdownTimesOut
  <2>2. loop' # "unborn" => loop # "unborn"
    BY <1>3 DEF ShutdownCall, CloserStep, ShutdownSignal, ShutdownCheck,
                ShutdownArm, ShutdownFinish, ShutdownTimesOut
  <2> QED
    BY <2>1, <2>2 DEF Anchored
<1>4. CASE LoopStep
  <2>1. UNCHANGED <<registry, started>> /\ loop # "unborn"
    BY <1>4 DEF LoopStep, LoopExit, LoopPop, LoopCount, LoopSpawn, LoopDrop, LoopPark,
                LoopWakeByTimer, LoopWakeByNotify
  <2>2. heap' \cup due' \subseteq heap \cup due
    BY <1>4 DEF LoopStep, LoopExit, LoopPop, LoopCount, LoopSpawn, LoopDrop, LoopPark,
                LoopWakeByTimer, LoopWakeByNotify, PopDue
  <2>3. \A k \in tasks' : k \in tasks \/ k.entry \in due
    BY <1>4 DEF LoopStep, LoopExit, LoopPop, LoopCount, LoopSpawn, LoopDrop, LoopPark,
                LoopWakeByTimer, LoopWakeByNotify, Earliest
  <2> QED
    BY <2>1, <2>2, <2>3, MoveAnchored DEF Anchored
<1>5. ASSUME NEW k \in tasks, TaskBegin(k) PROVE Anchored'
  <2> DEFINE t == k.entry.timer
  <2>1. UNCHANGED <<registry, started, due, loop>>
    BY <1>5 DEF TaskBegin, RunSkip, RunStart, RunStartFault, StopEngine
  <2>2. \A e \in heap' : e \in heap \/ e.timer = t
    <3>1. MayPush(t, heap)
      BY <1>5, RescheduleAddsOne DEF TaskBegin, RunSkip, RunStart, RunStartFault, MayPush
    <3> QED
      BY <3>1 DEF MayPush
  <2>3. \A j \in tasks' : j \in tasks \/ j.entry = k.entry
    BY <1>5 DEF TaskBegin, RunSkip, RunStart, RunStartFault, FinishRun
  <2> QED
    BY <2>1, <2>2, <2>3, MoveAnchored DEF Anchored
<1>6. ASSUME NEW k \in tasks, TaskEnd(k) PROVE Anchored'
  <2>1. UNCHANGED <<registry, started, loop>>
    BY <1>6 DEF TaskEnd, RunSucceed, RunRetry, RunDie, RunFinishFault, StopEngine
  <2> QED
    BY <1>6, <2>1, TaskEndShape, MoveAnchored DEF Anchored, FinishRun
<1>7. CASE NotifyIdle \/ Tick \/ UNCHANGED vars
  BY <1>7, MoveAnchored DEF NotifyIdle, Tick, vars, Anchored
<1>8. CASE Reopen
  BY <1>8 DEF Reopen, Anchored
<1> QED
  BY <1>1, <1>2, <1>3, <1>4, <1>5, <1>6, <1>7, <1>8 DEF Next

-----------------------------------------------------------------------------
(* A skip timer never overlaps itself.  SkipNeverOverlaps is not inductive: *)
(* a task starts its callback on the strength of the timer's state, so the  *)
(* invariant ties the state to the callbacks, and the policy that is read   *)
(* under the lock to the one the callers always ask for.                    *)

SkipTimers == Settled({"Skip"})

\* Whatever waits or works belongs to a registered spec.
SpecsKnown ==
  /\ \A e \in heap \cup due : specs[e.timer] # NoSpec
  /\ \A k \in tasks : specs[k.entry.timer] # NoSpec

SkipKept == \A t \in SkipTimers : specs[t] # NoSpec => specs[t].overlap = "Skip"

CallingIsRunning ==
  \A k \in tasks : k.pc = "calling" /\ k.entry.timer \in SkipTimers
                     => states[k.entry.timer] = "Running"

OneCalling ==
  \A j, k \in tasks :
    /\ j.pc = "calling" /\ k.pc = "calling"
    /\ j.entry.timer = k.entry.timer /\ k.entry.timer \in SkipTimers
    => j = k

SkipInv == SpecsKnown /\ SkipKept /\ CallingIsRunning /\ OneCalling

LEMMA InitSkip == Init => SkipInv
BY DEF Init, SkipInv, SpecsKnown, SkipKept, CallingIsRunning, OneCalling, SkipTimers,
       Settled

\* Steps that leave specs, states and tasks alone and add nothing to the heap.
LEMMA QuietSkip ==
  ASSUME SkipInv, UNCHANGED <<specs, states, tasks>>,
         heap' \cup due' \subseteq heap \cup due
  PROVE  SkipInv'
<1>1. SkipTimers' = SkipTimers
  BY DEF SkipTimers, Settled
<1> QED
  BY <1>1 DEF SkipInv, SpecsKnown, SkipKept, CallingIsRunning, OneCalling

\* A spec written for a request leaves the policy of the skip timers alone.
LEMMA RespecKeepsSkip ==
  ASSUME TypeOK, SkipKept, NEW t \in Timers, NEW q \in SpecOf[t],
         specs' = [specs EXCEPT ![t] = Resolve(t, q)]
  PROVE  SkipKept'
<1> SUFFICES ASSUME NEW u \in SkipTimers', specs'[u] # NoSpec
             PROVE  specs'[u].overlap = "Skip"
  BY DEF SkipKept
<1>1. CASE u # t
  <2>1. u \in Timers /\ specs'[u] = specs[u]
    BY <1>1 DEF TypeOK, SkipTimers, Settled
  <2>2. u \in SkipTimers
    BY <2>1 DEF SkipTimers, Settled
  <2> QED
    BY <2>1, <2>2 DEF SkipKept
<1>2. CASE u = t
  <2>1. specs'[t] = Resolve(t, q)
    BY DEF TypeOK
  <2>2. CASE \A r \in SpecOf[t] : r.overlap \in {"Skip"}
    BY <1>2, <2>1, <2>2 DEF Resolve
  <2>3. CASE specs'[t].overlap \in {"Skip"}
    BY <1>2, <2>3
  <2> QED
    BY <1>2, <2>2, <2>3 DEF SkipTimers, Settled
<1> QED
  BY <1>1, <1>2

LEMMA ScheduleTimerSkip ==
  ASSUME TypeOK, Anchored, SkipInv, NEW t \in Timers, NEW q \in SpecOf[t],
         ScheduleTimer(t, q)
  PROVE  SkipInv'
<1>2. Resolve(t, q) \in TimerSpec
  BY ResolveType
<1>3. Resolve(t, q) # NoSpec
  BY <1>2 DEF TimerSpec, NoSpec, Overlaps
<1>4. specs' = [specs EXCEPT ![t] = Resolve(t, q)] /\ UNCHANGED <<tasks, due>>
  BY DEF ScheduleTimer, loopv
<1>1. ASSUME NEW k \in tasks, k.entry.timer \in SkipTimers'
      PROVE  k.entry.timer \in SkipTimers
  <2>1. CASE k.entry.timer # t
    <3>1. specs'[k.entry.timer] = specs[k.entry.timer]
      BY <1>1, <1>4, <2>1 DEF TypeOK, Task, Entry
    <3> QED
      BY <1>1, <3>1 DEF SkipTimers, Settled
  <2>2. CASE k.entry.timer = t
    <3>1. t \in Reregistered
      BY <1>1, <2>2 DEF Anchored, ScheduleTimer
    <3> QED
      BY <1>1, <2>2, <3>1 DEF SkipTimers, Settled
  <2> QED
    BY <2>1, <2>2
<1>5. \A u \in Timers : specs[u] # NoSpec => specs'[u] # NoSpec
  BY <1>3, <1>4 DEF TypeOK
<1>6. specs'[t] # NoSpec
  BY <1>3, <1>4 DEF TypeOK
<1>7. \A e \in heap' : e \in heap \/ e.timer = t
  <2>1. MayPush(t, heap) \/ MayPush(t, RemoveTimer(heap, t))
    BY PushAddsOne DEF ScheduleTimer, MayPush
  <2> QED
    BY <2>1 DEF MayPush, RemoveTimer
<1>8. SpecsKnown'
  <2>1. \A e \in heap' \cup due' : specs'[e.timer] # NoSpec
    BY <1>4, <1>5, <1>6, <1>7 DEF SkipInv, SpecsKnown, TypeOK, Entry
  <2>2. \A k \in tasks' : specs'[k.entry.timer] # NoSpec
    BY <1>4, <1>5 DEF SkipInv, SpecsKnown, TypeOK, Task, Entry
  <2> QED
    BY <2>1, <2>2 DEF SpecsKnown
<1>9. SkipKept'
  BY <1>4, RespecKeepsSkip DEF SkipInv
<1>10. CallingIsRunning'
  <2>1. \A u \in Timers : states[u] = "Running" => states'[u] = "Running"
    BY DEF ScheduleTimer, TypeOK
  <2> QED
    BY <1>1, <1>4, <2>1 DEF SkipInv, CallingIsRunning, SkipTimers, Settled
<1>11. OneCalling'
  BY <1>1, <1>4 DEF SkipInv, OneCalling
<1> QED
  BY <1>8, <1>9, <1>10, <1>11 DEF SkipInv

LEMMA LoopSkip ==
  ASSUME TypeOK, SkipInv, LoopStep
  PROVE  SkipInv'
<1> USE DEF durable, sched, flags, loopv, bounds
<1>2. CASE LoopSpawn
  <2>1. PICK e \in due :
          /\ due' = due \ {e}
          /\ tasks' = tasks \cup {[pc |-> "spawned", entry |-> e, spec |-> NoSpec]}
    BY <1>2 DEF LoopSpawn, Earliest
  <2>2. UNCHANGED <<specs, states, heap>>
    BY <1>2 DEF LoopSpawn
  <2>3. SkipTimers' = SkipTimers
    BY <2>2 DEF SkipTimers, Settled
  <2> QED
    BY <2>1, <2>2, <2>3 DEF SkipInv, SpecsKnown, SkipKept, CallingIsRunning, OneCalling
<1>3. CASE LoopPop
  <2>1. heap' \cup due' \subseteq heap \cup due
    BY <1>3 DEF LoopPop, PopDue
  <2> QED
    BY <1>3, <2>1, QuietSkip DEF LoopPop
<1>4. CASE LoopExit \/ LoopCount \/ LoopDrop \/ LoopPark \/ LoopWakeByTimer \/ LoopWakeByNotify
  <2>1. UNCHANGED <<specs, states, tasks>> /\ heap' \cup due' \subseteq heap \cup due
    BY <1>4 DEF LoopExit, LoopCount, LoopDrop, LoopPark, LoopWakeByTimer, LoopWakeByNotify
  <2> QED
    BY <2>1, QuietSkip
<1> QED
  BY <1>2, <1>3, <1>4 DEF LoopStep

\* A task leaves.  Its timer's state may change only if it was the one that
\* was calling, or to Running.
LEMMA LeaveSkip ==
  ASSUME TypeOK, SkipInv, NEW k \in tasks, tasks' = tasks \ {k},
         UNCHANGED <<specs, due>>,
         \A e \in heap' : e \in heap \/ e.timer = k.entry.timer,
         \A u \in Timers : u # k.entry.timer => states'[u] = states[u],
         \/ k.pc = "calling"
         \/ states'[k.entry.timer] \in {states[k.entry.timer], "Running"}
  PROVE  SkipInv'
<1>1. SkipTimers' = SkipTimers
  BY DEF SkipTimers, Settled
<1>2. SpecsKnown'
  BY DEF SkipInv, SpecsKnown
<1>3. SkipKept'
  BY <1>1 DEF SkipInv, SkipKept
<1>4. OneCalling'
  BY <1>1 DEF SkipInv, OneCalling
<1>5. CallingIsRunning'
  <2> SUFFICES ASSUME NEW j \in tasks', j.pc = "calling", j.entry.timer \in SkipTimers
               PROVE  states'[j.entry.timer] = "Running"
    BY <1>1 DEF CallingIsRunning
  <2>1. states[j.entry.timer] = "Running" /\ j \in tasks /\ j # k
    BY DEF SkipInv, CallingIsRunning
  <2>2. j.entry.timer \in Timers
    BY DEF SkipTimers, Settled
  <2>3. CASE j.entry.timer # k.entry.timer
    BY <2>1, <2>2, <2>3
  <2>4. CASE j.entry.timer = k.entry.timer
    <3>1. k.pc # "calling"
      BY <2>1, <2>4 DEF SkipInv, OneCalling
    <3> QED
      BY <2>1, <2>4, <3>1
  <2> QED
    BY <2>3, <2>4
<1> QED
  BY <1>2, <1>3, <1>4, <1>5 DEF SkipInv

LEMMA TaskBeginSkip ==
  ASSUME TypeOK, SkipInv, NEW k \in tasks, TaskBegin(k)
  PROVE  SkipInv'
<1> USE DEF durable, sched, flags, loopv, bounds
<1> DEFINE t == k.entry.timer
<1>1. t \in Timers
  BY DEF TypeOK, Task, Entry
<1>2. CASE RunSkip(k)
  <2>1. MayPush(t, heap) /\ tasks' = tasks \ {k}
    BY <1>2, RescheduleAddsOne DEF RunSkip, FinishRun
  <2>2. UNCHANGED <<specs, states, due>>
    BY <1>2 DEF RunSkip
  <2>3. \A e \in heap' : e \in heap \/ e.timer = t
    BY <2>1 DEF MayPush
  <2> QED
    BY <1>1, <2>1, <2>2, <2>3, LeaveSkip
<1>3. CASE RunStartFault(k)
  <2>1. tasks' = tasks \ {k} /\ UNCHANGED <<specs, due, heap>>
    BY <1>3 DEF RunStartFault, FinishRun
  <2>2. states' = states \/ states' = [states EXCEPT ![t] = "Running"]
    BY <1>3 DEF RunStartFault
  <2>3. /\ \A u \in Timers : u # t => states'[u] = states[u]
        /\ states'[t] \in {states[t], "Running"}
    BY <1>1, <2>2 DEF TypeOK
  <2> QED
    BY <2>1, <2>3, LeaveSkip
<1>4. CASE RunStart(k)
  <2> DEFINE new == [pc |-> "calling", entry |-> k.entry, spec |-> specs[t]]
  <2>1. /\ states' = [states EXCEPT ![t] = "Running"]
        /\ tasks' = (tasks \ {k}) \cup {new}
        /\ ~Overlapping(t)
        /\ UNCHANGED <<specs, due>>
    BY <1>4 DEF RunStart
  <2>2. MayPush(t, heap)
    BY <1>4, RescheduleAddsOne DEF RunStart, MayPush
  <2>3. \A e \in heap' : e \in heap \/ e.timer = t
    BY <2>2 DEF MayPush
  <2>4. SkipTimers' = SkipTimers
    BY <2>1 DEF SkipTimers, Settled
  <2>5. SpecsKnown' /\ SkipKept'
    BY <2>1, <2>3, <2>4 DEF SkipInv, SpecsKnown, SkipKept
  <2>6. CallingIsRunning'
    <3>1. \A u \in Timers : states[u] = "Running" => states'[u] = "Running"
      BY <2>1 DEF TypeOK
    <3>2. states'[t] = "Running"
      BY <1>1, <2>1 DEF TypeOK
    <3> QED
      BY <2>1, <2>4, <3>1, <3>2 DEF SkipInv, CallingIsRunning, SkipTimers, Settled
  <2>7. ASSUME t \in SkipTimers, NEW j \in tasks, j.pc = "calling"
        PROVE  j.entry.timer # t
    <3>1. specs[t].overlap = "Skip"
      BY <2>7 DEF SkipInv, SpecsKnown, SkipKept
    <3>2. states[t] # "Running"
      BY <2>1, <3>1 DEF Overlapping
    <3> QED
      BY <2>7, <3>2 DEF SkipInv, CallingIsRunning
  <2>8. OneCalling'
    BY <2>1, <2>4, <2>7 DEF SkipInv, OneCalling
  <2> QED
    BY <2>5, <2>6, <2>8 DEF SkipInv
<1> QED
  BY <1>2, <1>3, <1>4 DEF TaskBegin

LEMMA NextSkip == TypeOK /\ Anchored /\ SkipInv /\ [Next]_vars => SkipInv'
<1> SUFFICES ASSUME TypeOK, Anchored, SkipInv, [Next]_vars PROVE SkipInv'
  OBVIOUS
<1>1. ASSUME NEW t \in Timers, NEW q \in SpecOf[t], ScheduleTimer(t, q) PROVE SkipInv'
  BY <1>1, ScheduleTimerSkip
<1>2. CASE \/ Start
           \/ \E c \in Closers : ShutdownCall(c) \/ CloserStep(c) \/ ShutdownTimesOut(c)
  <2>1. UNCHANGED <<specs, states, tasks, heap, due>>
    BY <1>2 DEF Start, ShutdownCall, CloserStep, ShutdownSignal, ShutdownCheck,
                ShutdownArm, ShutdownFinish, ShutdownTimesOut, durable, sched, loopv
  <2> QED
    BY <2>1, QuietSkip
<1>3. CASE LoopStep
  BY <1>3, LoopSkip
<1>4. ASSUME NEW k \in tasks, TaskBegin(k) PROVE SkipInv'
  BY <1>4, TaskBeginSkip
<1>5. ASSUME NEW k \in tasks, TaskEnd(k) PROVE SkipInv'
  BY <1>5, TaskEndShape, LeaveSkip DEF FinishRun
<1>6. CASE NotifyIdle \/ Tick \/ UNCHANGED vars
  <2>1. UNCHANGED <<specs, states, tasks, heap, due>>
    BY <1>6 DEF NotifyIdle, Tick, vars, durable, sched, loopv
  <2> QED
    BY <2>1, QuietSkip
<1>7. CASE Reopen
  <2>1. heap' = {} /\ due' = {} /\ tasks' = {}
    BY <1>7 DEF Reopen
  <2>2. \/ UNCHANGED specs
        \/ \E t \in Timers : \E q \in SpecOf[t] :
             specs' = [specs EXCEPT ![t] = Resolve(t, q)]
    BY <1>7 DEF Reopen, ReplayUnacked, durable
  <2>3. UNCHANGED specs => SkipKept'
    BY DEF SkipInv, SkipKept, SkipTimers, Settled
  <2>4. SkipKept'
    BY <2>2, <2>3, RespecKeepsSkip DEF SkipInv
  <2> QED
    BY <2>1, <2>4 DEF SkipInv, SpecsKnown, CallingIsRunning, OneCalling
<1> QED
  BY <1>1, <1>2, <1>3, <1>4, <1>5, <1>6, <1>7 DEF Next

\* Two callbacks of a timer whose overlap policy stays "skip" while it runs
\* never run at once: for any number of timers, runs, retries, faults,
\* restarts and re-registrations.
THEOREM SkipSafe == Spec => []SkipNeverOverlaps
<1>1. SkipInv => SkipNeverOverlaps
  BY DEF SkipInv, OneCalling, SkipNeverOverlaps, SkipTimers, Calling, Working, Settled
<1> QED
  BY <1>1, InitSkip, NextSkip, InitAnchored, NextAnchored, TypeCorrect, PTL DEF Spec

\* A popped entry always finds a spec and a callable, whatever the callers
\* register, however often the process restarts: run_timer's "spec is gone"
\* and "function not registered" branches are dead code.
THEOREM FunctionSafe == Spec => []RunsHaveFunction
<1>1. SkipInv /\ Anchored => RunsHaveFunction
  <2> SUFFICES ASSUME SkipInv, Anchored, NEW t \in Timers, Waiting(t) \cup Working(t) # {}
               PROVE  t \in registry /\ specs[t] # NoSpec
    BY DEF RunsHaveFunction
  <2>1. CASE \E e \in heap \cup due : e.timer = t
    BY <2>1 DEF SkipInv, SpecsKnown, Anchored
  <2>2. CASE \E k \in tasks : k.entry.timer = t
    BY <2>2 DEF SkipInv, SpecsKnown, Anchored
  <2> QED
    BY <2>1, <2>2 DEF Waiting, Working
<1> QED
  BY <1>1, InitSkip, NextSkip, InitAnchored, NextAnchored, TypeCorrect, PTL DEF Spec

-----------------------------------------------------------------------------
(* active_runs counts the tasks.  A set of tasks grows by one only if the   *)
(* new task is new, so no run id may ever be in two places at once.         *)

RunIdsApart ==
  /\ \A e, f \in heap \cup due : e.run = f.run => e = f
  /\ heap \cap due = {}
  /\ \A j, k \in tasks : j.entry.run = k.entry.run => j = k
  /\ \A k \in tasks, e \in heap \cup due : k.entry.run # e.run

CountInv == RunIdsApart /\ IsFiniteSet(tasks) /\ ActiveRunsCounted

LEMMA InitCount == Init => CountInv
<1> SUFFICES ASSUME Init PROVE CountInv
  OBVIOUS
<1>1. IsFiniteSet(tasks) /\ ActiveRunsCounted
  BY FS_EmptySet DEF Init, ActiveRunsCounted
<1>2. RunIdsApart
  BY DEF Init, RunIdsApart
<1> QED
  BY <1>1, <1>2 DEF CountInv

\* Nothing in use carries a run id that UsedRuns does not list.
LEMMA UsedRunsCover ==
  /\ \A f \in heap \cup due : f.run \in UsedRuns
  /\ \A j \in tasks : j.entry.run \in UsedRuns
BY DEF UsedRuns

\* Run ids stay apart when the tasks keep their entries and at most one entry
\* is added, under an id that neither the queue nor the remaining tasks use.
LEMMA ApartStep ==
  ASSUME RunIdsApart, due' = due,
         \A j \in tasks' : \E i \in tasks : i.entry = j.entry,
         \A i, j \in tasks' : i.entry.run = j.entry.run => i = j,
         \/ heap' \subseteq heap
         \/ \E e \in heap' :
              /\ heap' \subseteq heap \cup {e}
              /\ \A f \in heap \cup due : f.run # e.run
              /\ \A j \in tasks' : j.entry.run # e.run
  PROVE  RunIdsApart'
<1>1. CASE heap' \subseteq heap
  BY <1>1 DEF RunIdsApart
<1>2. ASSUME NEW e \in heap', heap' \subseteq heap \cup {e},
             \A f \in heap \cup due : f.run # e.run,
             \A j \in tasks' : j.entry.run # e.run
      PROVE  RunIdsApart'
  <2>1. \A f, g \in heap' \cup due' : f.run = g.run => f = g
    BY <1>2 DEF RunIdsApart
  <2>2. heap' \cap due' = {}
    BY <1>2 DEF RunIdsApart
  <2>3. \A j \in tasks', f \in heap' \cup due' : j.entry.run # f.run
    BY <1>2 DEF RunIdsApart
  <2> QED
    BY <2>1, <2>2, <2>3 DEF RunIdsApart
<1> QED
  BY <1>1, <1>2

\* Steps that leave tasks and active alone and only shrink the queue.
LEMMA QuietCount ==
  ASSUME CountInv, UNCHANGED <<tasks, active>>,
         loop' = "handoff" <=> loop = "handoff",
         heap' \cup due' \subseteq heap \cup due, heap' \cap due' = {}
  PROVE  CountInv'
<1>1. RunIdsApart'
  BY DEF CountInv, RunIdsApart
<1> QED
  BY <1>1 DEF CountInv, ActiveRunsCounted

\* finish_run: one task fewer, one run fewer.
LEMMA LeaveCount ==
  ASSUME CountInv, NEW k \in tasks, FinishRun(k), UNCHANGED <<due, loop>>,
         \/ heap' \subseteq heap
         \/ \E e \in heap' : /\ heap' \subseteq heap \cup {e}
                             /\ e.run \notin UsedRuns \/ e.run = k.entry.run
  PROVE  CountInv'
<1>1. tasks' = tasks \ {k}
  BY DEF FinishRun
<1>2. RunIdsApart'
  <2>1. CASE heap' \subseteq heap
    BY <1>1, <2>1, ApartStep DEF CountInv, RunIdsApart
  <2>2. ASSUME NEW e \in heap', heap' \subseteq heap \cup {e},
               e.run \notin UsedRuns \/ e.run = k.entry.run
        PROVE  RunIdsApart'
    <3>1. \A f \in heap \cup due : f.run # e.run
      BY <2>2, UsedRunsCover DEF CountInv, RunIdsApart
    <3>2. \A j \in tasks' : j.entry.run # e.run
      BY <1>1, <2>2, UsedRunsCover DEF CountInv, RunIdsApart
    <3>3. \A i, j \in tasks' : i.entry.run = j.entry.run => i = j
      BY <1>1 DEF CountInv, RunIdsApart
    <3>4. RunIdsApart
      BY DEF CountInv
    <3> QED
      BY <1>1, <2>2, <3>1, <3>2, <3>3, <3>4, ApartStep
  <2> QED
    BY <2>1, <2>2
<1>3. IsFiniteSet(tasks) /\ Cardinality(tasks) \in Nat /\ ActiveRunsCounted
  BY FS_CardinalityType DEF CountInv
<1>4. IsFiniteSet(tasks') /\ Cardinality(tasks') = Cardinality(tasks) - 1
  BY <1>1, <1>3, FS_RemoveElement
<1>5. Cardinality(tasks') \in Nat
  BY <1>4, FS_CardinalityType
<1>6. ActiveRunsCounted'
  BY <1>3, <1>4, <1>5 DEF FinishRun, ActiveRunsCounted
<1> QED
  BY <1>2, <1>4, <1>6 DEF CountInv

LEMMA ScheduleTimerCount ==
  ASSUME CountInv, NEW t, NEW q, ScheduleTimer(t, q)
  PROVE  CountInv'
<1>1. UNCHANGED <<tasks, active, due, loop>>
  BY DEF ScheduleTimer, loopv
<1>2. MayPush(t, heap) \/ MayPush(t, RemoveTimer(heap, t))
  BY PushAddsOne DEF ScheduleTimer, MayPush
<1>3. \/ heap' \subseteq heap
      \/ \E e \in heap' : heap' \subseteq heap \cup {e} /\ e.run \notin UsedRuns
  BY <1>2 DEF MayPush, RemoveTimer
<1>4. RunIdsApart /\ \A i, j \in tasks' : i.entry.run = j.entry.run => i = j
  BY <1>1 DEF CountInv, RunIdsApart
<1>5. RunIdsApart'
  BY <1>1, <1>3, <1>4, UsedRunsCover, ApartStep
<1> QED
  BY <1>1, <1>5 DEF CountInv, ActiveRunsCounted

LEMMA LoopStepCount ==
  ASSUME CountInv, LoopStep
  PROVE  CountInv'
<1> USE DEF sched, loopv
<1>1. CASE LoopSpawn
  <2> DEFINE new(e) == [pc |-> "spawned", entry |-> e, spec |-> NoSpec]
  <2>1. PICK e \in due : due' = due \ {e} /\ tasks' = tasks \cup {new(e)}
    BY <1>1 DEF LoopSpawn, Earliest
  <2>2. heap' = heap /\ active' = active /\ loop = "handoff" /\ loop' = "spawn"
    BY <1>1 DEF LoopSpawn
  <2>3. new(e) \notin tasks
    BY DEF CountInv, RunIdsApart
  <2>4. RunIdsApart'
    <3>1. \A f \in heap' \cup due' : f \in heap \cup due /\ f.run # e.run
      BY <2>1, <2>2 DEF CountInv, RunIdsApart
    <3>2. heap' \cap due' = {}
      BY <2>1, <2>2 DEF CountInv, RunIdsApart
    <3>3. \A i, j \in tasks' : i.entry.run = j.entry.run => i = j
      BY <2>1 DEF CountInv, RunIdsApart
    <3>4. \A j \in tasks', f \in heap' \cup due' : j.entry.run # f.run
      BY <2>1, <3>1 DEF CountInv, RunIdsApart
    <3> QED
      BY <3>1, <3>2, <3>3, <3>4 DEF CountInv, RunIdsApart
  <2>5. IsFiniteSet(tasks) /\ Cardinality(tasks) \in Nat /\ active = Cardinality(tasks) + 1
    BY <2>2, FS_CardinalityType DEF CountInv, ActiveRunsCounted
  <2>6. IsFiniteSet(tasks') /\ Cardinality(tasks') = Cardinality(tasks) + 1
    BY <2>1, <2>3, <2>5, FS_AddElement
  <2> QED
    BY <2>2, <2>4, <2>5, <2>6 DEF CountInv, ActiveRunsCounted
<1>2. CASE LoopPop
  <2>1. heap' \cup due' \subseteq heap \cup due /\ heap' \cap due' = {}
    BY <1>2 DEF LoopPop, PopDue
  <2> QED
    BY <1>2, <2>1, QuietCount DEF LoopPop
<1>3. CASE LoopExit \/ LoopDrop \/ LoopPark \/ LoopWakeByTimer \/ LoopWakeByNotify
  <2>1. /\ UNCHANGED <<tasks, active>> /\ heap' = heap /\ due' \subseteq due
        /\ loop # "handoff" /\ loop' # "handoff"
    BY <1>3 DEF LoopExit, LoopDrop, LoopPark, LoopWakeByTimer, LoopWakeByNotify
  <2>2. heap \cap due = {}
    BY DEF CountInv, RunIdsApart
  <2> QED
    BY <2>1, <2>2, QuietCount
<1>4. CASE LoopCount
  <2>1. /\ UNCHANGED <<tasks, heap, due>> /\ active' = active + 1
        /\ loop = "spawn" /\ loop' = "handoff"
    BY <1>4 DEF LoopCount
  <2>2. RunIdsApart'
    BY <2>1 DEF CountInv, RunIdsApart
  <2> QED
    BY <2>1, <2>2, FS_CardinalityType DEF CountInv, ActiveRunsCounted
<1> QED
  BY <1>1, <1>2, <1>3, <1>4 DEF LoopStep

LEMMA TaskBeginCount ==
  ASSUME CountInv, NEW k \in tasks, TaskBegin(k)
  PROVE  CountInv'
<1> USE DEF sched, loopv
<1> DEFINE t == k.entry.timer
<1>1. CASE RunSkip(k)
  <2>1. MayPush(t, heap) /\ FinishRun(k) /\ UNCHANGED <<due, loop>>
    BY <1>1, RescheduleAddsOne DEF RunSkip
  <2> QED
    BY <2>1, LeaveCount DEF MayPush
<1>2. CASE RunStartFault(k)
  <2>1. FinishRun(k) /\ UNCHANGED <<heap, due, loop>>
    BY <1>2 DEF RunStartFault
  <2> QED
    BY <2>1, LeaveCount
<1>3. CASE RunStart(k)
  <2> DEFINE new == [pc |-> "calling", entry |-> k.entry, spec |-> specs[t]]
  <2>1. /\ k.pc = "spawned" /\ tasks' = (tasks \ {k}) \cup {new}
        /\ UNCHANGED <<active, due, loop>>
    BY <1>3 DEF RunStart
  <2>2. MayPush(t, heap)
    BY <1>3, RescheduleAddsOne DEF RunStart, MayPush
  <2>3. new \notin tasks /\ new.entry = k.entry
    BY <2>1 DEF CountInv, RunIdsApart
  <2>4. \A j \in tasks' : \E i \in tasks : i.entry = j.entry
    BY <2>1, <2>3
  <2>5. \A i, j \in tasks' : i.entry.run = j.entry.run => i = j
    BY <2>1, <2>3 DEF CountInv, RunIdsApart
  <2>6. \/ heap' \subseteq heap
        \/ \E e \in heap' :
             /\ heap' \subseteq heap \cup {e}
             /\ \A f \in heap \cup due : f.run # e.run
             /\ \A j \in tasks' : j.entry.run # e.run
    BY <2>2, <2>4, UsedRunsCover DEF MayPush
  <2>7. RunIdsApart'
    BY <2>1, <2>4, <2>5, <2>6, ApartStep DEF CountInv
  <2>8. IsFiniteSet(tasks) /\ ActiveRunsCounted
    BY DEF CountInv
  <2>9. /\ IsFiniteSet(tasks \ {k})
        /\ Cardinality(tasks \ {k}) = Cardinality(tasks) - 1
    BY <2>8, FS_RemoveElement
  <2>10. /\ IsFiniteSet(tasks')
         /\ Cardinality(tasks') = Cardinality(tasks \ {k}) + 1
    BY <2>1, <2>3, <2>9, FS_AddElement
  <2>11. Cardinality(tasks) \in Nat
    BY <2>8, FS_CardinalityType
  <2> QED
    BY <2>1, <2>7, <2>8, <2>9, <2>10, <2>11 DEF CountInv, ActiveRunsCounted
<1> QED
  BY <1>1, <1>2, <1>3 DEF TaskBegin

LEMMA TaskEndCount ==
  ASSUME CountInv, NEW k \in tasks, TaskEnd(k)
  PROVE  CountInv'
<1> USE DEF sched, loopv
<1> DEFINE t == k.entry.timer
<1>1. CASE RunSucceed(k) \/ RunDie(k)
  <2>1. MayPush(t, heap) /\ FinishRun(k) /\ UNCHANGED <<due, loop>>
    BY <1>1, RescheduleAddsOne DEF RunSucceed, RunDie, MayPush
  <2> QED
    BY <2>1, LeaveCount DEF MayPush
<1>2. CASE RunRetry(k)
  <2>1. FinishRun(k) /\ UNCHANGED <<due, loop>>
    BY <1>2 DEF RunRetry
  <2>2. \/ heap' \subseteq heap
        \/ \E e \in heap' : heap' \subseteq heap \cup {e} /\ e.run = k.entry.run
    BY <1>2, KeptSmaller DEF RunRetry
  <2> QED
    BY <2>1, <2>2, LeaveCount
<1>3. CASE RunFinishFault(k)
  <2>1. FinishRun(k) /\ UNCHANGED <<due, loop>> /\ heap' \subseteq heap
    BY <1>3, KeptSmaller DEF RunFinishFault
  <2> QED
    BY <2>1, LeaveCount
<1> QED
  BY <1>1, <1>2, <1>3 DEF TaskEnd

LEMMA NextCount == Anchored /\ CountInv /\ [Next]_vars => CountInv'
<1> SUFFICES ASSUME Anchored, CountInv, [Next]_vars PROVE CountInv'
  OBVIOUS
<1>1. ASSUME NEW t \in Timers, NEW q \in SpecOf[t], ScheduleTimer(t, q) PROVE CountInv'
  BY <1>1, ScheduleTimerCount
<1>2. CASE \/ Start \/ NotifyIdle \/ Tick \/ UNCHANGED vars
           \/ \E c \in Closers : ShutdownCall(c) \/ CloserStep(c) \/ ShutdownTimesOut(c)
  <2>1. /\ UNCHANGED <<tasks, active, heap, due>>
        /\ loop' = "handoff" <=> loop = "handoff"
    BY <1>2 DEF Anchored, Start, NotifyIdle, Tick, vars, ShutdownCall, CloserStep, ShutdownSignal,
                ShutdownCheck, ShutdownArm, ShutdownFinish, ShutdownTimesOut, sched, loopv
  <2>2. heap \cap due = {}
    BY DEF CountInv, RunIdsApart
  <2> QED
    BY <2>1, <2>2, QuietCount
<1>3. CASE LoopStep
  BY <1>3, LoopStepCount
<1>4. ASSUME NEW k \in tasks, TaskBegin(k) \/ TaskEnd(k) PROVE CountInv'
  BY <1>4, TaskBeginCount, TaskEndCount
<1>5. CASE Reopen
  <2>1. heap' = {} /\ due' = {} /\ tasks' = {} /\ active' = 0 /\ loop' = "unborn"
    BY <1>5 DEF Reopen
  <2>2. IsFiniteSet(tasks') /\ Cardinality(tasks') = 0
    BY <2>1, FS_EmptySet
  <2>3. RunIdsApart'
    BY <2>1 DEF RunIdsApart
  <2> QED
    BY <2>1, <2>2, <2>3 DEF CountInv, ActiveRunsCounted
<1> QED
  BY <1>1, <1>2, <1>3, <1>4, <1>5 DEF Next

\* active_runs is the number of run_timer tasks that have not finished, over
\* every path through run_timer, failing appends and restarts included.
THEOREM CountSafe == Spec => []ActiveRunsCounted
<1>1. CountInv => ActiveRunsCounted
  BY DEF CountInv
<1> QED
  BY <1>1, InitCount, NextCount, InitAnchored, NextAnchored, TypeCorrect, PTL DEF Spec

-----------------------------------------------------------------------------
(* shutdown() waits.  That active_runs was zero when shutdown() looked says *)
(* nothing by itself: it must stay zero until the engine is marked stopped, *)
(* so the invariant follows the flags from the first critical section on.   *)

InShutdown == {"signal", "check", "arm", "wait", "finish"}

\* A call that waits has announced itself; only a started engine announces.
Announced ==
  /\ \A c \in Closers : closer[c] \in InShutdown => shuttingDown
  /\ shuttingDown => started
  /\ started /\ stopped => shuttingDown

\* No task, and none that the loop has counted and is about to spawn.
Idle == tasks = {} /\ loop # "handoff"

\* A call that has seen no run, and an engine that stopped without a failing
\* append, have no task left.
NoTaskLeft ==
  /\ \A c \in Closers : closer[c] = "finish" => Idle
  /\ faults = 0 /\ stopped => Idle
  /\ \A c \in Closers : closer[c] = "ok" => stopped

ShutdownInv == Announced /\ NoTaskLeft

LEMMA InitShutdown == Init => ShutdownInv
BY DEF Init, ShutdownInv, Announced, NoTaskLeft, Idle, InShutdown

\* Steps that leave the flags and the callers alone and start no task, or
\* wake callers that wait.
LEMMA QuietShutdown ==
  ASSUME TypeOK, ShutdownInv, UNCHANGED <<flags, faults>>,
         closer' = closer \/ closer' = WakeClosers(closer),
         Idle => Idle'
  PROVE  ShutdownInv'
<1>1. \A c \in Closers : \/ closer'[c] = closer[c]
                         \/ closer[c] = "wait" /\ closer'[c] = "check"
  BY DEF WakeClosers, TypeOK
<1> QED
  BY <1>1 DEF ShutdownInv, Announced, NoTaskLeft, InShutdown, flags

\* The first and the later critical sections of shutdown().
LEMMA CallerShutdown ==
  ASSUME TypeOK, Anchored, ShutdownInv, CountInv, NEW c \in Closers,
         ShutdownCall(c) \/ CloserStep(c) \/ ShutdownTimesOut(c)
  PROVE  ShutdownInv'
<1> USE DEF flags, bounds, InShutdown
<1>1. \A d \in Closers : d # c => closer'[d] = closer[d]
  BY DEF ShutdownCall, CloserStep, ShutdownSignal, ShutdownCheck, ShutdownArm,
         ShutdownFinish, ShutdownTimesOut, TypeOK
<1>2. UNCHANGED <<tasks, faults, started>> /\ (Idle => Idle')
  BY DEF ShutdownCall, CloserStep, ShutdownSignal, ShutdownCheck, ShutdownArm,
         ShutdownFinish, ShutdownTimesOut, Idle, loopv
<1>3. CASE ShutdownCall(c)
  <2>1. CASE stopped /\ closer'[c] = "ok" /\ UNCHANGED flags
    BY <1>1, <1>2, <2>1 DEF ShutdownInv, Announced, NoTaskLeft
  <2>2. CASE ~stopped /\ ~started /\ stopped' /\ closer'[c] = "ok"
             /\ UNCHANGED <<started, shuttingDown>>
    BY <1>1, <1>2, <2>2 DEF ShutdownInv, Announced, NoTaskLeft, Idle, Anchored
  <2>3. CASE ~stopped /\ started /\ shuttingDown' /\ closer'[c] = "signal"
             /\ UNCHANGED <<started, stopped>>
    BY <1>1, <1>2, <2>3 DEF ShutdownInv, Announced, NoTaskLeft
  <2> QED
    BY <1>3, <2>1, <2>2, <2>3 DEF ShutdownCall, TypeOK
<1>4. CASE ShutdownCheck(c)
  <2>1. active = 0 => Idle
    BY FS_EmptySet, FS_CardinalityType DEF CountInv, ActiveRunsCounted, Idle
  <2>2. /\ closer[c] = "check" /\ UNCHANGED flags
        /\ closer'[c] = IF active = 0 THEN "finish" ELSE "arm"
    BY <1>4 DEF ShutdownCheck, TypeOK
  <2> QED
    BY <1>1, <1>2, <2>1, <2>2 DEF ShutdownInv, Announced, NoTaskLeft
<1>5. CASE ShutdownFinish(c)
  <2>1. /\ closer[c] = "finish" /\ closer'[c] = "ok" /\ stopped'
        /\ UNCHANGED <<started, shuttingDown>>
    BY <1>5 DEF ShutdownFinish, TypeOK
  <2> QED
    BY <1>1, <1>2, <2>1 DEF ShutdownInv, Announced, NoTaskLeft
<1>6. CASE ShutdownSignal(c) \/ ShutdownArm(c) \/ ShutdownTimesOut(c)
  <2>1. /\ closer[c] \in InShutdown /\ closer'[c] \in {"check", "wait", "timeout"}
        /\ UNCHANGED flags
    BY <1>6 DEF ShutdownSignal, ShutdownArm, ShutdownTimesOut, TypeOK
  <2> QED
    BY <1>1, <1>2, <2>1 DEF ShutdownInv, Announced, NoTaskLeft
<1> QED
  BY <1>3, <1>4, <1>5, <1>6 DEF CloserStep

\* Tasks end, succeed or stop the engine; they never come from nothing.
LEMMA TaskShutdown ==
  ASSUME TypeOK, Anchored, ShutdownInv, NEW k \in tasks, TaskBegin(k) \/ TaskEnd(k)
  PROVE  ShutdownInv'
<1> USE DEF flags, bounds
<1>1. UNCHANGED <<closer, started>>
  BY DEF TaskBegin, TaskEnd, RunSkip, RunStart, RunStartFault, RunSucceed, RunRetry,
         RunDie, RunFinishFault
<1>2. CASE UNCHANGED <<flags, faults>>
  BY <1>1, <1>2, QuietShutdown DEF Idle
<1>3. CASE StopEngine
  <2>1. shuttingDown' /\ stopped' /\ faults' # 0 /\ started'
    BY <1>1, <1>3 DEF StopEngine, TypeOK, Anchored
  <2>2. \A c \in Closers : closer[c] # "finish"
    BY DEF ShutdownInv, NoTaskLeft, Idle
  <2> QED
    BY <1>1, <2>1, <2>2 DEF ShutdownInv, Announced, NoTaskLeft
<1> QED
  BY <1>2, <1>3 DEF TaskBegin, TaskEnd, RunSkip, RunStart, RunStartFault, RunSucceed,
                    RunRetry, RunDie, RunFinishFault

LEMMA NextShutdown ==
  TypeOK /\ Anchored /\ CountInv /\ ShutdownInv /\ [Next]_vars => ShutdownInv'
<1> SUFFICES ASSUME TypeOK, Anchored, CountInv, ShutdownInv, [Next]_vars
             PROVE  ShutdownInv'
  OBVIOUS
<1> USE DEF flags, bounds, loopv
<1>1. ASSUME NEW t \in Timers, NEW q \in SpecOf[t], ScheduleTimer(t, q)
      PROVE  ShutdownInv'
  BY <1>1, QuietShutdown DEF ScheduleTimer, Idle
<1>2. CASE Start
  <2>1. /\ ~stopped /\ started' /\ UNCHANGED <<stopped, shuttingDown, tasks, closer, faults>>
        /\ loop' = "check"
    BY <1>2 DEF Start
  <2> QED
    BY <2>1 DEF ShutdownInv, Announced, NoTaskLeft, Idle
<1>3. ASSUME NEW c \in Closers, ShutdownCall(c) \/ CloserStep(c) \/ ShutdownTimesOut(c)
      PROVE  ShutdownInv'
  BY <1>3, CallerShutdown
<1>4. CASE LoopCount
  <2>1. started /\ ~shuttingDown /\ UNCHANGED <<flags, faults, closer>>
    BY <1>4 DEF LoopCount, Anchored
  <2>2. ~stopped /\ \A c \in Closers : closer[c] # "finish"
    BY <2>1 DEF ShutdownInv, Announced, InShutdown
  <2> QED
    BY <2>1, <2>2 DEF ShutdownInv, Announced, NoTaskLeft
<1>5. CASE \/ LoopExit \/ LoopPop \/ LoopSpawn \/ LoopDrop \/ LoopPark
           \/ LoopWakeByTimer \/ LoopWakeByNotify
  BY <1>5, QuietShutdown DEF LoopExit, LoopPop, LoopSpawn, LoopDrop, LoopPark,
                             LoopWakeByTimer, LoopWakeByNotify, Idle
<1>6. ASSUME NEW k \in tasks, TaskBegin(k) \/ TaskEnd(k) PROVE ShutdownInv'
  BY <1>6, TaskShutdown
<1>7. CASE NotifyIdle \/ Tick \/ UNCHANGED vars
  BY <1>7, QuietShutdown DEF NotifyIdle, Tick, vars, Idle
<1>8. CASE Reopen
  BY <1>8 DEF Reopen, ShutdownInv, Announced, NoTaskLeft, Idle, InShutdown
<1> QED
  BY <1>1, <1>2, <1>3, <1>4, <1>5, <1>6, <1>7, <1>8 DEF Next, LoopStep

\* shutdown() returning Ok means that every callback has returned, unless an
\* append failed: for any number of callers of shutdown(), runs and restarts,
\* and wherever each of them is when the other moves.
THEOREM ShutdownSafe == Spec => []ShutdownWaits
<1>1. ShutdownInv => ShutdownWaits
  BY DEF ShutdownInv, NoTaskLeft, Idle, ShutdownWaits
<1> QED
  BY <1>1, InitShutdown, NextShutdown, InitAnchored, NextAnchored, InitCount, NextCount,
     TypeCorrect, PTL DEF Spec
=============================================================================

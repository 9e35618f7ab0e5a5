----------------------------- MODULE RunClaims ------------------------------
(***************************************************************************)
(* Server mode: workers claim due runs, finish them or lose their lease.    *)
(* apply_kron_command (file_store.rs) is the replicated state machine; the  *)
(* handlers of runtime.rs read its state on the leader and propose commands.*)
(*                                                                         *)
(* OpenRaft is external and taken at its word: proposed commands are        *)
(* committed one at a time, in some order, and applied to one replicated    *)
(* state.  A command is computed from the state a handler read and may be   *)
(* committed much later, after any number of others, by this leader or the  *)
(* next; it may also be lost, and its proposer may be told it failed while  *)
(* it is still under way.                                                   *)
(***************************************************************************)
EXTENDS Integers, FiniteSets

CONSTANTS
  Timers, Workers,
  OneShot,      \* timers with an At or After schedule
  Period,       \* interval of the others
  Lease,        \* KRON_WORKER_LEASE_SECONDS
  MaxAttempts,  \* RetryPolicy::max_attempts
  MaxRuns,      \* bound on run ids
  MaxCreates,   \* bound on CreateTimer requests, per timer
  MaxLosses,    \* bound on lost commands and failed answers
  MaxTime       \* bound on the clock

ASSUME ClaimsAssumption ==
  /\ OneShot \subseteq Timers
  /\ Period \in Nat \ {0} /\ Lease \in Nat \ {0} /\ MaxAttempts \in Nat \ {0}
  /\ MaxRuns \in Nat /\ MaxCreates \in Nat /\ MaxLosses \in Nat /\ MaxTime \in Nat

VARIABLES
  now,
  timers,       \* PersistedTimer and next_runs, per timer
  active,       \* active_runs
  replacements, \* pending: what ExpireRunLease queues
  inflight,     \* commands proposed and neither committed nor lost
  polling,      \* per worker: the claim its poll is waiting for
  held,         \* runs handed to workers and not yet reported
  lastRun,      \* run ids are drawn in order
  ended,        \* history: how each run ended
  reused,       \* history: timers for which tokens may have been given twice
  creates,      \* CreateTimer requests, per timer
  losses

NoTime == -1
RunIds == 1 .. MaxRuns
NoClaim == [op |-> "None"]

TimerStates == {"Absent", "Scheduled", "Running", "Retrying", "Dead"}
Timer == [state: TimerStates, token: Nat, next: Nat \cup {NoTime}]
Run   == [run: RunIds, timer: Timers, worker: Workers, token: Nat,
          attempt: Nat, deadline: Nat]
Replacement == [run: RunIds, timer: Timers, token: Nat, attempt: Nat]
Outcomes == {"none", "succeeded", "failed", "expired"}

\* The members of RaftCommand that move runs.
CreateCmd   == [op: {"Create"}, timer: Timers, next: Nat \cup {NoTime}]
ClaimCmd    == [op: {"Claim"}, claim: Run]
CompleteCmd == [op: {"Complete"}, run: RunIds, worker: Workers, token: Nat, at: Nat]
FailCmd     == [op: {"Fail"}, run: RunIds, worker: Workers, token: Nat]
ExpireCmd   == [op: {"Expire"}, run: RunIds, with: SUBSET Replacement]
Command     == CreateCmd \cup ClaimCmd \cup CompleteCmd \cup FailCmd \cup ExpireCmd

vars == <<now, timers, active, replacements, inflight, polling, held, lastRun,
          ended, reused, creates, losses>>
machine == <<timers, active, replacements, ended>>

TypeOK ==
  /\ now \in Nat
  /\ timers \in [Timers -> Timer]
  /\ active \subseteq Run
  /\ replacements \subseteq Replacement
  /\ inflight \subseteq Command
  /\ polling \in [Workers -> ClaimCmd \cup {NoClaim}]
  /\ held \subseteq Run
  /\ lastRun \in 0 .. MaxRuns
  /\ ended \in [RunIds -> Outcomes] /\ reused \subseteq Timers
  /\ creates \in [Timers -> Nat] /\ losses \in Nat

-----------------------------------------------------------------------------
(* The state machine: apply_kron_command                                   *)

ActiveOf(t)   == {a \in active : a.timer = t}
ActiveRun(r)  == {a \in active : a.run = r}

\* CreateTimer overwrites the timer, its fencing token included.
ApplyCreate(c) ==
  /\ timers' = [timers EXCEPT ![c.timer] =
                  [state |-> "Scheduled", token |-> 0, next |-> c.next]]
  /\ UNCHANGED <<active, replacements, ended>>

\* Mutant: a second claim of a timer is not turned away.
ApplyClaimAnyway(c) ==
  LET k == c.claim IN
  /\ timers' = [timers EXCEPT ![k.timer] = [state |-> "Running", token |-> k.token,
                                              next |-> @.next]]
  /\ replacements' = {p \in replacements : p.run # k.run}
  /\ active' = active \cup {k}
  /\ UNCHANGED ended

\* ClaimRun is a no-op while any run of the timer is active.
ApplyClaim(c) ==
  LET k == c.claim IN
  \/ ActiveOf(k.timer) # {} /\ UNCHANGED machine
  \/ /\ ActiveOf(k.timer) = {}
     /\ timers' = [timers EXCEPT ![k.timer] = [state |-> "Running", token |-> k.token,
                                              next |-> @.next]]
     /\ replacements' = {p \in replacements : p.run # k.run}
     /\ active' = active \cup {k}
     /\ UNCHANGED ended

\* Owned(c): the run is active, for this worker and with this token.
Owned(c) == {a \in ActiveRun(c.run) : a.worker = c.worker /\ a.token = c.token}

\* reschedule_timer: a recurring timer may have no next run either, when its
\* expression or timezone does not parse or names no date.
Rescheduled(t, after) == IF t \in OneShot THEN {NoTime} ELSE {after + Period, NoTime}

\* Mutant: the completion is recorded without asking whether it is valid.
ApplyCompleteUnfenced(c) ==
  /\ active' = active \ ActiveRun(c.run)
  /\ ended' = [ended EXCEPT ![c.run] = "succeeded"]
  /\ UNCHANGED <<timers, replacements>>

ApplyComplete(c) ==
  \/ Owned(c) = {} /\ UNCHANGED machine
  \/ \E a \in Owned(c) :
       /\ active' = active \ {a}
       /\ \E n \in Rescheduled(a.timer, c.at) :
            timers' = [timers EXCEPT ![a.timer] =
                         [state |-> "Scheduled", token |-> @.token, next |-> n]]
       /\ ended' = [ended EXCEPT ![c.run] = "succeeded"]
       /\ UNCHANGED replacements

\* FailRun leaves next_runs as it is.
ApplyFail(c) ==
  \/ Owned(c) = {} /\ UNCHANGED machine
  \/ \E a \in Owned(c) :
       /\ active' = active \ {a}
       /\ timers' = [timers EXCEPT ![a.timer].state = "Dead"]
       /\ ended' = [ended EXCEPT ![c.run] = "failed"]
       /\ UNCHANGED replacements

\* Mutant: the expired run stays active beside its replacement.
ApplyExpireKeepsRun(c) ==
  \/ ActiveRun(c.run) = {} /\ UNCHANGED machine
  \/ \E a \in ActiveRun(c.run) :
       /\ timers' = [timers EXCEPT ![a.timer].state = "Retrying"]
       /\ replacements' = replacements \cup c.with
       /\ ended' = [ended EXCEPT ![c.run] = "expired"]
       /\ UNCHANGED active

\* Mutant: the expiry gives the token back, as if nobody had used it.
ApplyExpireReturnsToken(c) ==
  \/ ActiveRun(c.run) = {} /\ UNCHANGED machine
  \/ \E a \in ActiveRun(c.run) :
       /\ active' = active \ {a}
       /\ timers' = [timers EXCEPT ![a.timer] =
                       [state |-> "Retrying", token |-> @.token - 1, next |-> @.next]]
       /\ replacements' = replacements \cup c.with
       /\ ended' = [ended EXCEPT ![c.run] = "expired"]

\* ExpireRunLease names only the run; `with` holds the replacement, if any.
ApplyExpire(c) ==
  \/ ActiveRun(c.run) = {} /\ UNCHANGED machine
  \/ \E a \in ActiveRun(c.run) :
       /\ active' = active \ {a}
       /\ \/ \E p \in c.with :
               /\ timers' = [timers EXCEPT ![p.timer] =
                               [state |-> "Retrying", token |-> p.token,
                                next |-> @.next]]
               /\ replacements' = replacements \cup {p}
          \/ /\ c.with = {}
             /\ timers' = [timers EXCEPT ![a.timer].state = "Dead"]
             /\ UNCHANGED replacements
       /\ ended' = [ended EXCEPT ![c.run] = "expired"]

\* A token can be given twice once a timer that has given one is created anew,
\* or a claim is granted after the token it was computed from has moved on.
TokenReused(c, t) ==
  \/ c.op = "Create" /\ c.timer = t /\ timers[t].token > 0
  \/ /\ c.op = "Claim" /\ c.claim.timer = t /\ ActiveOf(t) = {}
     /\ c.claim.token # timers[t].token + 1

\* OpenRaft commits a proposed command and every node applies it.
Commit(c) ==
  /\ inflight' = inflight \ {c}
  /\ \/ c.op = "Create" /\ ApplyCreate(c)
     \/ c.op = "Claim" /\ ApplyClaim(c)
     \/ c.op = "Complete" /\ ApplyComplete(c)
     \/ c.op = "Fail" /\ ApplyFail(c)
     \/ c.op = "Expire" /\ ApplyExpire(c)
  /\ reused' = reused \cup {t \in Timers : TokenReused(c, t)}
  /\ UNCHANGED <<now, polling, held, lastRun, creates, losses>>

\* A proposal is overwritten by the log of another leader.
Lose(c) ==
  /\ losses < MaxLosses /\ losses' = losses + 1
  /\ inflight' = inflight \ {c}
  /\ UNCHANGED <<now, machine, reused, polling, held, lastRun, creates>>

-----------------------------------------------------------------------------
(* The handlers of runtime.rs                                              *)

Propose(c) == inflight' = inflight \cup {c}

\* create_timer: next_run_after(created_at); without one nothing is ever claimed
CreateTimer(t) ==
  /\ creates[t] < MaxCreates /\ creates' = [creates EXCEPT ![t] = @ + 1]
  /\ Propose([op |-> "Create", timer |-> t, next |-> now + Period])
  /\ UNCHANGED <<now, machine, reused, polling, held, lastRun, losses>>

\* What try_claim looks for: no active run and a next_run_at that is due.
\* It reads neither the timer's state nor the queue of replacements.
Claimable(t) ==
  /\ ActiveOf(t) = {}
  /\ timers[t].next # NoTime /\ timers[t].next <= now

\* try_claim up to write_command: run id, token and lease are fixed here.
TryClaim(w, t) ==
  LET k == [run |-> lastRun + 1, timer |-> t, worker |-> w,
            token |-> timers[t].token + 1, attempt |-> 1,
            deadline |-> now + Lease]
      c == [op |-> "Claim", claim |-> k]
  IN /\ polling[w] = NoClaim /\ Claimable(t)
     /\ lastRun < MaxRuns /\ lastRun' = lastRun + 1
     /\ Propose(c)
     /\ polling' = [polling EXCEPT ![w] = c]
     /\ UNCHANGED <<now, machine, reused, held, creates, losses>>

\* Mutant: an answered write is taken for a granted claim.
ClaimReturnsAnyway(w) ==
  /\ polling[w] # NoClaim /\ polling[w] \notin inflight
  /\ polling' = [polling EXCEPT ![w] = NoClaim]
  /\ held' = held \cup {polling[w].claim}
  /\ UNCHANGED <<now, machine, reused, inflight, lastRun, creates, losses>>

\* The write is answered; the run is handed out if it is (still) active.
ClaimReturns(w) ==
  LET k == polling[w].claim IN
  /\ polling[w] # NoClaim /\ polling[w] \notin inflight
  /\ polling' = [polling EXCEPT ![w] = NoClaim]
  /\ held' = IF \E a \in ActiveRun(k.run) : a.worker = w /\ a.token = k.token
             THEN held \cup {k} ELSE held
  /\ UNCHANGED <<now, machine, reused, inflight, lastRun, creates, losses>>

\* The write, or the answer to the worker, fails while the command lives on.
ClaimErrors(w) ==
  /\ polling[w] # NoClaim
  /\ losses < MaxLosses /\ losses' = losses + 1
  /\ polling' = [polling EXCEPT ![w] = NoClaim]
  /\ UNCHANGED <<now, machine, reused, inflight, held, lastRun, creates>>

\* validate_active_run on the leader's state, before the command is written
Validated(k) == \E a \in ActiveRun(k.run) : a.worker = k.worker /\ a.token = k.token

\* The worker is done with k: complete_run or fail_run, refused when the run
\* is not its own any more.  A dead worker reports nothing.
CompleteRun(k) ==
  /\ Validated(k)
  /\ Propose([op |-> "Complete", run |-> k.run, worker |-> k.worker,
              token |-> k.token, at |-> now])
  /\ held' = held \ {k}
  /\ UNCHANGED <<now, machine, reused, polling, lastRun, creates, losses>>

FailRun(k) ==
  /\ Validated(k)
  /\ Propose([op |-> "Fail", run |-> k.run, worker |-> k.worker, token |-> k.token])
  /\ held' = held \ {k}
  /\ UNCHANGED <<now, machine, reused, polling, lastRun, creates, losses>>

Abandon(k) ==
  /\ held' = held \ {k}
  /\ UNCHANGED <<now, machine, reused, inflight, polling, lastRun, creates, losses>>

\* expire_active_leases, for one active run of the state it read
ReplacementFor(a) ==
  IF a.attempt >= MaxAttempts THEN {}
  ELSE {[run |-> a.run, timer |-> a.timer, token |-> timers[a.timer].token + 1,
         attempt |-> a.attempt + 1]}

ExpireLease(a) ==
  /\ a.deadline <= now
  /\ Propose([op |-> "Expire", run |-> a.run, with |-> ReplacementFor(a)])
  /\ UNCHANGED <<now, machine, reused, polling, held, lastRun, creates, losses>>

Tick ==
  /\ now < MaxTime /\ now' = now + 1
  /\ UNCHANGED <<machine, reused, inflight, polling, held, lastRun, creates, losses>>

-----------------------------------------------------------------------------
Init ==
  /\ now = 0
  /\ timers = [t \in Timers |-> [state |-> "Absent", token |-> 0, next |-> NoTime]]
  /\ active = {} /\ replacements = {} /\ inflight = {} /\ held = {} /\ reused = {}
  /\ polling = [w \in Workers |-> NoClaim]
  /\ lastRun = 0
  /\ ended = [r \in RunIds |-> "none"]
  /\ creates = [t \in Timers |-> 0] /\ losses = 0

Next ==
  \/ \E c \in inflight : Commit(c) \/ Lose(c)
  \/ \E t \in Timers : CreateTimer(t)
  \/ \E w \in Workers : (\E t \in Timers : TryClaim(w, t)) \/ ClaimReturns(w)
                          \/ ClaimErrors(w)
  \/ \E k \in held : CompleteRun(k) \/ FailRun(k) \/ Abandon(k)
  \/ \E a \in active : ExpireLease(a)
  \/ Tick

Spec == Init /\ [][Next]_vars

\* The lease task runs every 250 ms on the leader and OpenRaft commits what a
\* majority holds; workers and clients owe nothing.
FairSpec ==
  /\ Spec
  /\ \A r \in RunIds : WF_vars(\E a \in ActiveRun(r) : ExpireLease(a))
  /\ \A r \in RunIds : WF_vars(\E c \in inflight :
                                 c.op = "Expire" /\ c.run = r /\ Commit(c))

-----------------------------------------------------------------------------
(* Properties                                                              *)

\* The committed state never has two active runs of one timer, however late
\* the claims that race for it are committed.
OneActiveRunPerTimer == \A a, b \in active : a.timer = b.timer => a = b

\* A run becomes terminal once: a late completion, failure or expiry of a
\* run that has ended changes nothing.
RunEndsOnce ==
  [][\A r \in RunIds : ended[r] # "none" => ended'[r] = ended[r]]_vars

\* A worker whose run is no longer the active one carries a smaller fencing
\* token than the active run, so a resource that refuses tokens smaller than
\* the largest it has seen turns the stale worker away: every claim and every
\* expiry moves the token on.  (Not so for the timers in `reused`: two claims
\* computed from the same token may be granted one after the other.)
StaleHolderFenced ==
  \A k \in held, a \in active :
    k.timer = a.timer /\ a.timer \notin reused /\ k.run # a.run => k.token < a.token

\* A timer's work is in the hands of one worker at a time: of the workers
\* that were handed a run of a timer, only one can have a run that has not
\* been completed, failed or expired in the committed state.
OneLiveHolder ==
  \A j, k \in held :
    j.timer = k.timer /\ ended[j.run] = "none" /\ ended[k.run] = "none" => j = k

\* An expired lease does not block its timer for good.
LeaseIsReclaimed ==
  \A r \in RunIds :
    (\E a \in ActiveRun(r) : a.deadline <= now) ~> (ActiveRun(r) = {})

\* An abandoned run that was queued for another attempt is what the next
\* worker is given.
ReplacementIsReclaimed ==
  [][\A a \in active' \ active : \A p \in replacements :
       p.timer = a.timer => a.run = p.run]_vars
=============================================================================

--------------------------- MODULE RunClaimsProofs --------------------------
(***************************************************************************)
(* Theorems about the replicated run state machine, for any number of      *)
(* timers, workers, losses and re-creations: one active run per timer, one *)
(* live holder per timer, a run that ends only once, and tokens that fence *)
(* off the holders of earlier runs.                                        *)
(***************************************************************************)
EXTENDS RunClaims, TLAPS

\* Every claim under way, granted or handed out.
Claims ==
  {c.claim : c \in {d \in inflight : d.op = "Claim"}} \cup active \cup held
    \cup {polling[w].claim : w \in {v \in Workers : polling[v] # NoClaim}}

\* A run id names one claim, and the next id is new.
ClaimsApart ==
  /\ \A k, l \in Claims : k.run = l.run => k = l
  /\ \A k \in Claims : k.run <= lastRun
  /\ \A r \in RunIds : ended[r] # "none" => r <= lastRun

\* A claim that is not committed yet has neither started nor ended.
PendingClaimsFresh ==
  \A c \in inflight : c.op = "Claim" =>
    c.claim \notin active /\ ended[c.claim.run] = "none"

ActiveNotEnded == \A a \in active : ended[a.run] = "none"

HeldIsActive == \A k \in held : ended[k.run] = "none" => k \in active

ClaimInv == /\ ClaimsApart /\ PendingClaimsFresh /\ ActiveNotEnded /\ HeldIsActive
            /\ OneActiveRunPerTimer

-----------------------------------------------------------------------------
(* Type correctness                                                        *)

\* The operation of a command tells which fields it has.
LEMMA CommandKind ==
  ASSUME NEW c \in Command
  PROVE  /\ c.op = "Create" => c \in CreateCmd
         /\ c.op = "Claim" => c \in ClaimCmd
         /\ c.op = "Complete" => c \in CompleteCmd
         /\ c.op = "Fail" => c \in FailCmd
         /\ c.op = "Expire" => c \in ExpireCmd
BY DEF Command, CreateCmd, ClaimCmd, CompleteCmd, FailCmd, ExpireCmd

LEMMA InitType == Init => TypeOK
<1> SUFFICES ASSUME Init PROVE TypeOK
  OBVIOUS
<1>1. timers \in [Timers -> Timer]
  BY DEF Init, Timer, TimerStates
<1>2. polling \in [Workers -> ClaimCmd \cup {NoClaim}]
  BY DEF Init
<1>3. ended \in [RunIds -> Outcomes] /\ lastRun \in 0 .. MaxRuns
  BY ClaimsAssumption DEF Init, Outcomes
<1> QED
  BY <1>1, <1>2, <1>3 DEF Init, TypeOK

\* A state of the machine that apply_kron_command may leave behind.
MachineOK == /\ timers \in [Timers -> Timer] /\ active \subseteq Run
             /\ replacements \subseteq Replacement /\ ended \in [RunIds -> Outcomes]

LEMMA ApplyType ==
  ASSUME TypeOK, NEW c \in inflight, Commit(c)
  PROVE  MachineOK'
<1> USE DEF MachineOK
<1>1. c \in Command
  BY DEF TypeOK
<1>2. CASE c.op = "Create" /\ ApplyCreate(c)
  <2>1. c.timer \in Timers /\ c.next \in Nat \cup {NoTime}
    BY <1>1, <1>2, CommandKind DEF CreateCmd
  <2>2. [state |-> "Scheduled", token |-> 0, next |-> c.next] \in Timer
    BY <2>1 DEF Timer, TimerStates
  <2> QED
    BY <1>2, <2>1, <2>2 DEF ApplyCreate, TypeOK
<1>3. CASE c.op = "Claim" /\ ApplyClaim(c)
  <2>1. c.claim \in Run
    BY <1>1, <1>3, CommandKind DEF ClaimCmd
  <2>2. c.claim.timer \in Timers /\ c.claim.token \in Nat
    BY <2>1 DEF Run
  <2>3. CASE UNCHANGED machine
    BY <2>3 DEF machine, TypeOK
  <2>4. CASE ~UNCHANGED machine
    <3>1. timers' = [timers EXCEPT ![c.claim.timer] =
                       [state |-> "Running", token |-> c.claim.token, next |-> @.next]]
      BY <1>3, <2>4 DEF ApplyClaim
    <3>2. timers' \in [Timers -> Timer]
      BY <2>2, <3>1 DEF TypeOK, Timer, TimerStates
    <3> QED
      BY <1>3, <2>1, <2>4, <3>2 DEF ApplyClaim, TypeOK
  <2> QED
    BY <2>3, <2>4
<1>4. CASE c.op = "Complete" /\ ApplyComplete(c)
  <2>1. c.run \in RunIds /\ c.at \in Nat
    BY <1>1, <1>4, CommandKind DEF CompleteCmd
  <2>2. CASE UNCHANGED machine
    BY <2>2 DEF machine, TypeOK
  <2>3. ASSUME NEW a \in Owned(c), active' = active \ {a},
               NEW n \in Rescheduled(a.timer, c.at),
               timers' = [timers EXCEPT ![a.timer] =
                            [state |-> "Scheduled", token |-> @.token, next |-> n]],
               ended' = [ended EXCEPT ![c.run] = "succeeded"], UNCHANGED replacements
        PROVE  MachineOK'
    <3>1. a.timer \in Timers
      BY DEF Owned, ActiveRun, TypeOK, Run
    <3>2. n \in Nat \cup {NoTime}
      BY <2>1, ClaimsAssumption DEF Rescheduled
    <3>3. timers' \in [Timers -> Timer]
      BY <2>3, <3>1, <3>2 DEF TypeOK, Timer, TimerStates
    <3>4. ended' \in [RunIds -> Outcomes]
      BY <2>3 DEF TypeOK, Outcomes
    <3> QED
      BY <2>3, <3>3, <3>4 DEF TypeOK
  <2> QED
    BY <1>4, <2>2, <2>3 DEF ApplyComplete
<1>5. CASE c.op = "Fail" /\ ApplyFail(c)
  <2>1. CASE UNCHANGED machine
    BY <2>1 DEF machine, TypeOK
  <2>2. ASSUME NEW a \in Owned(c), active' = active \ {a},
               timers' = [timers EXCEPT ![a.timer].state = "Dead"],
               ended' = [ended EXCEPT ![c.run] = "failed"], UNCHANGED replacements
        PROVE  MachineOK'
    <3>1. timers' \in [Timers -> Timer]
      BY <2>2 DEF TypeOK, Timer, TimerStates
    <3>2. ended' \in [RunIds -> Outcomes]
      BY <2>2 DEF TypeOK, Outcomes
    <3> QED
      BY <2>2, <3>1, <3>2 DEF TypeOK
  <2> QED
    BY <1>5, <2>1, <2>2 DEF ApplyFail
<1>6. CASE c.op = "Expire" /\ ApplyExpire(c)
  <2>1. c.with \subseteq Replacement
    BY <1>1, <1>6, CommandKind DEF ExpireCmd
  <2>2. CASE UNCHANGED machine
    BY <2>2 DEF machine, TypeOK
  <2>3. ASSUME NEW a \in ActiveRun(c.run), active' = active \ {a},
               \/ \E p \in c.with :
                    /\ timers' = [timers EXCEPT ![p.timer] =
                         [state |-> "Retrying", token |-> p.token, next |-> @.next]]
                    /\ replacements' = replacements \cup {p}
               \/ /\ timers' = [timers EXCEPT ![a.timer].state = "Dead"]
                  /\ UNCHANGED replacements,
               ended' = [ended EXCEPT ![c.run] = "expired"]
        PROVE  MachineOK'
    <3>1. timers' \in [Timers -> Timer]
      <4>1. CASE timers' = [timers EXCEPT ![a.timer].state = "Dead"]
        BY <4>1 DEF TypeOK, Timer, TimerStates
      <4>2. ASSUME NEW p \in c.with,
                   timers' = [timers EXCEPT ![p.timer] =
                     [state |-> "Retrying", token |-> p.token, next |-> @.next]]
            PROVE  timers' \in [Timers -> Timer]
        <5>1. p.timer \in Timers /\ p.token \in Nat
          BY <2>1 DEF Replacement
        <5> QED
          BY <4>2, <5>1 DEF TypeOK, Timer, TimerStates
      <4> QED
        BY <2>3, <4>1, <4>2
    <3>2. ended' \in [RunIds -> Outcomes]
      BY <2>3 DEF TypeOK, Outcomes
    <3>3. replacements' \subseteq Replacement
      BY <2>1, <2>3 DEF TypeOK
    <3> QED
      BY <2>3, <3>1, <3>2, <3>3 DEF TypeOK
  <2> QED
    BY <1>6, <2>2, <2>3 DEF ApplyExpire
<1> QED
  BY <1>2, <1>3, <1>4, <1>5, <1>6 DEF Commit

\* The claim try_claim computes.
ClaimOf(w, t) == [run |-> lastRun + 1, timer |-> t, worker |-> w,
                  token |-> timers[t].token + 1, attempt |-> 1,
                  deadline |-> now + Lease]

LEMMA TryClaimShape ==
  ASSUME TypeOK, NEW w \in Workers, NEW t \in Timers, TryClaim(w, t)
  PROVE  /\ ClaimOf(w, t) \in Run
         /\ [op |-> "Claim", claim |-> ClaimOf(w, t)] \in ClaimCmd
         /\ lastRun' = lastRun + 1 /\ lastRun' \in 0 .. MaxRuns
         /\ inflight' = inflight \cup {[op |-> "Claim", claim |-> ClaimOf(w, t)]}
         /\ polling' = [polling EXCEPT ![w] = [op |-> "Claim", claim |-> ClaimOf(w, t)]]
         /\ UNCHANGED <<now, machine, reused, held, creates, losses>>
<1>1. lastRun + 1 \in RunIds /\ lastRun' = lastRun + 1 /\ lastRun' \in 0 .. MaxRuns
  BY ClaimsAssumption DEF TryClaim, TypeOK, RunIds
<1>2. timers[t].token + 1 \in Nat /\ now + Lease \in Nat
  BY ClaimsAssumption DEF TypeOK, Timer
<1>3. ClaimOf(w, t) \in Run
  BY <1>1, <1>2 DEF ClaimOf, Run
<1> QED
  BY <1>1, <1>3 DEF TryClaim, Propose, ClaimOf, ClaimCmd

LEMMA NextType == TypeOK /\ [Next]_vars => TypeOK'
<1> SUFFICES ASSUME TypeOK, [Next]_vars PROVE TypeOK'
  OBVIOUS
<1> USE DEF machine
<1>1. ASSUME NEW c \in inflight, Commit(c) PROVE TypeOK'
  BY <1>1, ApplyType DEF Commit, TypeOK, MachineOK
<1>2. ASSUME NEW c \in inflight, Lose(c) PROVE TypeOK'
  BY <1>2 DEF Lose, TypeOK
<1>3. ASSUME NEW t \in Timers, CreateTimer(t) PROVE TypeOK'
  <2>1. [op |-> "Create", timer |-> t, next |-> now + Period] \in CreateCmd
    BY ClaimsAssumption DEF TypeOK, CreateCmd
  <2> QED
    BY <1>3, <2>1 DEF CreateTimer, Propose, TypeOK, Command
<1>4. ASSUME NEW w \in Workers, NEW t \in Timers, TryClaim(w, t) PROVE TypeOK'
  BY <1>4, TryClaimShape DEF TypeOK, Command
<1>5. ASSUME NEW w \in Workers, ClaimReturns(w) PROVE TypeOK'
  <2>1. polling[w].claim \in Run
    BY <1>5 DEF ClaimReturns, TypeOK, ClaimCmd
  <2> QED
    BY <1>5, <2>1 DEF ClaimReturns, TypeOK
<1>6. ASSUME NEW w \in Workers, ClaimErrors(w) PROVE TypeOK'
  BY <1>6 DEF ClaimErrors, TypeOK
<1>7. ASSUME NEW k \in held, CompleteRun(k) PROVE TypeOK'
  <2>1. [op |-> "Complete", run |-> k.run, worker |-> k.worker, token |-> k.token,
         at |-> now] \in CompleteCmd
    BY DEF TypeOK, Run, CompleteCmd
  <2> QED
    BY <1>7, <2>1 DEF CompleteRun, Propose, TypeOK, Command
<1>8. ASSUME NEW k \in held, FailRun(k) PROVE TypeOK'
  <2>1. [op |-> "Fail", run |-> k.run, worker |-> k.worker, token |-> k.token] \in FailCmd
    BY DEF TypeOK, Run, FailCmd
  <2> QED
    BY <1>8, <2>1 DEF FailRun, Propose, TypeOK, Command
<1>9. ASSUME NEW k \in held, Abandon(k) PROVE TypeOK'
  BY <1>9 DEF Abandon, TypeOK
<1>10. ASSUME NEW a \in active, ExpireLease(a) PROVE TypeOK'
  <2>1. a.run \in RunIds /\ a.timer \in Timers /\ a.attempt \in Nat
    BY DEF TypeOK, Run
  <2>2. timers[a.timer].token \in Nat
    BY <2>1 DEF TypeOK, Timer
  <2>3. ReplacementFor(a) \subseteq Replacement
    BY <2>1, <2>2 DEF ReplacementFor, Replacement
  <2>4. [op |-> "Expire", run |-> a.run, with |-> ReplacementFor(a)] \in ExpireCmd
    BY <2>1, <2>3 DEF ExpireCmd
  <2> QED
    BY <1>10, <2>4 DEF ExpireLease, Propose, TypeOK, Command
<1>11. CASE Tick
  BY <1>11 DEF Tick, TypeOK
<1>12. CASE UNCHANGED vars
  BY <1>12 DEF vars, TypeOK
<1> QED
  BY <1>1, <1>2, <1>3, <1>4, <1>5, <1>6, <1>7, <1>8, <1>9, <1>10, <1>11, <1>12 DEF Next

\* Every reachable state of the run state machine is well typed.
THEOREM TypeCorrect == Spec => []TypeOK
BY InitType, NextType, PTL DEF Spec

-----------------------------------------------------------------------------
(* The invariant of claims                                                 *)

LEMMA InitClaims == Init => ClaimInv
BY ClaimsAssumption
   DEF Init, ClaimInv, Claims, ClaimsApart, PendingClaimsFresh, ActiveNotEnded,
       HeldIsActive, OneActiveRunPerTimer, RunIds

\* What Claims is made of.
LEMMA ClaimsContain ==
  /\ \A c \in inflight : c.op = "Claim" => c.claim \in Claims
  /\ active \subseteq Claims /\ held \subseteq Claims
  /\ \A w \in Workers : polling[w] # NoClaim => polling[w].claim \in Claims
BY DEF Claims

\* Steps that neither propose a claim nor touch the active runs.
LEMMA QuietClaims ==
  ASSUME ClaimInv, UNCHANGED <<active, ended, lastRun>>, held' \subseteq held,
         \A c \in inflight' : c.op = "Claim" => c \in inflight,
         \A w \in Workers : polling'[w] \in {polling[w], NoClaim}
  PROVE  ClaimInv'
<1>1. Claims' \subseteq Claims
  BY DEF Claims
<1>2. ClaimsApart'
  BY <1>1 DEF ClaimInv, ClaimsApart
<1>3. PendingClaimsFresh'
  BY DEF ClaimInv, PendingClaimsFresh
<1> QED
  BY <1>2, <1>3 DEF ClaimInv, ActiveNotEnded, HeldIsActive, OneActiveRunPerTimer

\* A granted claim: it was under way, and no run of its timer was active.
LEMMA GrantClaims ==
  ASSUME TypeOK, ClaimInv, NEW c \in inflight, c.op = "Claim",
         ActiveOf(c.claim.timer) = {}, active' = active \cup {c.claim},
         inflight' = inflight \ {c}, UNCHANGED <<ended, lastRun, held, polling>>
  PROVE  ClaimInv'
<1>1. Claims' \subseteq Claims
  BY DEF Claims
<1>2. ClaimsApart'
  BY <1>1 DEF ClaimInv, ClaimsApart
<1>3. PendingClaimsFresh'
  <2> SUFFICES ASSUME NEW d \in inflight, d # c, d.op = "Claim"
               PROVE  d.claim \notin active' /\ ended[d.claim.run] = "none"
    BY DEF PendingClaimsFresh
  <2>1. c \in ClaimCmd /\ d \in ClaimCmd
    BY CommandKind DEF TypeOK
  <2>2. d.claim # c.claim
    BY <2>1 DEF ClaimCmd
  <2> QED
    BY <2>2 DEF ClaimInv, PendingClaimsFresh
<1>4. ActiveNotEnded'
  BY DEF ClaimInv, ActiveNotEnded, PendingClaimsFresh
<1>5. HeldIsActive'
  BY DEF ClaimInv, HeldIsActive
<1>6. OneActiveRunPerTimer'
  BY DEF ClaimInv, OneActiveRunPerTimer, ActiveOf
<1> QED
  BY <1>2, <1>3, <1>4, <1>5, <1>6 DEF ClaimInv

\* Run a ends with some outcome.
Ends(a) == /\ active' = active \ {a}
           /\ \E o \in Outcomes \ {"none"} : ended' = [ended EXCEPT ![a.run] = o]

LEMMA EndClaims ==
  ASSUME TypeOK, ClaimInv, NEW a \in active, Ends(a), inflight' \subseteq inflight,
         UNCHANGED <<lastRun, held, polling>>
  PROVE  ClaimInv'
<1>1. Claims' \subseteq Claims
  BY DEF Claims, Ends
<1>2. a.run \in RunIds /\ a.run <= lastRun
  BY ClaimsContain DEF TypeOK, Run, ClaimInv, ClaimsApart
<1>3. \A r \in RunIds : r # a.run => ended'[r] = ended[r]
  BY DEF Ends, TypeOK
<1>4. ended'[a.run] # "none"
  BY <1>2 DEF Ends, TypeOK
<1>5. ClaimsApart'
  BY <1>1, <1>2, <1>3 DEF ClaimInv, ClaimsApart
<1>6. PendingClaimsFresh'
  <2> SUFFICES ASSUME NEW c \in inflight, c.op = "Claim"
               PROVE  c.claim \notin active' /\ ended'[c.claim.run] = "none"
    BY DEF PendingClaimsFresh
  <2>1. c.claim.run \in RunIds
    BY CommandKind DEF TypeOK, ClaimCmd, Run
  <2>2. c.claim \notin active /\ ended[c.claim.run] = "none"
    BY DEF ClaimInv, PendingClaimsFresh
  <2>3. c.claim.run # a.run
    BY <2>2, ClaimsContain DEF ClaimInv, ClaimsApart
  <2> QED
    BY <1>3, <2>1, <2>2, <2>3 DEF Ends
<1>7. ActiveNotEnded'
  <2> SUFFICES ASSUME NEW b \in active, b # a PROVE ended'[b.run] = "none"
    BY DEF ActiveNotEnded, Ends
  <2>1. b.run # a.run /\ b.run \in RunIds
    BY ClaimsContain DEF ClaimInv, ClaimsApart, TypeOK, Run
  <2> QED
    BY <1>3, <2>1 DEF ClaimInv, ActiveNotEnded
<1>8. HeldIsActive'
  <2> SUFFICES ASSUME NEW k \in held, ended'[k.run] = "none" PROVE k \in active'
    BY DEF HeldIsActive
  <2>1. k.run \in RunIds /\ k.run # a.run
    BY <1>4 DEF TypeOK, Run
  <2> QED
    BY <1>3, <2>1 DEF ClaimInv, HeldIsActive, Ends
<1>9. OneActiveRunPerTimer'
  BY DEF ClaimInv, OneActiveRunPerTimer, Ends
<1> QED
  BY <1>5, <1>6, <1>7, <1>8, <1>9 DEF ClaimInv

\* A committed command grants a claim, ends one active run, or leaves the
\* runs alone.
LEMMA CommitShape ==
  ASSUME NEW c \in inflight, Commit(c)
  PROVE  \/ UNCHANGED <<active, ended>>
         \/ /\ c.op = "Claim" /\ ActiveOf(c.claim.timer) = {}
            /\ active' = active \cup {c.claim} /\ UNCHANGED ended
         \/ \E a \in active : Ends(a)
<1>1. ASSUME NEW a \in ActiveRun(c.run), active' = active \ {a},
             NEW o \in {"succeeded", "failed", "expired"},
             ended' = [ended EXCEPT ![c.run] = o]
      PROVE  a \in active /\ Ends(a)
  BY <1>1 DEF ActiveRun, Ends, Outcomes
<1>2. Owned(c) \subseteq ActiveRun(c.run)
  BY DEF Owned
<1>3. CASE ApplyCreate(c)
  BY <1>3 DEF ApplyCreate
<1>4. CASE c.op = "Claim" /\ ApplyClaim(c)
  BY <1>4 DEF ApplyClaim, machine
<1>5. CASE ApplyComplete(c)
  BY <1>1, <1>2, <1>5 DEF ApplyComplete, machine
<1>6. CASE ApplyFail(c)
  BY <1>1, <1>2, <1>6 DEF ApplyFail, machine
<1>7. CASE ApplyExpire(c)
  BY <1>1, <1>7 DEF ApplyExpire, machine
<1> QED
  BY <1>3, <1>4, <1>5, <1>6, <1>7 DEF Commit

\* A new claim carries a run id above every other.
LEMMA TryClaimClaims ==
  ASSUME TypeOK, ClaimInv, NEW w \in Workers, NEW t \in Timers, TryClaim(w, t)
  PROVE  ClaimInv'
<1> DEFINE k == ClaimOf(w, t)
           c == [op |-> "Claim", claim |-> k]
<1>1. /\ lastRun' = lastRun + 1 /\ inflight' = inflight \cup {c}
      /\ polling' = [polling EXCEPT ![w] = c]
      /\ UNCHANGED <<active, ended, held>>
  BY TryClaimShape DEF machine
<1>2. k.run = lastRun + 1 /\ k.run \in RunIds /\ lastRun \in Nat
  <2>1. k \in Run
    BY TryClaimShape
  <2>2. k.run = lastRun + 1
    BY DEF ClaimOf
  <2> QED
    BY <2>1, <2>2, ClaimsAssumption DEF Run, TypeOK
<1>3. c.claim = k /\ c.op = "Claim"
  OBVIOUS
<1> HIDE DEF k, c
<1>4. Claims' \subseteq Claims \cup {k}
  BY <1>1, <1>3 DEF Claims, TypeOK
<1>5. \A l \in Claims : l.run <= lastRun /\ l.run \in Nat
  <2>1. \A l \in Claims : l \in Run
    <3>1. \A d \in inflight : d.op = "Claim" => d.claim \in Run
      BY CommandKind DEF TypeOK, ClaimCmd
    <3>2. \A v \in Workers : polling[v] # NoClaim => polling[v].claim \in Run
      BY DEF TypeOK, ClaimCmd
    <3> QED
      BY <3>1, <3>2 DEF Claims, TypeOK
  <2> QED
    BY <2>1 DEF ClaimInv, ClaimsApart, Run, RunIds
<1>6. \A l \in Claims : l.run # k.run
  BY <1>2, <1>5
<1>7. ClaimsApart'
  <2>1. \A l, m \in Claims' : l.run = m.run => l = m
    BY <1>4, <1>6 DEF ClaimInv, ClaimsApart
  <2>2. \A l \in Claims' : l.run <= lastRun'
    BY <1>1, <1>2, <1>4, <1>5
  <2>3. \A r \in RunIds : ended'[r] # "none" => r <= lastRun'
    BY <1>1, <1>2 DEF ClaimInv, ClaimsApart, RunIds
  <2> QED
    BY <2>1, <2>2, <2>3 DEF ClaimsApart
<1>8. PendingClaimsFresh'
  <2>1. k \notin active
    BY <1>6, ClaimsContain
  <2>2. ended[k.run] = "none"
    BY <1>2 DEF ClaimInv, ClaimsApart
  <2> QED
    BY <1>1, <1>3, <2>1, <2>2 DEF ClaimInv, PendingClaimsFresh
<1> QED
  BY <1>1, <1>7, <1>8 DEF ClaimInv, ActiveNotEnded, HeldIsActive, OneActiveRunPerTimer

\* A claim is handed out only as the active run it has become.
LEMMA ClaimReturnsClaims ==
  ASSUME TypeOK, ClaimInv, NEW w \in Workers, ClaimReturns(w)
  PROVE  ClaimInv'
<1> DEFINE k == polling[w].claim
<1>1. /\ polling[w] # NoClaim /\ polling' = [polling EXCEPT ![w] = NoClaim]
      /\ UNCHANGED <<active, ended, lastRun, inflight>>
  BY DEF ClaimReturns, machine
<1>2. \A v \in Workers : polling'[v] \in {polling[v], NoClaim}
  BY <1>1 DEF TypeOK
<1>3. CASE held' = held
  BY <1>1, <1>2, <1>3, QuietClaims
<1>4. ASSUME held' = held \cup {k}, NEW a \in ActiveRun(k.run) PROVE ClaimInv'
  <2>1. k \in Claims /\ k \in active
    BY <1>1, <1>4, ClaimsContain DEF ClaimInv, ClaimsApart, ActiveRun
  <2>2. Claims' \subseteq Claims
    BY <1>1, <1>2, <1>4, <2>1 DEF Claims
  <2>3. ClaimsApart'
    BY <1>1, <2>2 DEF ClaimInv, ClaimsApart
  <2>4. HeldIsActive'
    BY <1>1, <1>4, <2>1 DEF ClaimInv, HeldIsActive
  <2> QED
    BY <1>1, <2>3, <2>4
       DEF ClaimInv, PendingClaimsFresh, ActiveNotEnded, OneActiveRunPerTimer
<1> QED
  BY <1>3, <1>4 DEF ClaimReturns

LEMMA NextClaims == TypeOK /\ ClaimInv /\ [Next]_vars => ClaimInv'
<1> SUFFICES ASSUME TypeOK, ClaimInv, [Next]_vars PROVE ClaimInv'
  OBVIOUS
<1> USE DEF machine
<1>1. ASSUME NEW c \in inflight, Commit(c) PROVE ClaimInv'
  <2>1. inflight' = inflight \ {c} /\ UNCHANGED <<lastRun, held, polling>>
    BY <1>1 DEF Commit
  <2> QED
    BY <1>1, <2>1, CommitShape, QuietClaims, GrantClaims, EndClaims
<1>2. ASSUME NEW w \in Workers, NEW t \in Timers, TryClaim(w, t) PROVE ClaimInv'
  BY <1>2, TryClaimClaims
<1>3. ASSUME NEW w \in Workers, ClaimReturns(w) PROVE ClaimInv'
  BY <1>3, ClaimReturnsClaims
<1>4. ASSUME NEW w \in Workers, ClaimErrors(w) PROVE ClaimInv'
  <2>1. \A v \in Workers : polling'[v] \in {polling[v], NoClaim}
    BY <1>4 DEF ClaimErrors, TypeOK
  <2> QED
    BY <1>4, <2>1, QuietClaims DEF ClaimErrors
<1>5. ASSUME \A c \in inflight' : c.op = "Claim" => c \in inflight,
             UNCHANGED <<active, ended, lastRun, polling>>, held' \subseteq held
      PROVE  ClaimInv'
  BY <1>5, QuietClaims
<1>6. ASSUME NEW t \in Timers, CreateTimer(t) PROVE ClaimInv'
  <2>1. \A c \in inflight' : c.op = "Claim" => c \in inflight
    BY <1>6 DEF CreateTimer, Propose
  <2>2. UNCHANGED <<active, ended, lastRun, polling>> /\ held' \subseteq held
    BY <1>6 DEF CreateTimer
  <2> QED
    BY <1>5, <2>1, <2>2
<1>7. ASSUME NEW k \in held, CompleteRun(k) PROVE ClaimInv'
  <2>1. \A c \in inflight' : c.op = "Claim" => c \in inflight
    BY <1>7 DEF CompleteRun, Propose
  <2>2. UNCHANGED <<active, ended, lastRun, polling>> /\ held' \subseteq held
    BY <1>7 DEF CompleteRun
  <2> QED
    BY <1>5, <2>1, <2>2
<1>8. ASSUME NEW k \in held, FailRun(k) PROVE ClaimInv'
  <2>1. \A c \in inflight' : c.op = "Claim" => c \in inflight
    BY <1>8 DEF FailRun, Propose
  <2>2. UNCHANGED <<active, ended, lastRun, polling>> /\ held' \subseteq held
    BY <1>8 DEF FailRun
  <2> QED
    BY <1>5, <2>1, <2>2
<1>9. ASSUME NEW a \in active, ExpireLease(a) PROVE ClaimInv'
  <2>1. \A c \in inflight' : c.op = "Claim" => c \in inflight
    BY <1>9 DEF ExpireLease, Propose
  <2>2. UNCHANGED <<active, ended, lastRun, polling>> /\ held' \subseteq held
    BY <1>9 DEF ExpireLease
  <2> QED
    BY <1>5, <2>1, <2>2
<1>10. ASSUME NEW c \in inflight, Lose(c) PROVE ClaimInv'
  BY <1>10, QuietClaims DEF Lose
<1>11. ASSUME NEW k \in held, Abandon(k) PROVE ClaimInv'
  BY <1>11, QuietClaims DEF Abandon
<1>12. CASE Tick \/ UNCHANGED vars
  BY <1>12, QuietClaims DEF Tick, vars
<1> QED
  BY <1>1, <1>2, <1>3, <1>4, <1>6, <1>7, <1>8, <1>9, <1>10, <1>11, <1>12 DEF Next

LEMMA ClaimInvariant == Spec => [](TypeOK /\ ClaimInv)
BY InitType, InitClaims, NextType, NextClaims, PTL DEF Spec

\* However many workers race for a timer and however late their claims are
\* committed, the committed state has at most one active run of it.
THEOREM OneActiveSafe == Spec => []OneActiveRunPerTimer
<1>1. ClaimInv => OneActiveRunPerTimer
  BY DEF ClaimInv
<1> QED
  BY <1>1, ClaimInvariant, PTL

\* At most one of the workers holding runs of a timer holds one that the
\* committed state has not completed, failed or expired.
THEOREM OneHolderSafe == Spec => []OneLiveHolder
<1>1. ClaimInv => OneLiveHolder
  BY DEF ClaimInv, HeldIsActive, OneActiveRunPerTimer, OneLiveHolder
<1> QED
  BY <1>1, ClaimInvariant, PTL

\* No late completion, failure or expiry changes how a run has ended.
THEOREM EndsOnce == Spec => RunEndsOnce
<1> DEFINE Kept == \A r \in RunIds : ended[r] # "none" => ended'[r] = ended[r]
<1>1. TypeOK /\ ClaimInv /\ [Next]_vars => [Kept]_vars
  <2> SUFFICES ASSUME TypeOK, ClaimInv, Next PROVE Kept
    OBVIOUS
  <2>1. ASSUME NEW c \in inflight, Commit(c) PROVE Kept
    <3>1. CASE UNCHANGED ended
      BY <3>1
    <3>2. ASSUME NEW a \in active, Ends(a) PROVE Kept
      <4>1. ended[a.run] = "none"
        BY DEF ClaimInv, ActiveNotEnded
      <4> QED
        BY <3>2, <4>1 DEF Ends, TypeOK
    <3> QED
      BY <2>1, <3>1, <3>2, CommitShape
  <2>2. CASE UNCHANGED ended
    BY <2>2
  <2>3. (\E c \in inflight : Commit(c)) \/ UNCHANGED ended
    BY DEF Next, Lose, CreateTimer, TryClaim, ClaimReturns, ClaimErrors, CompleteRun,
           FailRun, Abandon, ExpireLease, Tick, machine
  <2> QED
    BY <2>1, <2>2, <2>3
<1> QED
  BY <1>1, ClaimInvariant, PTL DEF Spec, RunEndsOnce

-----------------------------------------------------------------------------
(* Fencing tokens.  A grant takes the token after the timer's, so what the   *)
(* argument needs is that nobody is ahead of the timer: neither a holder nor *)
(* an active run, and that an expiry under way moves its own timer forward.  *)
(* A creation resets a token that nobody carries only because every claim's  *)
(* token is positive.                                                        *)

TokensPositive == \A k \in Claims : k.token > 0

\* An expiry under way is about a run that is active or has ended; its
\* replacement belongs to the timer of that run and carries a later token.
ExpireKnown ==
  \A c \in inflight : c.op = "Expire" =>
    /\ (\E a \in active : a.run = c.run) \/ ended[c.run] # "none"
    /\ \A a \in active : a.run = c.run => \A p \in c.with :
         /\ p.timer = a.timer
         /\ a.timer \notin reused => p.token > timers[a.timer].token

HoldersBehind ==
  \A k \in held : k.timer \notin reused => k.token <= timers[k.timer].token

ActiveToken ==
  \A a \in active : a.timer \notin reused => timers[a.timer].token = a.token

FenceInv == /\ TokensPositive /\ ExpireKnown /\ HoldersBehind /\ ActiveToken
            /\ StaleHolderFenced

LEMMA InitFence == Init => FenceInv
BY DEF Init, FenceInv, TokensPositive, Claims, ExpireKnown, HoldersBehind, ActiveToken,
       StaleHolderFenced

\* What a committed command does to the runs and to the tokens.
LEMMA CommitTokens ==
  ASSUME TypeOK, NEW c \in inflight, Commit(c)
  PROVE  \/ /\ c.op = "Create" /\ c.timer \in Timers /\ UNCHANGED <<active, ended>>
            /\ timers'[c.timer].token = 0
            /\ \A t \in Timers : t # c.timer => timers'[t].token = timers[t].token
         \/ UNCHANGED machine
         \/ /\ c.op = "Claim" /\ c.claim \in Run /\ ActiveOf(c.claim.timer) = {}
            /\ active' = active \cup {c.claim} /\ UNCHANGED ended
            /\ timers'[c.claim.timer].token = c.claim.token
            /\ \A t \in Timers : t # c.claim.timer => timers'[t].token = timers[t].token
         \/ \E a \in active :
              /\ a.run = c.run /\ Ends(a)
              /\ \A t \in Timers :
                   \/ timers'[t].token = timers[t].token
                   \/ /\ c.op = "Expire"
                      /\ \E p \in c.with : p.timer = t /\ timers'[t].token = p.token
<1>1. c \in Command
  BY DEF TypeOK
<1>2. ASSUME NEW a \in ActiveRun(c.run), active' = active \ {a},
             NEW o \in {"succeeded", "failed", "expired"},
             ended' = [ended EXCEPT ![c.run] = o]
      PROVE  a \in active /\ a.run = c.run /\ Ends(a) /\ a.timer \in Timers
  BY <1>2 DEF ActiveRun, Ends, Outcomes, TypeOK, Run
<1>3. Owned(c) \subseteq ActiveRun(c.run)
  BY DEF Owned
<1>4. CASE c.op = "Create" /\ ApplyCreate(c)
  <2>1. c.timer \in Timers
    BY <1>1, <1>4, CommandKind DEF CreateCmd
  <2> QED
    BY <1>4, <2>1 DEF ApplyCreate, TypeOK
<1>5. CASE c.op = "Claim" /\ ApplyClaim(c)
  <2>1. c.claim \in Run /\ c.claim.timer \in Timers
    BY <1>1, <1>5, CommandKind DEF ClaimCmd, Run
  <2> QED
    BY <1>5, <2>1 DEF ApplyClaim, TypeOK
<1>6. CASE c.op = "Complete" /\ ApplyComplete(c)
  <2>1. CASE UNCHANGED machine
    BY <2>1
  <2>2. ASSUME NEW a \in Owned(c), active' = active \ {a},
               NEW n \in Rescheduled(a.timer, c.at),
               timers' = [timers EXCEPT ![a.timer] =
                            [state |-> "Scheduled", token |-> @.token, next |-> n]],
               ended' = [ended EXCEPT ![c.run] = "succeeded"]
        PROVE  /\ Ends(a) /\ a \in active /\ a.run = c.run
               /\ \A t \in Timers : timers'[t].token = timers[t].token
    BY <1>2, <1>3, <2>2 DEF TypeOK
  <2> QED
    BY <1>6, <2>1, <2>2 DEF ApplyComplete
<1>7. CASE c.op = "Fail" /\ ApplyFail(c)
  <2>1. CASE UNCHANGED machine
    BY <2>1
  <2>2. ASSUME NEW a \in Owned(c), active' = active \ {a},
               timers' = [timers EXCEPT ![a.timer].state = "Dead"],
               ended' = [ended EXCEPT ![c.run] = "failed"]
        PROVE  /\ Ends(a) /\ a \in active /\ a.run = c.run
               /\ \A t \in Timers : timers'[t].token = timers[t].token
    BY <1>2, <1>3, <2>2 DEF TypeOK, Timer
  <2> QED
    BY <1>7, <2>1, <2>2 DEF ApplyFail
<1>8. CASE c.op = "Expire" /\ ApplyExpire(c)
  <2>1. CASE UNCHANGED machine
    BY <2>1
  <2>2. ASSUME NEW a \in ActiveRun(c.run), active' = active \ {a},
               timers' = [timers EXCEPT ![a.timer].state = "Dead"],
               ended' = [ended EXCEPT ![c.run] = "expired"]
        PROVE  /\ Ends(a) /\ a \in active /\ a.run = c.run
               /\ \A t \in Timers : timers'[t].token = timers[t].token
    BY <1>2, <2>2 DEF TypeOK, Timer
  <2>3. ASSUME NEW a \in ActiveRun(c.run), active' = active \ {a}, NEW p \in c.with,
               timers' = [timers EXCEPT ![p.timer] =
                         [state |-> "Retrying", token |-> p.token, next |-> @.next]],
               ended' = [ended EXCEPT ![c.run] = "expired"]
        PROVE  /\ Ends(a) /\ a \in active /\ a.run = c.run
               /\ \A t \in Timers : \/ timers'[t].token = timers[t].token
                                    \/ p.timer = t /\ timers'[t].token = p.token
    <3>1. Ends(a) /\ a \in active /\ a.run = c.run
      BY <1>2, <2>3
    <3>2. p.timer \in Timers
      BY <1>1, <1>8, CommandKind DEF ExpireCmd, Replacement
    <3>3. \A t \in Timers : t # p.timer => timers'[t] = timers[t]
      BY <2>3 DEF TypeOK
    <3>4. timers'[p.timer].token = p.token
      BY <2>3, <3>2 DEF TypeOK
    <3> QED
      BY <3>1, <3>3, <3>4
  <2>4. ASSUME ~UNCHANGED machine
        PROVE  \E a \in active :
                 /\ a.run = c.run /\ Ends(a)
                 /\ \A t \in Timers :
                      \/ timers'[t].token = timers[t].token
                      \/ \E p \in c.with : p.timer = t /\ timers'[t].token = p.token
    <3>1. PICK a \in ActiveRun(c.run) :
            /\ active' = active \ {a} /\ ended' = [ended EXCEPT ![c.run] = "expired"]
            /\ \/ \E p \in c.with :
                    timers' = [timers EXCEPT ![p.timer] =
                         [state |-> "Retrying", token |-> p.token, next |-> @.next]]
               \/ timers' = [timers EXCEPT ![a.timer].state = "Dead"]
      BY <1>8, <2>4 DEF ApplyExpire
    <3>2. a \in active /\ a.run = c.run /\ Ends(a)
      BY <1>2, <3>1
    <3> QED
      BY <2>2, <2>3, <3>1, <3>2
  <2> QED
    BY <1>8, <2>1, <2>4
<1> QED
  BY <1>4, <1>5, <1>6, <1>7, <1>8 DEF Commit

\* Steps that leave the runs and the tokens alone, hand out nothing and
\* propose no claim, and an expiry only of an active run.
LEMMA QuietFence ==
  ASSUME FenceInv, UNCHANGED <<timers, active, ended, reused>>,
         held' \subseteq held, Claims' \subseteq Claims,
         \A c \in inflight' :
           \/ c \in inflight \/ c.op # "Expire"
           \/ \E a \in active :
                /\ a.run = c.run /\ \A b \in active : b.run = a.run => b = a
                /\ \A p \in c.with : /\ p.timer = a.timer
                                     /\ p.token > timers[a.timer].token
  PROVE  FenceInv'
<1>1. ExpireKnown'
  BY DEF FenceInv, ExpireKnown
<1>2. TokensPositive'
  BY DEF FenceInv, TokensPositive
<1> QED
  BY <1>1, <1>2 DEF FenceInv, HoldersBehind, ActiveToken, StaleHolderFenced

LEMMA CommitFence ==
  ASSUME TypeOK, ClaimInv, FenceInv, NEW c \in inflight, Commit(c)
  PROVE  FenceInv'
<1>1. /\ inflight' = inflight \ {c} /\ UNCHANGED <<held, polling>>
      /\ reused' = reused \cup {t \in Timers : TokenReused(c, t)}
  BY DEF Commit
<1>2. \A k \in held \cup active : k.timer \in Timers /\ k.token \in Nat /\ k.token > 0
  BY ClaimsContain DEF TypeOK, Run, FenceInv, TokensPositive
<1>3. \A t \in Timers : timers[t].token \in Nat
  BY DEF TypeOK, Timer
<1>4. CASE /\ c.op = "Create" /\ c.timer \in Timers /\ UNCHANGED <<active, ended>>
           /\ timers'[c.timer].token = 0
           /\ \A t \in Timers : t # c.timer => timers'[t].token = timers[t].token
  <2>1. \A t \in Timers : t \notin reused' => timers'[t].token = timers[t].token
    BY <1>1, <1>3, <1>4 DEF TokenReused
  <2>2. TokensPositive'
    BY <1>1, <1>4 DEF FenceInv, TokensPositive, Claims
  <2>3. ExpireKnown'
    BY <1>1, <1>2, <1>4, <2>1 DEF FenceInv, ExpireKnown
  <2>4. HoldersBehind' /\ ActiveToken' /\ StaleHolderFenced'
    BY <1>1, <1>2, <1>4, <2>1 DEF FenceInv, HoldersBehind, ActiveToken, StaleHolderFenced
  <2> QED
    BY <2>2, <2>3, <2>4 DEF FenceInv
<1>5. CASE UNCHANGED machine
  <2>1. UNCHANGED <<timers, active, ended>> /\ reused \subseteq reused'
    BY <1>1, <1>5 DEF machine
  <2>2. TokensPositive'
    BY <1>1, <2>1 DEF FenceInv, TokensPositive, Claims
  <2>3. ExpireKnown'
    BY <1>1, <2>1 DEF FenceInv, ExpireKnown
  <2> QED
    BY <1>1, <2>1, <2>2, <2>3
       DEF FenceInv, HoldersBehind, ActiveToken, StaleHolderFenced
<1>6. CASE /\ c.op = "Claim" /\ c.claim \in Run /\ ActiveOf(c.claim.timer) = {}
           /\ active' = active \cup {c.claim} /\ UNCHANGED ended
           /\ timers'[c.claim.timer].token = c.claim.token
           /\ \A t \in Timers : t # c.claim.timer => timers'[t].token = timers[t].token
  <2> DEFINE k == c.claim
  <2>1. /\ k.timer \in Timers /\ k.token \in Nat
        /\ \A a \in active : a.timer # k.timer
    BY <1>6 DEF Run, ActiveOf
  <2>2. k.timer \notin reused' => k.token = timers[k.timer].token + 1
    BY <1>1, <1>6, <2>1 DEF TokenReused
  <2>3. TokensPositive'
    <3>1. Claims' \subseteq Claims
      BY <1>1, <1>6 DEF Claims
    <3> QED
      BY <3>1 DEF FenceInv, TokensPositive
  <2>4. ASSUME NEW d \in inflight, d.op = "Expire" PROVE d.run # k.run
    <3>1. k \notin active /\ ended[k.run] = "none"
      BY <1>6 DEF ClaimInv, PendingClaimsFresh
    <3>2. \A a \in active : a.run # k.run
      BY <1>6, <3>1, ClaimsContain DEF ClaimInv, ClaimsApart
    <3> QED
      BY <2>4, <3>1, <3>2 DEF FenceInv, ExpireKnown
  <2>5. ExpireKnown'
    <3> SUFFICES ASSUME NEW d \in inflight', d.op = "Expire"
                 PROVE  /\ (\E a \in active' : a.run = d.run) \/ ended'[d.run] # "none"
                        /\ \A a \in active' : a.run = d.run => \A p \in d.with :
                             /\ p.timer = a.timer
                             /\ a.timer \notin reused' => p.token > timers'[a.timer].token
      BY DEF ExpireKnown
    <3>1. d \in inflight /\ d.run # k.run
      BY <1>1, <2>4
    <3> QED
      BY <1>1, <1>2, <1>6, <2>1, <3>1 DEF FenceInv, ExpireKnown
  <2>6. HoldersBehind'
    <3> SUFFICES ASSUME NEW h \in held, h.timer \notin reused'
                 PROVE  h.token <= timers'[h.timer].token
      BY <1>1 DEF HoldersBehind
    <3>1. h.token <= timers[h.timer].token
      BY <1>1 DEF FenceInv, HoldersBehind
    <3> QED
      BY <1>2, <1>3, <1>6, <2>1, <2>2, <3>1
  <2>7. ActiveToken'
    BY <1>1, <1>2, <1>6, <2>1 DEF FenceInv, ActiveToken
  <2>8. StaleHolderFenced'
    <3> SUFFICES ASSUME NEW h \in held, NEW a \in active', h.timer = a.timer,
                        a.timer \notin reused', h.run # a.run
                 PROVE  h.token < a.token
      BY <1>1 DEF StaleHolderFenced
    <3>1. CASE a \in active
      BY <1>1, <3>1 DEF FenceInv, StaleHolderFenced
    <3>2. CASE a = k
      <4>1. h.token <= timers[h.timer].token
        BY <1>1 DEF FenceInv, HoldersBehind
      <4> QED
        BY <1>2, <1>3, <2>1, <2>2, <3>2, <4>1
    <3> QED
      BY <1>6, <3>1, <3>2
  <2> QED
    BY <2>3, <2>5, <2>6, <2>7, <2>8 DEF FenceInv
<1>7. ASSUME NEW a \in active, a.run = c.run, Ends(a),
             \A t \in Timers :
                   \/ timers'[t].token = timers[t].token
                   \/ /\ c.op = "Expire"
                      /\ \E p \in c.with : p.timer = t /\ timers'[t].token = p.token
      PROVE  FenceInv'
  <2>1. /\ active' = active \ {a} /\ a.run \in RunIds /\ ended'[a.run] # "none"
        /\ \A r \in RunIds : r # a.run => ended'[r] = ended[r]
    BY <1>7 DEF Ends, TypeOK, Run
  <2>2. \A b \in active' : b.timer # a.timer
    BY <2>1 DEF ClaimInv, OneActiveRunPerTimer
  <2>3. \A t \in Timers : t # a.timer => timers'[t].token = timers[t].token
    BY <1>7 DEF FenceInv, ExpireKnown
  <2>4. \A t \in Timers : t \notin reused => timers'[t].token >= timers[t].token
    <3> SUFFICES ASSUME NEW t \in Timers, t \notin reused,
                        timers'[t].token # timers[t].token
                 PROVE  timers'[t].token >= timers[t].token
      BY <1>3
    <3>1. c.op = "Expire"
      BY <1>7
    <3>2. PICK p \in c.with : p.timer = t /\ timers'[t].token = p.token
      BY <1>7
    <3>3. t = a.timer
      BY <2>3
    <3>4. p.token > timers[t].token
      BY <1>7, <3>1, <3>3 DEF FenceInv, ExpireKnown
    <3>5. p.token \in Nat
      BY <3>1, CommandKind DEF TypeOK, ExpireCmd, Replacement
    <3> QED
      BY <1>3, <3>2, <3>4, <3>5
  <2>5. TokensPositive'
    <3>1. Claims' \subseteq Claims
      BY <1>1, <2>1 DEF Claims
    <3> QED
      BY <3>1 DEF FenceInv, TokensPositive
  <2>6. ExpireKnown'
    <3> SUFFICES ASSUME NEW d \in inflight', d.op = "Expire"
                 PROVE  /\ (\E b \in active' : b.run = d.run) \/ ended'[d.run] # "none"
                        /\ \A b \in active' : b.run = d.run => \A p \in d.with :
                             /\ p.timer = b.timer
                             /\ b.timer \notin reused' => p.token > timers'[b.timer].token
      BY DEF ExpireKnown
    <3>1. d \in inflight /\ d.run \in RunIds
      BY <1>1, CommandKind DEF TypeOK, ExpireCmd
    <3>2. (\E b \in active' : b.run = d.run) \/ ended'[d.run] # "none"
      BY <2>1, <3>1 DEF FenceInv, ExpireKnown
    <3>3. \A b \in active' : b \in active /\ b.timer # a.timer /\ b.timer \in Timers
      BY <1>2, <2>1, <2>2
    <3> QED
      BY <1>1, <2>3, <3>1, <3>2, <3>3 DEF FenceInv, ExpireKnown
  <2>7. HoldersBehind'
    <3> SUFFICES ASSUME NEW h \in held, h.timer \notin reused
                 PROVE  h.token <= timers'[h.timer].token
      BY <1>1 DEF HoldersBehind
    <3>1. h.timer \in Timers /\ h.token <= timers[h.timer].token
      BY <1>2 DEF FenceInv, HoldersBehind
    <3>2. timers'[h.timer].token \in Nat
      BY <3>1, NextType DEF TypeOK, Timer, Next
    <3> QED
      BY <1>2, <1>3, <2>4, <3>1, <3>2
  <2>8. ActiveToken' /\ StaleHolderFenced'
    BY <1>1, <1>2, <2>1, <2>2, <2>3 DEF FenceInv, ActiveToken, StaleHolderFenced
  <2> QED
    BY <2>5, <2>6, <2>7, <2>8 DEF FenceInv
<1> QED
  BY <1>4, <1>5, <1>6, <1>7, CommitTokens

LEMMA NextFence == TypeOK /\ ClaimInv /\ FenceInv /\ [Next]_vars => FenceInv'
<1> SUFFICES ASSUME TypeOK, ClaimInv, FenceInv, [Next]_vars PROVE FenceInv'
  OBVIOUS
<1> USE DEF machine
<1>1. ASSUME NEW c \in inflight, Commit(c) PROVE FenceInv'
  BY <1>1, CommitFence
<1>2. ASSUME NEW t \in Timers, CreateTimer(t) PROVE FenceInv'
  <2>1. \A c \in inflight' : c \in inflight \/ c.op = "Create"
    BY <1>2 DEF CreateTimer, Propose
  <2>2. UNCHANGED <<timers, active, ended, reused, held, polling>>
    BY <1>2 DEF CreateTimer
  <2>3. Claims' \subseteq Claims
    BY <2>1, <2>2 DEF Claims
  <2> QED
    BY <2>1, <2>2, <2>3, QuietFence
<1>3. ASSUME NEW w \in Workers, NEW t \in Timers, TryClaim(w, t) PROVE FenceInv'
  <2> DEFINE new == [op |-> "Claim", claim |-> ClaimOf(w, t)]
  <2>1. /\ inflight' = inflight \cup {new} /\ new.op = "Claim"
        /\ polling' = [polling EXCEPT ![w] = new]
        /\ UNCHANGED <<timers, active, ended, reused, held>>
    BY <1>3, TryClaimShape
  <2>2. new.claim.token > 0
    BY DEF ClaimOf, TypeOK, Timer
  <2> HIDE DEF new
  <2>3. Claims' \subseteq Claims \cup {new.claim}
    BY <2>1 DEF Claims, TypeOK
  <2>4. TokensPositive'
    BY <2>2, <2>3 DEF FenceInv, TokensPositive
  <2>5. ExpireKnown'
    BY <2>1 DEF FenceInv, ExpireKnown
  <2> QED
    BY <2>1, <2>4, <2>5 DEF FenceInv, HoldersBehind, ActiveToken, StaleHolderFenced
<1>4. ASSUME NEW a \in active, ExpireLease(a) PROVE FenceInv'
  <2> DEFINE new == [op |-> "Expire", run |-> a.run, with |-> ReplacementFor(a)]
  <2>1. /\ inflight' = inflight \cup {new}
        /\ UNCHANGED <<timers, active, ended, reused, held, polling>>
    BY <1>4 DEF ExpireLease, Propose
  <2>2. /\ new.op = "Expire" /\ new.run = a.run
        /\ \A p \in new.with : p.timer = a.timer /\ p.token > timers[a.timer].token
    BY DEF ReplacementFor, TypeOK, Run, Timer
  <2>3. \A b \in active : b.run = a.run => b = a
    BY ClaimsContain DEF ClaimInv, ClaimsApart
  <2> HIDE DEF new
  <2>4. Claims' \subseteq Claims
    BY <2>1, <2>2 DEF Claims
  <2> QED
    BY <2>1, <2>2, <2>3, <2>4, QuietFence
<1>5. ASSUME NEW k \in held, CompleteRun(k) \/ FailRun(k) PROVE FenceInv'
  <2>1. \A c \in inflight' : c \in inflight \/ c.op \in {"Complete", "Fail"}
    BY <1>5 DEF CompleteRun, FailRun, Propose
  <2>2. UNCHANGED <<timers, active, ended, reused, polling>> /\ held' \subseteq held
    BY <1>5 DEF CompleteRun, FailRun
  <2>3. Claims' \subseteq Claims
    BY <2>1, <2>2 DEF Claims
  <2> QED
    BY <2>1, <2>2, <2>3, QuietFence
<1>6. ASSUME NEW w \in Workers, ClaimReturns(w) PROVE FenceInv'
  <2> DEFINE k == polling[w].claim
  <2>1. /\ polling[w] # NoClaim /\ polling' = [polling EXCEPT ![w] = NoClaim]
        /\ UNCHANGED <<timers, active, ended, reused, inflight>>
    BY <1>6 DEF ClaimReturns
  <2>2. k \in Claims
    BY <2>1, ClaimsContain
  <2>3. held' = held \/ (held' = held \cup {k} /\ k \in active)
    BY <1>6, <2>2, ClaimsContain DEF ClaimReturns, ClaimInv, ClaimsApart, ActiveRun
  <2>4. Claims' \subseteq Claims
    BY <2>1, <2>2, <2>3 DEF Claims, TypeOK
  <2>5. CASE held' = held
    BY <2>1, <2>4, <2>5, QuietFence
  <2>6. CASE held' = held \cup {k} /\ k \in active
    <3>1. TokensPositive' /\ ExpireKnown'
      BY <2>1, <2>4 DEF FenceInv, TokensPositive, ExpireKnown
    <3>2. HoldersBehind'
      BY <2>1, <2>6 DEF FenceInv, HoldersBehind, ActiveToken, TypeOK, Run, Timer
    <3>3. StaleHolderFenced'
      BY <2>1, <2>6 DEF FenceInv, StaleHolderFenced, ClaimInv, OneActiveRunPerTimer
    <3> QED
      BY <2>1, <3>1, <3>2, <3>3 DEF FenceInv, ActiveToken
  <2> QED
    BY <2>3, <2>5, <2>6
<1>7. CASE \/ \E c \in inflight : Lose(c)
           \/ \E w \in Workers : ClaimErrors(w)
           \/ \E k \in held : Abandon(k)
           \/ Tick \/ UNCHANGED vars
  <2>1. /\ inflight' \subseteq inflight /\ held' \subseteq held
        /\ UNCHANGED <<timers, active, ended, reused>>
    BY <1>7 DEF Lose, ClaimErrors, Abandon, Tick, vars
  <2>2. \A v \in Workers : polling'[v] \in {polling[v], NoClaim}
    BY <1>7 DEF Lose, ClaimErrors, Abandon, Tick, vars, TypeOK
  <2>3. Claims' \subseteq Claims
    BY <2>1, <2>2 DEF Claims
  <2> QED
    BY <2>1, <2>3, QuietFence
<1> QED
  BY <1>1, <1>2, <1>3, <1>4, <1>5, <1>6, <1>7 DEF Next

\* A worker that still holds a run which is not the active one any more has a
\* smaller token than the active run, however late expiries and claims are
\* committed and however many are lost, unless the timer was created anew or
\* a claim computed from an outdated token was granted.
THEOREM FenceSafe == Spec => []StaleHolderFenced
<1>1. FenceInv => StaleHolderFenced
  BY DEF FenceInv
<1> QED
  BY <1>1, InitFence, NextFence, ClaimInvariant, PTL DEF Spec
=============================================================================

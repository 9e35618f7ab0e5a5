--------------------------- MODULE ClusterEngine ----------------------------
(***************************************************************************)
(* The file-backed cluster engine of cluster.rs: one fixed leader, peers it *)
(* replicates to over HTTP, a command log per node, workers that claim runs *)
(* from the leader.                                                         *)
(*                                                                         *)
(* Two mutexes protect a node: `state` and the log file.  create_timer,     *)
(* register_worker and join hold neither between the copies they send, the  *)
(* line they append and the change they make, so each of these is a step.   *)
(* Claims and reports hold `state` throughout and are one step each.        *)
(*                                                                         *)
(* Time is not counted: an occurrence falls due, a moment passes, a lease   *)
(* ends, by a step of its own.  `pending` is a set, since enqueue_due_runs  *)
(* walks a HashMap.  The RaftCommands no handler of cluster.rs produces are *)
(* left out.                                                                *)
(***************************************************************************)
EXTENDS Naturals, FiniteSets, Sequences, SequencesExt, Functions

CONSTANTS
  Nodes, Leader,
  Timers, Workers,
  Moments,       \* when timers that run once may be due
  Callers,       \* HTTP threads of the leader
  Requests,      \* replicated and membership commands callers may ask for
  Logs,          \* Logs[n]: the command log node n is first opened on
  MaxAttempts,   \* RetryPolicy::max_attempts
  MaxRuns,       \* bound on run ids
  MaxRequests,   \* bound on requests
  MaxFaults,     \* bound on crashes, failed syncs and shutdowns
  MaxEvents      \* bound on runs, requests and faults together

Kinds  == {"every"} \cup Moments
RunIds == 1 .. MaxRuns
Claim  == [timer: Timers, run: RunIds, worker: Workers, token: Nat, attempt: Nat]
Queued == [timer: Timers, run: RunIds, token: Nat, attempt: Nat]

Request == [op: {"CreateTimer"}, timer: Timers, kind: Kinds]
             \cup [op: {"RegisterWorker"}, worker: Workers]
             \cup [op: {"AddNode", "RemoveNode"}, node: Nodes]
Command == Request \cup [op: {"ClaimRun", "CompleteRun", "FailRun"}, claim: Claim]

ASSUME ClusterAssumption ==
  /\ Leader \in Nodes /\ IsFiniteSet(Nodes) /\ IsFiniteSet(Timers)
  /\ Moments \cap {"every", "due", "none"} = {}
  /\ Requests \subseteq Request
  /\ Logs \in [Nodes -> Seq(Request)]
  /\ MaxAttempts \in Nat \ {0} /\ MaxRuns \in Nat
  /\ MaxRequests \in Nat /\ MaxFaults \in Nat /\ MaxEvents \in Nat

VARIABLES
  st,         \* ClusterState of each node
  log,        \* kron.raft.aof of each node
  dead,       \* nodes whose log ends in half a line: open() refuses
  calls,      \* where each request handler of the leader is
  pass,       \* what the leader's scheduler thread does next
  stopping,   \* shutting_down of the leader
  elapsed,    \* moments that have passed
  overdue,    \* active claims whose lease_deadline has passed
  lastRun,    \* run ids are drawn in order
  requests, faults,
  handed,     \* what poll_worker has answered: the claims workers report with
  ended,      \* history: runs whose worker was told the report is accepted
  blurred,    \* history: requests have overlapped, or the sync of one failed
  answered,   \* history: requests answered after a quorum, with its nodes
  unlogged,   \* history: memory and log were changed one without the other
  forgot      \* history: a restart has lost such a change

leaderv == <<calls, pass, stopping>>
history == <<handed, ended, blurred, answered, unlogged, forgot>>
bounds  == <<lastRun, requests, faults>>
vars == <<st, log, dead, calls, pass, stopping, elapsed, overdue,
          lastRun, requests, faults, handed, ended, blurred, answered, unlogged,
          forgot>>

ClusterState ==
  [self: Nodes,
   peers: Seq(Nodes),
   timers: [Timers -> Kinds \cup {"none"}],
   states: [Timers -> {"None", "Scheduled", "Running", "Retrying", "Dead"}],
   next: [Timers -> Kinds \cup {"due", "none"}],   \* what next_runs waits for
   workers: [Workers -> {"absent", "live", "lapsed"}],
   pending: SUBSET Queued,
   active: SUBSET Claim,
   fencing: [Timers -> Nat]]

NoRequest == [op |-> "None"]
Idle == [pc |-> "idle", cmd |-> NoRequest, todo |-> <<>>, acks |-> 0, nodes |-> {}]
Call == [pc: {"idle", "replicate", "sent", "logged"}, cmd: Request \cup {NoRequest},
         todo: Seq(Nodes), acks: Nat, nodes: SUBSET Nodes]

\* A node knows itself, is not its own peer and lists no peer twice.
PeersOnce(s) ==
  /\ s.self \notin ToSet(s.peers)
  /\ \A i, j \in 1 .. Len(s.peers) : s.peers[i] = s.peers[j] => i = j
NodeInv == \A n \in Nodes : st[n].self = n /\ PeersOnce(st[n])

TypeOK ==
  /\ st \in [Nodes -> ClusterState] /\ NodeInv
  /\ log \in [Nodes -> Seq(Command)]
  /\ dead \subseteq Nodes
  /\ calls \in [Callers -> Call]
  /\ pass \in {"enqueue", "expire"} /\ stopping \in BOOLEAN
  /\ elapsed \subseteq Moments /\ overdue \subseteq Claim
  /\ lastRun \in Nat /\ requests \in Nat /\ faults \in Nat
  /\ handed \subseteq Claim /\ ended \subseteq RunIds
  /\ answered \subseteq [cmd: Request, nodes: SUBSET Nodes]
  /\ blurred \in BOOLEAN /\ unlogged \in BOOLEAN /\ forgot \in BOOLEAN

-----------------------------------------------------------------------------
(* apply_command, on one node's state                                      *)

Fresh(n) ==
  [self |-> n, peers |-> <<>>,
   timers |-> [t \in Timers |-> "none"], states |-> [t \in Timers |-> "None"],
   next |-> [t \in Timers |-> "none"], workers |-> [w \in Workers |-> "absent"],
   pending |-> {}, active |-> {}, fencing |-> [t \in Timers |-> 0]]

\* Schedule::next_run_after(Utc::now()), when the moments of `past` are over
NextRunAfter(past, kind) == IF kind \in past THEN "none" ELSE kind

\* A spec without a next occurrence leaves next_runs as it is.
ApplyCreateTimer(past, s, t, kind) ==
  LET at == NextRunAfter(past, kind) IN
  [s EXCEPT !.timers[t] = kind, !.states[t] = "Scheduled",
            !.next[t] = IF at = "none" THEN @ ELSE at]

RescheduleTimer(past, s, t) ==
  IF s.timers[t] = "none" THEN s
  ELSE [s EXCEPT !.next[t] = NextRunAfter(past, s.timers[t])]

ActiveOf(s, t) == {a \in s.active : a.timer = t}
QueuedOf(s, t) == {q \in s.pending : q.timer = t}

ApplyClaim(s, k) ==
  IF ActiveOf(s, k.timer) # {} THEN s
  ELSE [s EXCEPT !.active = @ \cup {k}, !.states[k.timer] = "Running",
                 !.fencing[k.timer] = k.token]

EndRun(s, k, state) == [s EXCEPT !.active = @ \ {k}, !.states[k.timer] = state]

\* Mutant: a node that joins again is listed again.
AddPeerAgain(s, n) ==
  IF n = s.self THEN s ELSE [s EXCEPT !.peers = Append(@, n)]

AddPeer(s, n) ==
  IF n = s.self \/ n \in ToSet(s.peers) THEN s
  ELSE [s EXCEPT !.peers = Append(@, n)]

\* A peer is listed once (AddPeer), so retain() drops one entry at most.
Apply(past, s, c) ==
  CASE c.op = "CreateTimer"    -> ApplyCreateTimer(past, s, c.timer, c.kind)
    [] c.op = "RegisterWorker" -> [s EXCEPT !.workers[c.worker] = "live"]
    [] c.op = "AddNode"        -> AddPeer(s, c.node)
    [] c.op = "RemoveNode" /\ c.node \in ToSet(s.peers) ->
         [s EXCEPT !.peers = RemoveAt(@, CHOOSE i \in 1 .. Len(@) : @[i] = c.node)]
    [] c.op = "ClaimRun"       -> ApplyClaim(s, c.claim)
    [] c.op = "CompleteRun" /\ c.claim \in s.active ->
         RescheduleTimer(past, EndRun(s, c.claim, "Scheduled"), c.claim.timer)
    [] c.op = "FailRun" /\ c.claim \in s.active -> EndRun(s, c.claim, "Dead")
    [] OTHER -> s

\* replay_commands: every line of the log, in order.
Replay(past, n, lines) ==
  LET after[i \in 0 .. Len(lines)] ==
        IF i = 0 THEN Fresh(n) ELSE Apply(past, after[i - 1], lines[i])
  IN after[Len(lines)]

\* The bounds leave room for k more runs, requests or faults.
Room(k) == lastRun + requests + faults + k <= MaxEvents

S == st[Leader]
Up(n) == n \notin dead
Put(n, s) == st' = [st EXCEPT ![n] = s]
AppendCommand(n, c) == log' = [log EXCEPT ![n] = Append(@, c)]

-----------------------------------------------------------------------------
(* create_timer, register_worker, join and leave on the leader             *)

Busy == \E c \in Callers : calls[c] # Idle
Majority(call) == Cardinality(call.nodes) \div 2 + 1

\* append_replicated_command takes the peers under the lock ...
BeginReplicated(c, cmd) ==
  /\ Up(Leader) /\ calls[c] = Idle
  /\ requests < MaxRequests /\ Room(1)
  /\ cmd.op # "RemoveNode"
  /\ calls' = [calls EXCEPT ![c] =
       [pc |-> "replicate", cmd |-> cmd, todo |-> S.peers, acks |-> 1,
        nodes |-> {Leader} \cup ToSet(S.peers)]]
  /\ requests' = requests + 1
  /\ blurred' = (blurred \/ Busy)
  /\ UNCHANGED <<st, log, dead, pass, stopping, elapsed, overdue, lastRun, faults, handed, ended,
                 answered, unlogged, forgot>>

\* ... or, when another thread holds the lock, appends the command and asks
\* no peer.  leave() never asks one.
BeginLocal(c, cmd) ==
  /\ Up(Leader) /\ calls[c] = Idle
  /\ requests < MaxRequests /\ Room(1)
  /\ AppendCommand(Leader, cmd)
  /\ calls' = [calls EXCEPT ![c] = [Idle EXCEPT !.pc = "logged", !.cmd = cmd]]
  /\ requests' = requests + 1
  /\ blurred' = (blurred \/ Busy)
  /\ UNCHANGED <<st, dead, pass, stopping, elapsed, overdue, lastRun, faults, handed, ended,
                 answered, unlogged, forgot>>

\* replicate_command: the peer's apply_replicated_command appends ...
ReplicateSend(c) ==
  LET p == Head(calls[c].todo) IN
  /\ calls[c].pc = "replicate" /\ calls[c].todo # <<>> /\ Up(p)
  /\ AppendCommand(p, calls[c].cmd)
  /\ calls' = [calls EXCEPT ![c].pc = "sent"]
  /\ UNCHANGED <<st, dead, pass, stopping, elapsed, overdue, bounds, history>>

\* ... and applies; its answer arrives or not.
ReplicateApply(c) ==
  LET p == Head(calls[c].todo) IN
  /\ calls[c].pc = "sent"
  /\ Put(p, Apply(elapsed, st[p], calls[c].cmd))
  /\ \E ack \in {0, 1} :
       calls' = [calls EXCEPT ![c].pc = "replicate", ![c].todo = Tail(@),
                              ![c].acks = @ + ack]
  /\ UNCHANGED <<log, dead, pass, stopping, elapsed, overdue, bounds, history>>

\* connect or write fails.
ReplicateUnreachable(c) ==
  /\ calls[c].pc = "replicate" /\ calls[c].todo # <<>>
  /\ calls' = [calls EXCEPT ![c].todo = Tail(@)]
  /\ UNCHANGED <<st, log, dead, pass, stopping, elapsed, overdue, bounds,
                 history>>

\* The peers that took the command keep it.
QuorumFails(c) ==
  /\ calls[c].pc = "replicate" /\ calls[c].todo = <<>>
  /\ calls[c].acks < Majority(calls[c])
  /\ calls' = [calls EXCEPT ![c] = Idle]
  /\ UNCHANGED <<st, log, dead, pass, stopping, elapsed, overdue, bounds,
                 history>>

\* Mutant: half of the nodes are taken for a majority.
QuorumAppendHalf(c) ==
  /\ calls[c].pc = "replicate" /\ calls[c].todo = <<>>
  /\ calls[c].acks >= Majority(calls[c]) - 1
  /\ AppendCommand(Leader, calls[c].cmd)
  /\ calls' = [calls EXCEPT ![c].pc = "logged"]
  /\ UNCHANGED <<st, dead, pass, stopping, elapsed, overdue, bounds, history>>

\* Mutant: the leader counts on the peers' logs.
QuorumNoAppend(c) ==
  /\ calls[c].pc = "replicate" /\ calls[c].todo = <<>>
  /\ calls[c].acks >= Majority(calls[c])
  /\ calls' = [calls EXCEPT ![c].pc = "logged"]
  /\ UNCHANGED <<st, log, dead, pass, stopping, elapsed, overdue, bounds, history>>

QuorumAppend(c) ==
  /\ calls[c].pc = "replicate" /\ calls[c].todo = <<>>
  /\ calls[c].acks >= Majority(calls[c])
  /\ AppendCommand(Leader, calls[c].cmd)
  /\ calls' = [calls EXCEPT ![c].pc = "logged"]
  /\ UNCHANGED <<st, dead, pass, stopping, elapsed, overdue, bounds, history>>

\* The handler takes the lock again, applies and answers.
ApplyOwn(c) ==
  LET call == calls[c] IN
  /\ call.pc = "logged"
  /\ Put(Leader, Apply(elapsed, S, call.cmd))
  /\ answered' = IF call.nodes = {} THEN answered
                 ELSE answered \cup {[cmd |-> call.cmd, nodes |-> call.nodes]}
  /\ calls' = [calls EXCEPT ![c] = Idle]
  /\ UNCHANGED <<log, dead, pass, stopping, elapsed, overdue, bounds,
                 handed, ended, blurred, unlogged, forgot>>

-----------------------------------------------------------------------------
(* Workers                                                                 *)

\* heartbeat_worker, alone or as the first thing poll_worker does: a worker
\* that is not registered stays so.
HeartbeatWorker(w) ==
  /\ Up(Leader) /\ S.workers[w] = "lapsed"
  /\ Put(Leader, [S EXCEPT !.workers[w] = "live"])
  /\ UNCHANGED <<log, dead, leaderv, elapsed, overdue, bounds, history>>

ClaimFor(q, w) == [timer |-> q.timer, run |-> q.run, worker |-> w, token |-> q.token,
                   attempt |-> q.attempt]

\* Mutant: the claim is answered and not written.
ClaimPendingQuietly(w) ==
  /\ Up(Leader)
  /\ \E q \in S.pending :
       LET k == ClaimFor(q, w) IN
       /\ Put(Leader, [S EXCEPT !.pending = @ \ {q}, !.active = @ \cup {k},
                                !.states[q.timer] = "Running"])
       /\ handed' = handed \cup {k}
  /\ UNCHANGED <<log, dead, calls, pass, stopping, elapsed, overdue, bounds, ended,
                 blurred, answered, unlogged, forgot>>

\* claim_pending_for, which poll_worker calls over and over for 20 seconds:
\* between the heartbeat and the claim the worker may lose its lease again.
ClaimPending(w) ==
  /\ Up(Leader)
  /\ \E q \in S.pending :
       LET k == ClaimFor(q, w) IN
       /\ AppendCommand(Leader, [op |-> "ClaimRun", claim |-> k])
       /\ Put(Leader, [S EXCEPT !.pending = @ \ {q}, !.active = @ \cup {k},
                                !.states[q.timer] = "Running"])
       /\ handed' = handed \cup {k}
  /\ UNCHANGED <<dead, calls, pass, stopping, elapsed, overdue, bounds, ended,
                 blurred, answered, unlogged, forgot>>

\* Mutant: the report is checked by run id alone.
ValidRun(k) == Up(Leader) /\ \E a \in S.active : a.run = k.run

\* validate_active_run: the run is active for this worker with this token.
Valid(k) == Up(Leader) /\ k \in S.active

CompleteRun(k) ==
  /\ Valid(k)
  /\ AppendCommand(Leader, [op |-> "CompleteRun", claim |-> k])
  /\ Put(Leader, RescheduleTimer(elapsed, EndRun(S, k, "Scheduled"), k.timer))
  /\ overdue' = overdue \ {k}
  /\ ended' = ended \cup {k.run}
  /\ UNCHANGED <<dead, leaderv, elapsed, bounds, handed, blurred,
                 answered, unlogged, forgot>>

\* next_runs keeps the occurrence that has just failed.
FailRun(k) ==
  /\ Valid(k)
  /\ AppendCommand(Leader, [op |-> "FailRun", claim |-> k])
  /\ Put(Leader, EndRun(S, k, "Dead"))
  /\ overdue' = overdue \ {k}
  /\ ended' = ended \cup {k.run}
  /\ UNCHANGED <<dead, leaderv, elapsed, bounds, handed, blurred,
                 answered, unlogged, forgot>>

-----------------------------------------------------------------------------
(* The scheduler thread: is_shutting_down, enqueue_due_runs, expire_workers *)

\* Mutant: a run a worker holds does not keep the next one back.
StartableBesideActive == {t \in Timers : S.next[t] = "due" /\ S.timers[t] # "none"
                                       /\ QueuedOf(S, t) = {}}

\* Due timers without a pending or an active run.
Startable == {t \in Timers : S.next[t] = "due" /\ S.timers[t] # "none"
                             /\ QueuedOf(S, t) = {} /\ ActiveOf(S, t) = {}}

\* The top of the loop, the only place where shutting_down is looked at, and
\* enqueue_due_runs: a shutdown between the two is as good as one after them.
\* Run ids are drawn in any order of the timers; with none left (MaxRuns)
\* nothing is queued.
EnqueueDueRuns ==
  LET due == IF lastRun + Cardinality(Startable) <= MaxRuns /\ Room(Cardinality(Startable)) THEN Startable ELSE {}
      first == lastRun + 1 .. lastRun + Cardinality(due)
      Token(t) == S.fencing[t] + 1
  IN
  /\ Up(Leader) /\ pass = "enqueue" /\ ~stopping
  /\ \E id \in Bijection(due, first) :
       Put(Leader,
           [S EXCEPT !.pending = @ \cup {[timer |-> t, run |-> id[t], token |-> Token(t),
                                          attempt |-> 1] : t \in due},
                     !.fencing = [t \in Timers |-> IF t \in due THEN Token(t) ELSE @[t]],
                     !.states = [t \in Timers |-> IF t \in due THEN "Scheduled" ELSE @[t]]])
  /\ lastRun' = lastRun + Cardinality(due)
  /\ pass' = "expire"
  /\ UNCHANGED <<log, dead, calls, stopping, elapsed, overdue, requests,
                 faults, history>>

\* A run is taken back when its own lease or its worker's has ended.
Expired(s, workers) ==
  {a \in s.active : a \in overdue \/ workers[a.worker] = "absent"}

\* Mutant: the claim keeps its token.
RequeuedSameToken(s, a) ==
  [timer |-> a.timer, run |-> a.run, token |-> a.token, attempt |-> a.attempt + 1]
\* The same run, one attempt later and with a new token.
Requeued(s, a) == [timer |-> a.timer, run |-> a.run, token |-> s.fencing[a.timer] + 1,
                   attempt |-> a.attempt + 1]

\* expire_workers on state s: nothing of it is written to the log.
ExpireWorkers(s) ==
  LET workers == [w \in Workers |-> IF s.workers[w] = "lapsed" THEN "absent"
                                    ELSE s.workers[w]]
      expired == Expired(s, workers)
      known   == {a \in expired : s.timers[a.timer] # "none"}
      spent   == {a.timer : a \in {b \in known : b.attempt >= MaxAttempts}}
      again   == {a \in known : a.attempt < MaxAttempts}
      retried == {a.timer : a \in again}
  IN [s EXCEPT
       !.workers = workers,
       !.active = @ \ expired,
       !.pending = @ \cup {Requeued(s, a) : a \in again},
       !.fencing = [t \in Timers |-> @[t] + (IF t \in retried THEN 1 ELSE 0)],
       !.states = [t \in Timers |-> IF t \in retried THEN "Retrying"
                                    ELSE IF t \in spent THEN "Dead" ELSE @[t]]]

\* expire_workers ends the pass, whether or not a shutdown was announced in it.
LeaderExpires ==
  /\ Up(Leader) /\ pass = "expire"
  /\ Put(Leader, ExpireWorkers(S))
  /\ unlogged' = (unlogged \/ ExpireWorkers(S).active # S.active)
  /\ overdue' = overdue \cap ExpireWorkers(S).active
  /\ pass' = "enqueue"
  /\ UNCHANGED <<log, dead, calls, stopping, elapsed, bounds, handed,
                 ended, blurred, answered, forgot>>

\* A follower's thread skips enqueue_due_runs and expires workers too: it
\* hears of registrations and never of heartbeats or claims.
FollowerExpires(n, w) ==
  /\ n # Leader /\ Up(n) /\ st[n].workers[w] = "live"
  /\ Put(n, ExpireWorkers([st[n] EXCEPT !.workers[w] = "lapsed"]))
  /\ UNCHANGED <<log, dead, leaderv, elapsed, overdue, bounds, history>>

-----------------------------------------------------------------------------
(* Time, shutdown and failures                                             *)

\* On every node, timers of ts that wait for `at` are due.
FallDue(ts, at) ==
  st' = [n \in Nodes |->
           [st[n] EXCEPT !.next = [t \in Timers |->
              IF t \in ts /\ @[t] = at THEN "due" ELSE @[t]]]]

\* The next occurrence of a recurring timer t comes.
OccurrenceDue(t) ==
  /\ \E n \in Nodes : st[n].next[t] = "every"
  /\ FallDue({t}, "every")
  /\ UNCHANGED <<log, dead, leaderv, elapsed, overdue, bounds, history>>

\* A request that is under way or logged is about moment m.
Named(m) ==
  \E t \in Timers :
    LET cmd == [op |-> "CreateTimer", timer |-> t, kind |-> m] IN
    \/ \E c \in Callers : calls[c].cmd = cmd
    \/ \E n \in Nodes : cmd \in ToSet(log[n])

\* Moment m comes, for the timers that wait for it and those created later.
\* One that was over when it was asked for passes right after the request came.
MomentPasses(m) ==
  /\ m \notin elapsed /\ Named(m)
  /\ elapsed' = elapsed \cup {m}
  /\ FallDue(Timers, m)
  /\ UNCHANGED <<log, dead, leaderv, overdue, bounds, history>>

WorkerLeaseEnds(w) ==
  /\ Up(Leader) /\ S.workers[w] = "live"
  /\ Put(Leader, [S EXCEPT !.workers[w] = "lapsed"])
  /\ UNCHANGED <<log, dead, leaderv, elapsed, overdue, bounds, history>>

\* A deadline that a replayed claim has long passed is noticed by this step.
RunLeaseEnds(a) ==
  /\ a \notin overdue
  /\ overdue' = overdue \cup {a}
  /\ UNCHANGED <<st, log, dead, leaderv, elapsed, bounds, history>>

Shutdown ==
  /\ Up(Leader) /\ ~stopping /\ faults < MaxFaults /\ Room(1)
  /\ stopping' = TRUE
  /\ faults' = faults + 1
  /\ UNCHANGED <<st, log, dead, calls, pass, elapsed, overdue, lastRun, requests, history>>

\* write_all succeeds and sync_data does not: the caller gets an error, the
\* state stays, the line stays too.
AppendUnsynced(cmd) ==
  /\ Up(Leader) /\ faults < MaxFaults /\ Room(1)
  /\ AppendCommand(Leader, cmd)
  /\ unlogged' = TRUE
  /\ faults' = faults + 1
  /\ UNCHANGED <<st, dead, leaderv, elapsed, overdue, lastRun, requests, handed, ended,
                 blurred, answered, forgot>>

ClaimUnsynced(w) ==
  \E q \in S.pending :
    AppendUnsynced([op |-> "ClaimRun", claim |-> ClaimFor(q, w)])

ReportUnsynced(k) ==
  Valid(k) /\ \E op \in {"CompleteRun", "FailRun"} :
    AppendUnsynced([op |-> op, claim |-> k])

\* The same in append_replicated_command: on a peer, which then does not
\* acknowledge, on the leader after the quorum, or on its local path.
RequestUnsynced(c) ==
  LET call == calls[c] IN
  /\ Up(Leader) /\ faults < MaxFaults /\ Room(1)
  /\ \/ /\ call.pc = "replicate" /\ call.todo # <<>> /\ Up(Head(call.todo))
        /\ AppendCommand(Head(call.todo), call.cmd)
        /\ calls' = [calls EXCEPT ![c].todo = Tail(@)]
     \/ /\ call.pc = "replicate" /\ call.todo = <<>> /\ call.acks >= Majority(call)
        /\ AppendCommand(Leader, call.cmd)
        /\ calls' = [calls EXCEPT ![c] = Idle]
     \/ /\ call = Idle
        /\ \E cmd \in Requests : AppendCommand(Leader, cmd)
        /\ UNCHANGED calls
  /\ blurred' = TRUE
  /\ faults' = faults + 1
  /\ UNCHANGED <<st, dead, pass, stopping, elapsed, overdue, lastRun, requests, handed,
                 ended, answered, unlogged, forgot>>

\* A process ends between two steps and is started again: what is not in the
\* log is gone.  (A peer that has appended applies before anyone notices.)
Restart(n) ==
  /\ Up(n) /\ faults < MaxFaults /\ Room(1)
  /\ \A c \in Callers : calls[c].pc # "sent"
  /\ Put(n, Replay(elapsed, n, log[n]))
  /\ \/ /\ n = Leader
        /\ calls' = [c \in Callers |-> Idle]
        /\ pass' = "enqueue" /\ stopping' = FALSE
        /\ overdue' = {} /\ forgot' = unlogged
     \/ n # Leader /\ UNCHANGED <<leaderv, overdue, forgot>>
  /\ faults' = faults + 1
  /\ UNCHANGED <<log, dead, elapsed, lastRun, requests, handed, ended,
                 blurred, answered, unlogged>>

\* The process dies inside write_all: replay_commands fails on half a line.
Torn(n) ==
  /\ Up(n) /\ faults < MaxFaults /\ Room(1)
  /\ \A c \in Callers : calls[c].pc # "sent"
  /\ dead' = dead \cup {n}
  /\ calls' = [c \in Callers |-> IF n = Leader THEN Idle ELSE calls[c]]
  /\ faults' = faults + 1
  /\ UNCHANGED <<st, log, pass, stopping, elapsed, overdue, lastRun, requests, history>>

-----------------------------------------------------------------------------
\* open_with_leader on every node's log; peers and timers come from there.
Init ==
  /\ elapsed = {} /\ overdue = {}
  /\ log = Logs
  /\ st = [n \in Nodes |-> Replay(elapsed, n, Logs[n])]
  /\ dead = {} /\ calls = [c \in Callers |-> Idle]
  /\ pass = "enqueue" /\ stopping = FALSE
  /\ lastRun = 0 /\ requests = 0 /\ faults = 0
  /\ handed = {} /\ ended = {} /\ answered = {}
  /\ blurred = FALSE /\ unlogged = FALSE /\ forgot = FALSE

CallStep(c) ==
  \/ \E cmd \in Requests : BeginReplicated(c, cmd) \/ BeginLocal(c, cmd)
  \/ ReplicateSend(c) \/ ReplicateApply(c) \/ ReplicateUnreachable(c)
  \/ QuorumFails(c) \/ QuorumAppend(c) \/ ApplyOwn(c) \/ RequestUnsynced(c)

WorkerStep(w) ==
  HeartbeatWorker(w) \/ ClaimPending(w) \/ ClaimUnsynced(w) \/ WorkerLeaseEnds(w)

Report(k) == CompleteRun(k) \/ FailRun(k) \/ ReportUnsynced(k)

SchedulerPass == EnqueueDueRuns \/ LeaderExpires

Next ==
  \/ \E c \in Callers : CallStep(c)
  \/ \E w \in Workers : WorkerStep(w)
  \/ \E k \in handed : Report(k)
  \/ SchedulerPass
  \/ \E n \in Nodes : Restart(n) \/ Torn(n)
  \/ \E t \in Timers : OccurrenceDue(t)
  \/ \E m \in Moments : MomentPasses(m)
  \/ \E n \in Nodes, w \in Workers : FollowerExpires(n, w)
  \/ \E a \in S.active : RunLeaseEnds(a)
  \/ Shutdown

Spec == Init /\ [][Next]_vars

-----------------------------------------------------------------------------
(* Properties                                                              *)

\* A timer has at most one run, pending or active, through expiries,
\* restarts and re-creations.
OneRunPerTimer ==
  \A t \in Timers : Cardinality(ActiveOf(S, t)) + Cardinality(QueuedOf(S, t)) <= 1

\* The log gives back the claims the leader holds, at every moment a crash
\* may come, as long as no lease was ended and no sync failed: those two are
\* not, or are only, in the log.
ReplayKeepsClaims ==
  ~unlogged => Replay(elapsed, Leader, log[Leader]).active = S.active

\* Every node's log gives back its timers and members whenever no request is
\* under way.  Not so once two requests have run at once (the line and the
\* change are made under different locks, so their orders may differ) or a
\* sync has failed.
ReplayKeepsTimers ==
  ~blurred /\ ~Busy =>
    \A n \in Nodes \ dead :
      LET r == Replay(elapsed, n, log[n]) IN r.timers = st[n].timers /\ r.peers = st[n].peers

\* A run whose report was accepted is over: it is neither queued nor active
\* again, except after a restart that forgot an expiry.
EndedStaysEnded ==
  ~forgot => \A x \in S.active \cup S.pending : x.run \notin ended

\* Fencing: each claim of a timer carries a larger token than all before it,
\* across restarts that did not forget an expiry.
TokensGrow ==
  [][~forgot' => \A k \in handed' \ handed, j \in handed :
                   j.timer = k.timer => j.token < k.token]_vars

\* A request answered after replication is in the logs of a majority of the
\* nodes that were asked, whatever is lost or crashes later.
AnsweredIsOnMajority ==
  \A a \in answered :
    2 * Cardinality({n \in a.nodes : a.cmd \in ToSet(log[n])}) > Cardinality(a.nodes)
=============================================================================

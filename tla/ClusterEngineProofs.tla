------------------------ MODULE ClusterEngineProofs -------------------------
(***************************************************************************)
(* Theorems about ClusterEngine: its type invariant and every safety and    *)
(* action property its run checks, for any cluster, log and set of          *)
(* requests.                                                                *)
(*                                                                         *)
(* What replay_commands gives back is shown by Recursion (Recursions): a    *)
(* replay is a function over the lines, and a first line where two such     *)
(* functions differ does not exist.                                         *)
(***************************************************************************)
EXTENDS ClusterEngine, Recursions, FiniteSetTheorems, SequenceTheorems, TLAPS

-----------------------------------------------------------------------------
(* The inductive invariants                                                *)

OneActive(s) == \A a, b \in s.active : a.timer = b.timer => a = b

\* At most one run per timer, handed out or queued.
OneRun(active, pending) ==
  /\ \A a, b \in active : a.timer = b.timer => a = b
  /\ \A p, q \in pending : p.timer = q.timer => p = q
  /\ \A a \in active, q \in pending : a.timer # q.timer

RunInv == OneRun(S.active, S.pending)

\* What node n would come back with.
Replayed(n) == Replay(elapsed, n, log[n])

\* The replayed state has the claims, and no token that was handed out is
\* larger than its fencing token.
Kept(active, r) ==
  /\ r.active = active
  /\ \A j \in handed : j.token <= r.fencing[j.timer]

\* Run ids belong to one timer, are drawn already and not over; the tokens
\* handed out are behind the fencing token and behind those still queued.
Tracked(active, pending, fencing) ==
  /\ \A x, y \in active \cup pending : x.run = y.run => x.timer = y.timer
  /\ \A x \in active \cup pending : x.run <= lastRun /\ x.run \notin ended
  /\ \A r \in ended : r <= lastRun
  /\ \A j \in handed : j.token <= fencing[j.timer]
  /\ \A q \in pending : /\ q.token <= fencing[q.timer]
                         /\ \A j \in handed : j.timer = q.timer => j.token < q.token

ClaimInv ==
  /\ forgot => unlogged
  /\ ~unlogged => Kept(S.active, Replayed(Leader))
  /\ ~forgot => Tracked(S.active, S.pending, S.fencing)

Holds(logs, n, cmd) == cmd \in ToSet(logs[n])

\* The peers the handler is done with that have the line.
Took(logs, call) ==
  {n \in call.nodes \ ({Leader} \cup ToSet(call.todo)) : Holds(logs, n, call.cmd)}

OnMajority(logs, cmd, nodes) ==
  2 * Cardinality({n \in nodes : Holds(logs, n, cmd)}) > Cardinality(nodes)

CallShape ==
  \A c \in Callers :
    /\ calls[c].pc = "idle" => calls[c] = Idle
    /\ calls[c].pc # "idle" => calls[c].cmd \in Request
    /\ calls[c].pc = "sent" => calls[c].todo # << >>

Once(q) == \A i, j \in 1 .. Len(q) : q[i] = q[j] => i = j

\* The handler counts itself and no peer whose log does not hold the line.
CallOK(logs, call) ==
  /\ call.pc \in {"replicate", "sent"} =>
       /\ Leader \in call.nodes /\ Leader \notin ToSet(call.todo)
       /\ ToSet(call.todo) \subseteq call.nodes /\ Once(call.todo)
       /\ call.acks <= 1 + Cardinality(Took(logs, call))
  /\ call.pc = "sent" => Holds(logs, Head(call.todo), call.cmd)
  /\ call.pc = "logged" /\ call.nodes # {} => OnMajority(logs, call.cmd, call.nodes)

CallInv ==
  /\ \A c \in Callers : CallOK(log, calls[c])
  /\ \A a \in answered : OnMajority(log, a.cmd, a.nodes)

SameMembers(r, s) == r.timers = s.timers /\ r.peers = s.peers

\* apply_command on the timers and on the peers of a node.
TimersAfter(timers, c) ==
  IF c.op = "CreateTimer" THEN [timers EXCEPT ![c.timer] = c.kind] ELSE timers

Without(peers, n) == RemoveAt(peers, CHOOSE i \in 1 .. Len(peers) : peers[i] = n)

PeersAfter(self, peers, c) ==
  IF c.op = "AddNode" /\ c.node # self /\ c.node \notin ToSet(peers) THEN Append(peers, c.node)
  ELSE IF c.op = "RemoveNode" /\ c.node \in ToSet(peers) THEN Without(peers, c.node)
  ELSE peers

\* The log of n is one line, cmd, ahead of its state ...
Ahead(n, r, s, cmd) ==
  r.timers = TimersAfter(s.timers, cmd) /\ r.peers = PeersAfter(n, s.peers, cmd)

\* ... when a handler has appended there and not applied yet.
Behind(n, call) == \/ call.pc = "sent" /\ n = Head(call.todo)
                   \/ call.pc = "logged" /\ n = Leader

InStep(n, r, s, hs) ==
  /\ (\A c \in Callers : ~Behind(n, hs[c])) => SameMembers(r, s)
  /\ \A c \in Callers : Behind(n, hs[c]) => Ahead(n, r, s, hs[c].cmd)

Alone(hs) == \A c, d \in Callers : hs[c] # Idle /\ hs[d] # Idle => c = d

TimersInv ==
  ~blurred => /\ Alone(calls)
              /\ \A n \in Nodes \ dead : InStep(n, Replayed(n), st[n], calls)

-----------------------------------------------------------------------------
(* Replay                                                                  *)

\* The states that replaying `lines` on node n goes through.
Replays(g, past, n, lines) ==
  /\ g[0] = Fresh(n)
  /\ \A i \in 1 .. Len(lines) : g[i] = Apply(past, g[i - 1], lines[i])

\* Replay ends in the last of them, and all are in any set of states that
\* holds the first and is closed under apply_command.
LEMMA ReplayRuns ==
  ASSUME NEW past, NEW n, NEW C, NEW lines \in Seq(C), NEW V,
         Fresh(n) \in V, \A s \in V, c \in C : Apply(past, s, c) \in V
  PROVE  \E g \in [0 .. Len(lines) -> V] :
           Replays(g, past, n, lines) /\ Replay(past, n, lines) = g[Len(lines)]
<1> DEFINE N == Len(lines)
           f == [x \in (1 .. N) \X V |-> Apply(past, x[2], lines[x[1]])]
           Step(g) == [i \in 0 .. N |-> IF i = 0 THEN Fresh(n) ELSE Apply(past, g[i - 1], lines[i])]
           after == CHOOSE g : g = Step(g)
<1>1. N \in Nat /\ \A i \in 1 .. N : lines[i] \in C
  OBVIOUS
<1>2. f \in [(1 .. N) \X V -> V]
  BY <1>1
<1>3. PICK g \in [0 .. N -> V] : Iterates(g, f, Fresh(n), N)
  <2> HIDE DEF f, N
  <2> QED BY <1>1, <1>2, Recursion
<1>4. g[0] = Fresh(n)
  BY <1>3 DEF Iterates
<1>5. ASSUME NEW i \in 1 .. N PROVE g[i] = Apply(past, g[i - 1], lines[i])
  <2>1. g[i - 1] \in V
    BY <1>1, <1>3
  <2>2. g[i] = f[<<i, g[i - 1]>>]
    BY <1>3 DEF Iterates
  <2> QED
    BY <2>1, <2>2
<1>6. g = Step(g)
  <2>1. DOMAIN g = 0 .. N
    BY <1>3
  <2>2. ASSUME NEW i \in 0 .. N PROVE g[i] = Step(g)[i]
    BY <1>1, <1>4, <1>5
  <2> QED
    BY <1>3, <2>2
<1>7. after = Step(after)
  <2> HIDE DEF Step
  <2> QED BY <1>6
<1>8. Replay(past, n, lines) = after[N]
  BY DEF Replay
<1> HIDE DEF after
<1>9. \A i \in 0 .. N : after[i] = IF i = 0 THEN Fresh(n) ELSE Apply(past, after[i - 1], lines[i])
  BY <1>7
<1>10. \A i \in 0 .. N : after[i] = g[i]
  <2> DEFINE T == {i \in 0 .. N : after[i] # g[i]}
  <2>1. SUFFICES ASSUME T # {} PROVE FALSE
    OBVIOUS
  <2>2. T \in SUBSET Nat
    BY <1>1
  <2>3. PICK m \in T : \A k \in T : m <= k
    <3> HIDE DEF T
    <3> QED BY <2>1, <2>2, Least
  <2>4. m \in 1 .. N
    BY <1>1, <1>4, <1>9, <2>3
  <2>5. m - 1 \in 0 .. N /\ ~(m <= m - 1)
    BY <1>1, <2>4
  <2>6. after[m - 1] = g[m - 1]
    BY <2>3, <2>5
  <2>7. after[m] = Apply(past, after[m - 1], lines[m])
    BY <1>1, <1>9, <2>4
  <2>8. after[m] = g[m]
    BY <1>5, <2>4, <2>6, <2>7
  <2> QED
    BY <2>3, <2>8
<1>11. Replays(g, past, n, lines) /\ Replay(past, n, lines) = g[Len(lines)]
  BY <1>1, <1>4, <1>5, <1>8, <1>10 DEF Replays
<1> QED
  BY <1>11

-----------------------------------------------------------------------------
(* apply_command, field by field: what it does to claims, timers and        *)
(* members does not depend on the time.                                     *)

ActiveAfter(active, c) ==
  IF c.op = "ClaimRun"
    THEN IF \E a \in active : a.timer = c.claim.timer THEN active ELSE active \cup {c.claim}
    ELSE IF c.op \in {"CompleteRun", "FailRun"} THEN active \ {c.claim} ELSE active

FencingAfter(active, fencing, c) ==
  IF c.op = "ClaimRun" /\ ~\E a \in active : a.timer = c.claim.timer
    THEN [fencing EXCEPT ![c.claim.timer] = c.claim.token] ELSE fencing

\* The commands by their op.
LEMMA CommandIs ==
  ASSUME NEW c \in Command
  PROVE  \/ c.op = "CreateTimer" /\ c \in Request /\ c.timer \in Timers /\ c.kind \in Kinds
         \/ c.op = "RegisterWorker" /\ c \in Request /\ c.worker \in Workers
         \/ c.op \in {"AddNode", "RemoveNode"} /\ c \in Request /\ c.node \in Nodes
         \/ c.op \in {"ClaimRun", "CompleteRun", "FailRun"} /\ c.claim \in Claim
BY DEF Command, Request

\* A claim has the fields of a claim.
LEMMA ClaimIs ==
  ASSUME NEW k \in Claim
  PROVE  /\ k.timer \in Timers /\ k.run \in RunIds /\ k.worker \in Workers
         /\ k.token \in Nat /\ k.attempt \in Nat
BY DEF Claim

\* A list of peers without the one at some position.
LEMMA WithoutOne ==
  ASSUME NEW peers \in Seq(Nodes), NEW n \in ToSet(peers)
  PROVE  /\ Without(peers, n) \in Seq(Nodes)
         /\ ToSet(Without(peers, n)) \subseteq ToSet(peers)
         /\ (\A i, j \in 1 .. Len(peers) : peers[i] = peers[j] => i = j) =>
              \A i, j \in 1 .. Len(Without(peers, n)) :
                Without(peers, n)[i] = Without(peers, n)[j] => i = j
<1> DEFINE k == CHOOSE i \in 1 .. Len(peers) : peers[i] = n
           a == SubSeq(peers, 1, k - 1)
           b == SubSeq(peers, k + 1, Len(peers))
           w == a \o b
<1>1. Len(peers) \in Nat /\ DOMAIN peers = 1 .. Len(peers)
  OBVIOUS
<1>2. k \in 1 .. Len(peers)
  <2>1. \E i \in 1 .. Len(peers) : peers[i] = n
    BY <1>1 DEF ToSet
  <2> QED
    BY <2>1
<1> HIDE DEF k
<1>3. Without(peers, n) = w
  BY DEF Without, RemoveAt, k
<1>4. a \in Seq(Nodes) /\ Len(a) = k - 1 /\ \A i \in 1 .. (k - 1) : a[i] = peers[i]
  BY <1>1, <1>2
<1>5. b \in Seq(Nodes) /\ Len(b) = Len(peers) - k /\ \A i \in 1 .. (Len(peers) - k) : b[i] = peers[k + i]
  <2>1. k + 1 \in Int /\ Len(peers) \in Int /\ \A i \in (k + 1) .. Len(peers) : peers[i] \in Nodes
    BY <1>1, <1>2
  <2>2. /\ b \in Seq(Nodes)
        /\ Len(b) = IF k + 1 <= Len(peers) THEN Len(peers) - (k + 1) + 1 ELSE 0
        /\ \A i \in 1 .. (Len(peers) - (k + 1) + 1) : b[i] = peers[(k + 1) + i - 1]
    BY <2>1, SubSeqProperties
  <2>4. ASSUME NEW i \in 1 .. (Len(peers) - k) PROVE b[i] = peers[k + i]
    <3>1. i \in 1 .. (Len(peers) - (k + 1) + 1) /\ (k + 1) + i - 1 = k + i
      BY <1>1, <1>2
    <3>2. b[i] = peers[(k + 1) + i - 1]
      BY <2>2, <3>1
    <3> QED
      BY <3>1, <3>2
  <2>5. Len(b) = Len(peers) - k
    <3> HIDE DEF b
    <3>1. CASE k + 1 <= Len(peers)
      BY <1>1, <1>2, <2>2, <3>1
    <3>2. CASE ~(k + 1 <= Len(peers))
      <4>1. Len(b) = 0
        BY <2>2, <3>2
      <4>2. Len(peers) - k = 0
        <5>1. Len(peers) \in Nat /\ k \in Nat /\ k <= Len(peers)
          BY <1>1, <1>2
        <5> QED
          BY <3>2, <5>1
      <4> QED
        BY <4>1, <4>2
    <3> QED
      BY <3>1, <3>2
  <2> HIDE DEF b
  <2> QED
    BY <2>2, <2>4, <2>5
<1> HIDE DEF a, b
<1>6. w \in Seq(Nodes) /\ Len(w) = Len(peers) - 1
  <2>1. w \in Seq(Nodes) /\ Len(w) = Len(a) + Len(b)
    BY <1>4, <1>5, ConcatProperties
  <2> QED
    BY <1>1, <1>2, <1>4, <1>5, <2>1
<1>7. ASSUME NEW i \in 1 .. (Len(peers) - 1)
      PROVE  w[i] = peers[IF i < k THEN i ELSE i + 1]
  <2>1. CASE i < k
    BY <1>1, <1>2, <1>4, <1>5, <2>1
  <2>2. CASE ~(i < k)
    <3>1. w[i] = b[i - (k - 1)]
      BY <1>1, <1>2, <1>4, <1>5, <2>2
    <3>2. i - (k - 1) \in 1 .. (Len(peers) - k) /\ k + (i - (k - 1)) = i + 1
      BY <1>1, <1>2, <2>2
    <3> QED
      BY <1>5, <2>2, <3>1, <3>2
  <2> QED
    BY <2>1, <2>2
<1> HIDE DEF w
<1>8. \A i \in 1 .. (Len(peers) - 1) : (IF i < k THEN i ELSE i + 1) \in 1 .. Len(peers)
  BY <1>1, <1>2
<1>9. ToSet(w) \subseteq ToSet(peers)
  BY <1>1, <1>6, <1>7, <1>8 DEF ToSet
<1>10. ASSUME \A i, j \in 1 .. Len(peers) : peers[i] = peers[j] => i = j,
              NEW i \in 1 .. Len(w), NEW j \in 1 .. Len(w), w[i] = w[j]
       PROVE  i = j
  <2>1. (IF i < k THEN i ELSE i + 1) = (IF j < k THEN j ELSE j + 1)
    BY <1>6, <1>7, <1>8, <1>10
  <2> QED
    BY <1>2, <1>6, <2>1
<1> QED
  BY <1>3, <1>6, <1>9, <1>10

\* A state from its fields.
State(self, peers, timers, states, next, workers, pending, active, fencing) ==
  [self |-> self, peers |-> peers, timers |-> timers, states |-> states, next |-> next,
   workers |-> workers, pending |-> pending, active |-> active, fencing |-> fencing]

\* The fields of a state.
LEMMA StateIs ==
  ASSUME NEW s \in ClusterState
  PROVE  /\ s.self \in Nodes /\ s.peers \in Seq(Nodes)
         /\ s.timers \in [Timers -> Kinds \cup {"none"}]
         /\ s.states \in [Timers -> {"None", "Scheduled", "Running", "Retrying", "Dead"}]
         /\ s.next \in [Timers -> Kinds \cup {"due", "none"}]
         /\ s.workers \in [Workers -> {"absent", "live", "lapsed"}]
         /\ s.pending \in SUBSET Queued /\ s.active \in SUBSET Claim
         /\ s.fencing \in [Timers -> Nat]
         /\ s = State(s.self, s.peers, s.timers, s.states, s.next, s.workers, s.pending,
                      s.active, s.fencing)
BY DEF ClusterState, State

\* apply_command on every command: the fields it changes, and how.
LEMMA ApplyIs ==
  ASSUME NEW past, NEW s \in ClusterState, NEW c \in Command
  PROVE  /\ Apply(past, s, c) \in ClusterState
         /\ Apply(past, s, c).self = s.self
         /\ Apply(past, s, c).pending = s.pending
         /\ Apply(past, s, c).active = ActiveAfter(s.active, c)
         /\ Apply(past, s, c).fencing = FencingAfter(s.active, s.fencing, c)
         /\ Apply(past, s, c).timers = TimersAfter(s.timers, c)
         /\ Apply(past, s, c).peers = PeersAfter(s.self, s.peers, c)
<1> DEFINE r == Apply(past, s, c)
<1> USE DEF ActiveAfter, FencingAfter, TimersAfter, PeersAfter
<1>a. /\ s.self \in Nodes /\ s.peers \in Seq(Nodes)
      /\ s.timers \in [Timers -> Kinds \cup {"none"}]
      /\ s.states \in [Timers -> {"None", "Scheduled", "Running", "Retrying", "Dead"}]
      /\ s.next \in [Timers -> Kinds \cup {"due", "none"}]
      /\ s.workers \in [Workers -> {"absent", "live", "lapsed"}]
      /\ s.pending \in SUBSET Queued /\ s.active \in SUBSET Claim
      /\ s.fencing \in [Timers -> Nat]
  BY StateIs
<1>b. s = State(s.self, s.peers, s.timers, s.states, s.next, s.workers, s.pending,
                s.active, s.fencing)
  BY StateIs
<1>1. CASE c.op = "CreateTimer"
  <2>1. c.timer \in Timers /\ c.kind \in Kinds
    BY <1>1, CommandIs
  <2>2. r = ApplyCreateTimer(past, s, c.timer, c.kind)
    BY <1>1 DEF Apply
  <2> DEFINE at == NextRunAfter(past, c.kind)
             timers == [s.timers EXCEPT ![c.timer] = c.kind]
             states == [s.states EXCEPT ![c.timer] = "Scheduled"]
             next == [s.next EXCEPT ![c.timer] = IF at = "none" THEN @ ELSE at]
  <2>3. r = State(s.self, s.peers, timers, states, next, s.workers, s.pending, s.active, s.fencing)
    <3>1. r = [s EXCEPT !.timers = timers, !.states = states, !.next = next]
      BY <2>1, <2>2, <1>a DEF ApplyCreateTimer
    <3> HIDE DEF timers, states, next
    <3> QED
      BY <1>b, <3>1 DEF State
  <2>4. at \in Kinds \cup {"none"}
    BY <2>1 DEF NextRunAfter
  <2> HIDE DEF at
  <2>5. /\ timers \in [Timers -> Kinds \cup {"none"}]
        /\ states \in [Timers -> {"None", "Scheduled", "Running", "Retrying", "Dead"}]
        /\ next \in [Timers -> Kinds \cup {"due", "none"}]
    BY <2>1, <2>4, StateIs
  <2> HIDE DEF timers, states, next
  <2>6. /\ r \in ClusterState /\ r.self = s.self /\ r.pending = s.pending /\ r.active = s.active
        /\ r.fencing = s.fencing /\ r.timers = timers /\ r.peers = s.peers
    BY <2>3, <2>5, <1>a DEF State, ClusterState
  <2> QED
    BY <1>1, <2>6 DEF timers
<1>2. CASE c.op = "RegisterWorker"
  <2>1. c.worker \in Workers
    BY <1>2, CommandIs
  <2>2. r = [s EXCEPT !.workers[c.worker] = "live"]
    BY <1>2 DEF Apply
  <2> DEFINE workers == [s.workers EXCEPT ![c.worker] = "live"]
  <2>3. r = State(s.self, s.peers, s.timers, s.states, s.next, workers, s.pending, s.active, s.fencing)
    BY <2>1, <2>2, StateIs DEF State
  <2>4. workers \in [Workers -> {"absent", "live", "lapsed"}]
    BY <2>1, StateIs
  <2> HIDE DEF workers
  <2>5. /\ r \in ClusterState /\ r.self = s.self /\ r.pending = s.pending /\ r.active = s.active
        /\ r.fencing = s.fencing /\ r.timers = s.timers /\ r.peers = s.peers
    BY <2>3, <2>4, <1>a DEF State, ClusterState
  <2> QED
    BY <1>2, <2>5
<1>3. CASE c.op = "AddNode"
  <2>1. c.node \in Nodes
    BY <1>3, CommandIs
  <2>2. r = AddPeer(s, c.node)
    BY <1>3 DEF Apply
  <2>3. CASE c.node = s.self \/ c.node \in ToSet(s.peers)
    BY <1>3, <2>2, <2>3 DEF AddPeer
  <2>4. CASE ~(c.node = s.self \/ c.node \in ToSet(s.peers))
    <3> DEFINE peers == Append(s.peers, c.node)
    <3>1. r = [s EXCEPT !.peers = peers]
      BY <2>2, <2>4 DEF AddPeer
    <3>2. peers \in Seq(Nodes)
      BY <2>1, StateIs
    <3> HIDE DEF peers
    <3>3. PeersAfter(s.self, s.peers, c) = peers
      BY <1>3, <2>4 DEF peers
    <3> QED
      BY <1>3, <3>1, <3>2, <3>3 DEF ClusterState
  <2> QED
    BY <2>3, <2>4
<1>4. CASE c.op = "RemoveNode"
  <2>2. CASE c.node \notin ToSet(s.peers)
    <3>1. r = s
      BY <1>4, <2>2 DEF Apply
    <3> QED
      BY <1>4, <2>2, <3>1 DEF ClusterState
  <2>3. CASE c.node \in ToSet(s.peers)
    <3>1. s.peers \in Seq(Nodes)
      BY DEF ClusterState
    <3>2. r = [s EXCEPT !.peers = Without(s.peers, c.node)]
      BY <1>4, <2>3 DEF Apply, Without
    <3>3. Without(s.peers, c.node) \in Seq(Nodes)
      BY <2>3, <3>1, WithoutOne
    <3> QED
      BY <1>4, <2>3, <3>2, <3>3 DEF ClusterState
  <2> QED
    BY <2>2, <2>3
<1>5. CASE c.op = "ClaimRun"
  <2>1. c.claim \in Claim /\ c.claim.timer \in Timers /\ c.claim.token \in Nat
    BY <1>5, CommandIs, ClaimIs
  <2>2. r = ApplyClaim(s, c.claim)
    BY <1>5 DEF Apply
  <2>3. CASE ActiveOf(s, c.claim.timer) # {}
    BY <1>5, <2>2, <2>3 DEF ApplyClaim, ActiveOf
  <2>4. CASE ActiveOf(s, c.claim.timer) = {}
    <3>1. ~\E a \in s.active : a.timer = c.claim.timer
      BY <2>4 DEF ActiveOf
    <3>2. r = [s EXCEPT !.active = @ \cup {c.claim}, !.states[c.claim.timer] = "Running",
                        !.fencing[c.claim.timer] = c.claim.token]
      BY <2>2, <2>4 DEF ApplyClaim
    <3> DEFINE states == [s.states EXCEPT ![c.claim.timer] = "Running"]
               fencing == [s.fencing EXCEPT ![c.claim.timer] = c.claim.token]
    <3>3. r = State(s.self, s.peers, s.timers, states, s.next, s.workers, s.pending,
                    s.active \cup {c.claim}, fencing)
      <4> DEFINE active == s.active \cup {c.claim}
      <4>1. r = [s EXCEPT !.active = active, !.states = states, !.fencing = fencing]
        BY <2>1, <3>2, <1>a
      <4> HIDE DEF active, states, fencing
      <4>2. r = State(s.self, s.peers, s.timers, states, s.next, s.workers, s.pending, active, fencing)
        BY <1>b, <4>1 DEF State
      <4> QED
        BY <4>2 DEF active
    <3>4. /\ states \in [Timers -> {"None", "Scheduled", "Running", "Retrying", "Dead"}]
          /\ fencing \in [Timers -> Nat]
      BY <2>1, StateIs
    <3> HIDE DEF states, fencing
    <3>5. s.active \cup {c.claim} \in SUBSET Claim
      BY <2>1, StateIs
    <3>6. /\ r \in ClusterState /\ r.self = s.self /\ r.pending = s.pending
          /\ r.active = s.active \cup {c.claim}
          /\ r.fencing = fencing /\ r.timers = s.timers /\ r.peers = s.peers
      BY <3>3, <3>4, <3>5, <1>a DEF State, ClusterState
    <3> QED
      BY <1>5, <3>1, <3>6 DEF fencing
  <2> QED
    BY <2>3, <2>4
<1>6. CASE c.op = "CompleteRun" /\ c.claim \in s.active
  <2>1. c.claim \in Claim /\ c.claim.timer \in Timers
    BY <1>6, CommandIs, ClaimIs
  <2> DEFINE e == EndRun(s, c.claim, "Scheduled")
  <2>2. r = RescheduleTimer(past, e, c.claim.timer)
    BY <1>6 DEF Apply
  <2>3. /\ e \in ClusterState /\ e.self = s.self /\ e.pending = s.pending
        /\ e.active = s.active \ {c.claim} /\ e.fencing = s.fencing
        /\ e.timers = s.timers /\ e.peers = s.peers
    BY <2>1 DEF EndRun, ClusterState
  <2> HIDE DEF e
  <2>4. /\ r \in ClusterState /\ r.self = e.self /\ r.pending = e.pending
        /\ r.active = e.active /\ r.fencing = e.fencing
        /\ r.timers = e.timers /\ r.peers = e.peers
    <3>1. CASE e.timers[c.claim.timer] = "none"
      BY <2>2, <2>3, <3>1 DEF RescheduleTimer
    <3>2. CASE e.timers[c.claim.timer] # "none"
      <4> DEFINE next == [e.next EXCEPT ![c.claim.timer] =
                            NextRunAfter(past, e.timers[c.claim.timer])]
      <4>1. r = State(e.self, e.peers, e.timers, e.states, next, e.workers, e.pending, e.active, e.fencing)
        BY <2>1, <2>2, <2>3, <3>2, StateIs DEF RescheduleTimer, State
      <4>2. next \in [Timers -> Kinds \cup {"due", "none"}]
        BY <2>1, <2>3, StateIs DEF NextRunAfter
      <4> HIDE DEF next
      <4> QED
        BY <2>3, <4>1, <4>2, StateIs DEF State, ClusterState
    <3> QED
      BY <3>1, <3>2
  <2> QED
    BY <1>6, <2>3, <2>4
<1>7. CASE c.op = "FailRun" /\ c.claim \in s.active
  <2>1. c.claim \in Claim /\ c.claim.timer \in Timers
    BY <1>7, CommandIs, ClaimIs
  <2>2. r = EndRun(s, c.claim, "Dead")
    BY <1>7 DEF Apply
  <2> DEFINE states == [s.states EXCEPT ![c.claim.timer] = "Dead"]
  <2>3. r = State(s.self, s.peers, s.timers, states, s.next, s.workers, s.pending,
                  s.active \ {c.claim}, s.fencing)
    <3> DEFINE active == s.active \ {c.claim}
    <3>1. r = [s EXCEPT !.active = active, !.states = states]
      BY <2>1, <2>2, <1>a DEF EndRun
    <3> HIDE DEF active, states
    <3>2. r = State(s.self, s.peers, s.timers, states, s.next, s.workers, s.pending, active, s.fencing)
      BY <1>b, <3>1 DEF State
    <3> QED
      BY <3>2 DEF active
  <2>4. states \in [Timers -> {"None", "Scheduled", "Running", "Retrying", "Dead"}]
    BY <2>1, StateIs
  <2> HIDE DEF states
  <2>5. s.active \ {c.claim} \in SUBSET Claim
    BY StateIs
  <2>6. /\ r \in ClusterState /\ r.self = s.self /\ r.pending = s.pending
        /\ r.active = s.active \ {c.claim}
        /\ r.fencing = s.fencing /\ r.timers = s.timers /\ r.peers = s.peers
    BY <2>3, <2>4, <2>5, <1>a DEF State, ClusterState
  <2> QED
    BY <1>7, <2>6
<1>8. CASE c.op \in {"CompleteRun", "FailRun"} /\ c.claim \notin s.active
  <2>1. r = s
    BY <1>8 DEF Apply
  <2>2. s.active \ {c.claim} = s.active
    BY <1>8
  <2> QED
    BY <1>8, <2>1, <2>2
<1> QED
  BY <1>1, <1>2, <1>3, <1>4, <1>5, <1>6, <1>7, <1>8, CommandIs

\* An added peer is another node and new; a removed one leaves no second.
LEMMA PeersStayOnce ==
  ASSUME NEW self \in Nodes, NEW peers \in Seq(Nodes), NEW c \in Command,
         self \notin ToSet(peers),
         \A i, j \in 1 .. Len(peers) : peers[i] = peers[j] => i = j
  PROVE  LET p == PeersAfter(self, peers, c) IN
         /\ self \notin ToSet(p)
         /\ \A i, j \in 1 .. Len(p) : p[i] = p[j] => i = j
<1> DEFINE p == PeersAfter(self, peers, c)
<1>1. CASE c.op = "AddNode" /\ c.node # self /\ c.node \notin ToSet(peers)
  <2>1. c.node \in Nodes
    BY <1>1, CommandIs
  <2>2. p = Append(peers, c.node)
    BY <1>1 DEF PeersAfter
  <2>3. /\ p \in Seq(Nodes) /\ Len(p) = Len(peers) + 1 /\ p[Len(peers) + 1] = c.node
        /\ \A i \in 1 .. Len(peers) : p[i] = peers[i]
    BY <2>1, <2>2
  <2> HIDE DEF p
  <2>4. \A i \in 1 .. Len(peers) : peers[i] # self /\ peers[i] # c.node
    BY <1>1 DEF ToSet
  <2>5. \A i \in 1 .. Len(p) : p[i] # self
    BY <1>1, <2>3, <2>4
  <2>6. ASSUME NEW i \in 1 .. Len(p), NEW j \in 1 .. Len(p), p[i] = p[j] PROVE i = j
    BY <2>3, <2>4, <2>6
  <2>7. self \notin ToSet(p)
    BY <2>3, <2>5 DEF ToSet
  <2> QED
    BY <2>6, <2>7 DEF p
<1>2. CASE c.op = "RemoveNode" /\ c.node \in ToSet(peers)
  <2>1. p = Without(peers, c.node)
    BY <1>2 DEF PeersAfter
  <2> QED
    BY <1>2, <2>1, WithoutOne
<1>3. CASE p = peers
  BY <1>3
<1> QED
  BY <1>1, <1>2, <1>3 DEF PeersAfter

\* What a node has after open(): its members once, at most one claim per timer
\* and no queue.
Restored(n) ==
  {s \in ClusterState : s.self = n /\ s.pending = {} /\ PeersOnce(s) /\ OneActive(s)}

\* ... and before a claim was ever written.
Unclaimed == {s \in ClusterState : s.active = {}}

\* A new node has neither runs nor peers.
LEMMA FreshRestored ==
  ASSUME NEW n \in Nodes
  PROVE  Fresh(n) \in Restored(n) /\ Fresh(n) \in Unclaimed
<1>1. Fresh(n) \in ClusterState
  BY DEF Fresh, ClusterState
<1>2. /\ Fresh(n).self = n /\ Fresh(n).pending = {} /\ Fresh(n).active = {}
      /\ Fresh(n).peers = << >>
  BY DEF Fresh
<1>3. PeersOnce(Fresh(n))
  BY <1>2 DEF PeersOnce, ToSet
<1> QED
  BY <1>1, <1>2, <1>3 DEF Restored, Unclaimed, OneActive

\* apply_command keeps a replayed state a replayed state ...
LEMMA ApplyRestored ==
  ASSUME NEW past, NEW n \in Nodes, NEW s \in Restored(n), NEW c \in Command
  PROVE  Apply(past, s, c) \in Restored(n)
<1> DEFINE r == Apply(past, s, c)
<1>1. s \in ClusterState /\ s.self = n /\ s.pending = {} /\ PeersOnce(s) /\ OneActive(s)
  BY DEF Restored
<1>2. /\ r \in ClusterState /\ r.self = n /\ r.pending = {}
      /\ r.active = ActiveAfter(s.active, c) /\ r.peers = PeersAfter(s.self, s.peers, c)
  BY <1>1, ApplyIs
<1> HIDE DEF r
<1>3. PeersOnce(r)
  <2>1. s.peers \in Seq(Nodes) /\ s.self \in Nodes
    BY <1>1, StateIs
  <2> QED
    BY <1>1, <1>2, <2>1, PeersStayOnce DEF PeersOnce
<1>4. OneActive(r)
  BY <1>1, <1>2 DEF OneActive, ActiveAfter
<1>5. r \in Restored(n)
  BY <1>1, <1>2, <1>3, <1>4 DEF Restored
<1> QED
  BY <1>5 DEF r

\* ... and a request brings no claim.
LEMMA ApplyUnclaimed ==
  ASSUME NEW past, NEW n \in Nodes, NEW s \in Unclaimed, NEW c \in Request
  PROVE  Apply(past, s, c) \in Unclaimed
<1>1. c \in Command
  BY DEF Command
<1>2. c.op \notin {"ClaimRun", "CompleteRun", "FailRun"}
  BY DEF Request
<1>3. s \in ClusterState /\ s.active = {}
  BY DEF Unclaimed
<1>4. Apply(past, s, c) \in ClusterState /\ Apply(past, s, c).active = ActiveAfter(s.active, c)
  BY <1>1, <1>3, ApplyIs
<1>5. ActiveAfter(s.active, c) = {}
  BY <1>2, <1>3 DEF ActiveAfter
<1> QED
  BY <1>4, <1>5 DEF Unclaimed

\* open() on any log gives a restored state.
LEMMA ReplayIs ==
  ASSUME NEW past, NEW n \in Nodes, NEW lines \in Seq(Command)
  PROVE  Replay(past, n, lines) \in Restored(n)
<1>1. PICK g \in [0 .. Len(lines) -> Restored(n)] :
        Replays(g, past, n, lines) /\ Replay(past, n, lines) = g[Len(lines)]
  BY FreshRestored, ApplyRestored, ReplayRuns
<1>2. Len(lines) \in 0 .. Len(lines)
  OBVIOUS
<1> QED
  BY <1>1, <1>2

\* A log of requests alone gives back no claims.
LEMMA ReplayUnclaimed ==
  ASSUME NEW past, NEW n \in Nodes, NEW lines \in Seq(Request)
  PROVE  Replay(past, n, lines).active = {}
<1>1. PICK g \in [0 .. Len(lines) -> Unclaimed] :
        Replays(g, past, n, lines) /\ Replay(past, n, lines) = g[Len(lines)]
  BY FreshRestored, ApplyUnclaimed, ReplayRuns
<1>2. Len(lines) \in 0 .. Len(lines)
  OBVIOUS
<1> QED
  BY <1>1, <1>2 DEF Unclaimed

\* One more line is one more command applied.
LEMMA ReplayAppend ==
  ASSUME NEW past, NEW n \in Nodes, NEW lines \in Seq(Command), NEW c \in Command
  PROVE  Replay(past, n, Append(lines, c)) = Apply(past, Replay(past, n, lines), c)
<1> DEFINE more == Append(lines, c)
           N == Len(lines)
<1>1. /\ N \in Nat /\ more \in Seq(Command) /\ Len(more) = N + 1 /\ more[N + 1] = c
      /\ \A i \in 1 .. N : more[i] = lines[i]
  OBVIOUS
<1> HIDE DEF more
<1>2. PICK g \in [0 .. Len(lines) -> Restored(n)] :
        Replays(g, past, n, lines) /\ Replay(past, n, lines) = g[Len(lines)]
  BY FreshRestored, ApplyRestored, ReplayRuns
<1>3. PICK h \in [0 .. Len(more) -> Restored(n)] :
        Replays(h, past, n, more) /\ Replay(past, n, more) = h[Len(more)]
  BY <1>1, FreshRestored, ApplyRestored, ReplayRuns
<1>4. g[0] = Fresh(n) /\ h[0] = Fresh(n)
  BY <1>2, <1>3 DEF Replays
<1>5. ASSUME NEW i \in 1 .. N
      PROVE  /\ g[i] = Apply(past, g[i - 1], lines[i])
             /\ h[i] = Apply(past, h[i - 1], lines[i])
  BY <1>1, <1>2, <1>3 DEF Replays
<1>6. h[N + 1] = Apply(past, h[N], c)
  BY <1>1, <1>3 DEF Replays
<1> HIDE DEF N
<1>7. \A i \in 0 .. N : h[i] = g[i]
  <2> DEFINE T == {i \in 0 .. N : h[i] # g[i]}
  <2>1. SUFFICES ASSUME T # {} PROVE FALSE
    OBVIOUS
  <2>2. T \in SUBSET Nat
    BY <1>1
  <2>3. PICK m \in T : \A k \in T : m <= k
    <3> HIDE DEF T
    <3> QED BY <2>1, <2>2, Least
  <2>4. m \in 1 .. N
    BY <1>1, <1>4, <2>3
  <2>5. m - 1 \in 0 .. N /\ ~(m <= m - 1)
    BY <1>1, <2>4
  <2>6. h[m - 1] = g[m - 1]
    BY <2>3, <2>5
  <2>7. h[m] = g[m]
    BY <1>5, <2>4, <2>6
  <2> QED
    BY <2>3, <2>7
<1>8. h[N] = g[N]
  BY <1>1, <1>7
<1> QED
  BY <1>1, <1>2, <1>3, <1>6, <1>8 DEF N, more

\* What does not depend on when a log is replayed.
SameClaims(r, s) == r.active = s.active /\ r.fencing = s.fencing

\* What is replayed of claims, timers and members is the same at any time.
LEMMA ReplayTimeless ==
  ASSUME NEW p, NEW q, NEW n \in Nodes, NEW lines \in Seq(Command)
  PROVE  /\ SameClaims(Replay(p, n, lines), Replay(q, n, lines))
         /\ SameMembers(Replay(p, n, lines), Replay(q, n, lines))
<1> DEFINE N == Len(lines)
           Same(r, s) == SameClaims(r, s) /\ SameMembers(r, s)
<1>1. N \in Nat /\ \A i \in 1 .. N : lines[i] \in Command
  OBVIOUS
<1>2. PICK g \in [0 .. Len(lines) -> Restored(n)] :
        Replays(g, p, n, lines) /\ Replay(p, n, lines) = g[Len(lines)]
  BY FreshRestored, ApplyRestored, ReplayRuns
<1>3. PICK h \in [0 .. Len(lines) -> Restored(n)] :
        Replays(h, q, n, lines) /\ Replay(q, n, lines) = h[Len(lines)]
  BY FreshRestored, ApplyRestored, ReplayRuns
<1>4. Same(g[0], h[0])
  BY <1>2, <1>3 DEF Replays, SameClaims, SameMembers
<1>5. ASSUME NEW i \in 1 .. N
      PROVE  /\ g[i] = Apply(p, g[i - 1], lines[i]) /\ g[i - 1] \in Restored(n)
             /\ h[i] = Apply(q, h[i - 1], lines[i]) /\ h[i - 1] \in Restored(n)
  BY <1>1, <1>2, <1>3 DEF Replays
<1> HIDE DEF N, Same
<1>6. ASSUME NEW i \in 1 .. N, Same(g[i - 1], h[i - 1])
      PROVE  Same(g[i], h[i])
  <2> DEFINE a == g[i - 1]
             b == h[i - 1]
             c == lines[i]
  <2>1. a \in ClusterState /\ b \in ClusterState /\ a.self = n /\ b.self = n /\ c \in Command
    BY <1>1, <1>5 DEF Restored
  <2>2. g[i] = Apply(p, a, c) /\ h[i] = Apply(q, b, c)
    BY <1>5
  <2>3. Same(a, b)
    BY <1>6
  <2> HIDE DEF a, b, c
  <2>4. /\ g[i].active = ActiveAfter(a.active, c)
        /\ g[i].fencing = FencingAfter(a.active, a.fencing, c)
        /\ g[i].timers = TimersAfter(a.timers, c)
        /\ g[i].peers = PeersAfter(a.self, a.peers, c)
    BY <2>1, <2>2, ApplyIs
  <2>5. /\ h[i].active = ActiveAfter(b.active, c)
        /\ h[i].fencing = FencingAfter(b.active, b.fencing, c)
        /\ h[i].timers = TimersAfter(b.timers, c)
        /\ h[i].peers = PeersAfter(b.self, b.peers, c)
    BY <2>1, <2>2, ApplyIs
  <2> QED
    BY <2>1, <2>3, <2>4, <2>5 DEF Same, SameClaims, SameMembers
<1>7. \A i \in 0 .. N : Same(g[i], h[i])
  <2> DEFINE T == {i \in 0 .. N : ~Same(g[i], h[i])}
  <2>1. SUFFICES ASSUME T # {} PROVE FALSE
    OBVIOUS
  <2>2. T \in SUBSET Nat
    BY <1>1
  <2>3. PICK m \in T : \A k \in T : m <= k
    <3> HIDE DEF T
    <3> QED BY <2>1, <2>2, Least
  <2>4. m \in 1 .. N
    BY <1>1, <1>4, <2>3
  <2>5. m - 1 \in 0 .. N /\ ~(m <= m - 1)
    BY <1>1, <2>4
  <2>6. Same(g[m - 1], h[m - 1])
    BY <2>3, <2>5
  <2>7. Same(g[m], h[m])
    BY <1>6, <2>4, <2>6
  <2> QED
    BY <2>3, <2>7
<1>8. Same(g[N], h[N])
  BY <1>1, <1>7
<1> QED
  BY <1>2, <1>3, <1>8 DEF N, Same

-----------------------------------------------------------------------------
(* What the other changes do to a state                                    *)

\* Everything but workers, occurrences and states of timers.
SameRuns(r, s) ==
  /\ r \in ClusterState
  /\ r.self = s.self /\ r.peers = s.peers /\ r.timers = s.timers
  /\ r.pending = s.pending /\ r.active = s.active /\ r.fencing = s.fencing

\* A worker's lease begins or ends.
LEMMA WorkerChange ==
  ASSUME NEW s \in ClusterState, NEW w \in Workers, NEW v \in {"absent", "live", "lapsed"}
  PROVE  SameRuns([s EXCEPT !.workers[w] = v], s)
<1> DEFINE workers == [s.workers EXCEPT ![w] = v]
           r == [s EXCEPT !.workers[w] = v]
<1>1. workers \in [Workers -> {"absent", "live", "lapsed"}]
  BY StateIs
<1>2. r = State(s.self, s.peers, s.timers, s.states, s.next, workers, s.pending, s.active, s.fencing)
  BY StateIs DEF State
<1> HIDE DEF workers, r
<1>3. SameRuns(r, s)
  BY <1>1, <1>2, StateIs DEF State, ClusterState, SameRuns
<1> QED
  BY <1>3 DEF r

\* Occurrences come.
LEMMA OccurrenceChange ==
  ASSUME st \in [Nodes -> ClusterState], NEW ts, NEW at, FallDue(ts, at), NEW n \in Nodes
  PROVE  SameRuns(st'[n], st[n])
<1> DEFINE s == st[n]
           next == [t \in Timers |-> IF t \in ts /\ s.next[t] = at THEN "due" ELSE s.next[t]]
           r == st'[n]
<1>1. s \in ClusterState
  OBVIOUS
<1>2. r = [s EXCEPT !.next = next]
  BY DEF FallDue
<1> HIDE DEF s, r
<1>3. next \in [Timers -> Kinds \cup {"due", "none"}]
  BY <1>1, StateIs
<1> HIDE DEF next
<1>4. s = State(s.self, s.peers, s.timers, s.states, s.next, s.workers, s.pending,
                s.active, s.fencing)
  BY <1>1, StateIs
<1>5. r = State(s.self, s.peers, s.timers, s.states, next, s.workers, s.pending, s.active, s.fencing)
  BY <1>2, <1>4 DEF State
<1>6. SameRuns(r, s)
  BY <1>1, <1>3, <1>5, StateIs DEF State, ClusterState, SameRuns
<1> QED
  BY <1>6 DEF r, s

\* The members, timers and tokens of a node.
SameFrame(r, s) ==
  r \in ClusterState /\ r.self = s.self /\ r.peers = s.peers /\ r.timers = s.timers

RunClaimed(r, s, q, k) ==
  /\ k \in Claim /\ k.timer = q.timer /\ k.run = q.run /\ k.token = q.token
  /\ SameFrame(r, s) /\ r.fencing = s.fencing
  /\ r.pending = s.pending \ {q} /\ r.active = s.active \cup {k}

\* claim_pending_for moves a run from the queue to its worker.
LEMMA ClaimChange ==
  ASSUME NEW s \in ClusterState, NEW q \in s.pending, NEW w \in Workers
  PROVE  RunClaimed([s EXCEPT !.pending = @ \ {q}, !.active = @ \cup {ClaimFor(q, w)},
                              !.states[q.timer] = "Running"],
                    s, q, ClaimFor(q, w))
<1> DEFINE k == ClaimFor(q, w)
           pending == s.pending \ {q}
           active == s.active \cup {k}
           states == [s.states EXCEPT ![q.timer] = "Running"]
           r == [s EXCEPT !.pending = @ \ {q}, !.active = @ \cup {k}, !.states[q.timer] = "Running"]
<1>1. q \in Queued /\ q.timer \in Timers
  BY StateIs DEF Queued
<1>2. k \in Claim /\ k.timer = q.timer /\ k.run = q.run /\ k.token = q.token
  BY <1>1 DEF ClaimFor, Claim, Queued
<1> HIDE DEF k
<1>3. /\ states \in [Timers -> {"None", "Scheduled", "Running", "Retrying", "Dead"}]
      /\ pending \in SUBSET Queued /\ active \in SUBSET Claim
  BY <1>1, <1>2, StateIs
<1>4. r = State(s.self, s.peers, s.timers, states, s.next, s.workers, pending, active, s.fencing)
  <2>1. r = [s EXCEPT !.pending = pending, !.active = active, !.states = states]
    BY <1>1, StateIs
  <2> HIDE DEF r, pending, active, states
  <2>2. s = State(s.self, s.peers, s.timers, s.states, s.next, s.workers, s.pending,
                  s.active, s.fencing)
    BY StateIs
  <2> QED
    BY <2>1, <2>2 DEF State
<1> HIDE DEF r, pending, active, states
<1>5. SameFrame(r, s) /\ r.fencing = s.fencing /\ r.pending = pending /\ r.active = active
  BY <1>3, <1>4, StateIs DEF State, ClusterState, SameFrame
<1>6. RunClaimed(r, s, q, k)
  BY <1>2, <1>5 DEF pending, active, RunClaimed
<1> QED
  BY <1>6 DEF k, r

RunEnded(r, s, k) ==
  /\ SameFrame(r, s) /\ r.fencing = s.fencing
  /\ r.pending = s.pending /\ r.active = s.active \ {k}

\* complete_run and fail_run end a run.
LEMMA EndChange ==
  ASSUME NEW s \in ClusterState, NEW k \in s.active, NEW past,
         NEW v \in {"Scheduled", "Dead"},
         NEW r, r \in {EndRun(s, k, v), RescheduleTimer(past, EndRun(s, k, v), k.timer)}
  PROVE  RunEnded(r, s, k)
<1> USE DEF RunEnded
<1> DEFINE active == s.active \ {k}
           states == [s.states EXCEPT ![k.timer] = v]
           e == EndRun(s, k, v)
<1>1. k.timer \in Timers
  BY StateIs, ClaimIs
<1>2. /\ states \in [Timers -> {"None", "Scheduled", "Running", "Retrying", "Dead"}]
      /\ active \in SUBSET Claim
  BY <1>1, StateIs
<1>3. e = State(s.self, s.peers, s.timers, states, s.next, s.workers, s.pending, active, s.fencing)
  <2>1. e = [s EXCEPT !.active = active, !.states = states]
    BY <1>1, StateIs DEF EndRun
  <2> HIDE DEF e, active, states
  <2>2. s = State(s.self, s.peers, s.timers, s.states, s.next, s.workers, s.pending,
                  s.active, s.fencing)
    BY StateIs
  <2> QED
    BY <2>1, <2>2 DEF State
<1> HIDE DEF e, active, states
<1>4. SameFrame(e, s) /\ e.fencing = s.fencing /\ e.pending = s.pending /\ e.active = active
  BY <1>2, <1>3, StateIs DEF State, ClusterState, SameFrame
<1>5. CASE r = e
  BY <1>4, <1>5 DEF active
<1>6. CASE r = RescheduleTimer(past, e, k.timer)
  <2>1. CASE e.timers[k.timer] = "none"
    BY <1>4, <1>6, <2>1 DEF RescheduleTimer, active
  <2>2. CASE e.timers[k.timer] # "none"
    <3> DEFINE next == [e.next EXCEPT ![k.timer] = NextRunAfter(past, e.timers[k.timer])]
    <3>1. e \in ClusterState
      BY <1>4 DEF SameFrame
    <3>2. next \in [Timers -> Kinds \cup {"due", "none"}]
      BY <1>1, <3>1, StateIs DEF NextRunAfter
    <3>3. r = State(e.self, e.peers, e.timers, e.states, next, e.workers, e.pending, e.active, e.fencing)
      <4>1. r = [e EXCEPT !.next = next]
        BY <1>1, <1>6, <2>2, <3>1, StateIs DEF RescheduleTimer
      <4> HIDE DEF next
      <4>2. e = State(e.self, e.peers, e.timers, e.states, e.next, e.workers, e.pending,
                      e.active, e.fencing)
        BY <3>1, StateIs
      <4> QED
        BY <4>1, <4>2 DEF State
    <3> HIDE DEF next
    <3>4. SameRuns(r, e)
      BY <3>1, <3>2, <3>3, StateIs DEF State, ClusterState, SameRuns
    <3> QED
      BY <1>4, <3>4 DEF SameRuns, SameFrame, active
  <2> QED
    BY <2>1, <2>2
<1> QED
  BY <1>5, <1>6 DEF e

\* What a run that was taken back is queued as.
Retaken(s, again) == {Requeued(s, a) : a \in again}

Advanced(fencing, ts) == [t \in Timers |-> fencing[t] + (IF t \in ts THEN 1 ELSE 0)]

\* expire_workers takes runs back and queues some of them again.
LEMMA ExpireChange ==
  ASSUME NEW s \in ClusterState
  PROVE  \E again \in SUBSET s.active :
           LET r == ExpireWorkers(s) IN
           /\ SameFrame(r, s)
           /\ r.active \subseteq s.active /\ again \cap r.active = {}
           /\ r.pending = s.pending \cup Retaken(s, again)
           /\ r.fencing = Advanced(s.fencing, {a.timer : a \in again})
<1> DEFINE workers == [w \in Workers |-> IF s.workers[w] = "lapsed" THEN "absent"
                                         ELSE s.workers[w]]
           expired == Expired(s, workers)
           known == {a \in expired : s.timers[a.timer] # "none"}
           spent == {a.timer : a \in {b \in known : b.attempt >= MaxAttempts}}
           again == {a \in known : a.attempt < MaxAttempts}
           retried == {a.timer : a \in again}
           active == s.active \ expired
           pending == s.pending \cup {Requeued(s, a) : a \in again}
           fencing == [t \in Timers |-> s.fencing[t] + (IF t \in retried THEN 1 ELSE 0)]
           states == [t \in Timers |-> IF t \in retried THEN "Retrying"
                                       ELSE IF t \in spent THEN "Dead" ELSE s.states[t]]
           r == ExpireWorkers(s)
<1>1. expired \subseteq s.active
  BY DEF Expired
<1>2. again \subseteq s.active /\ again \subseteq expired
  BY <1>1
<1>3. r = [s EXCEPT !.workers = workers, !.active = active, !.pending = pending,
                    !.fencing = fencing, !.states = states]
  <2> HIDE DEF expired
  <2> QED
    BY StateIs DEF ExpireWorkers, expired
<1>4. workers \in [Workers -> {"absent", "live", "lapsed"}]
  BY StateIs
<1>5. active \in SUBSET Claim
  BY StateIs
<1>6. pending \in SUBSET Queued
  <2>1. \A a \in again : Requeued(s, a) \in Queued
    <3> SUFFICES ASSUME NEW a \in again PROVE Requeued(s, a) \in Queued
      OBVIOUS
    <3>1. a \in Claim
      BY <1>2, StateIs
    <3>2. a.timer \in Timers /\ a.run \in RunIds /\ a.attempt + 1 \in Nat
      BY <3>1, ClaimIs
    <3>3. s.fencing[a.timer] + 1 \in Nat
      BY <3>2, StateIs
    <3> HIDE DEF again
    <3> QED
      BY <3>2, <3>3 DEF Requeued, Queued
  <2>2. s.pending \in SUBSET Queued
    BY StateIs
  <2> HIDE DEF again
  <2> QED
    BY <2>1, <2>2
<1> HIDE DEF retried
<1>7. fencing \in [Timers -> Nat]
  BY StateIs
<1> HIDE DEF spent
<1>8. states \in [Timers -> {"None", "Scheduled", "Running", "Retrying", "Dead"}]
  BY StateIs
<1> HIDE DEF r, workers, active, pending, fencing, states, expired, known, again
<1>9. r = State(s.self, s.peers, s.timers, states, s.next, workers, pending, active, fencing)
  <2>1. s = State(s.self, s.peers, s.timers, s.states, s.next, s.workers, s.pending,
                  s.active, s.fencing)
    BY StateIs
  <2> QED
    BY <1>3, <2>1 DEF State
<1>10. SameFrame(r, s) /\ r.active = active /\ r.pending = pending /\ r.fencing = fencing
  BY <1>4, <1>5, <1>6, <1>7, <1>8, <1>9, StateIs DEF State, ClusterState, SameFrame
<1>11. r.active \subseteq s.active /\ again \cap r.active = {}
  BY <1>2, <1>10 DEF active
<1>12. r.pending = s.pending \cup Retaken(s, again)
  BY <1>10 DEF pending, Retaken
<1>13. r.fencing = Advanced(s.fencing, {a.timer : a \in again})
  BY <1>10 DEF fencing, retried, Advanced
<1> QED
  BY <1>2, <1>10, <1>11, <1>12, <1>13 DEF r

Drawn(id, due) ==
  {[timer |-> t, run |-> id[t], token |-> S.fencing[t] + 1, attempt |-> 1] : t \in due}

\* enqueue_due_runs queues one new run for each of some startable timers.
LEMMA EnqueueChange ==
  ASSUME TypeOK, EnqueueDueRuns
  PROVE  \E due \in SUBSET Startable : \E id \in [due -> RunIds] :
           LET r == st'[Leader] IN
           /\ st' = [st EXCEPT ![Leader] = r]
           /\ lastRun' \in Nat /\ lastRun <= lastRun'
           /\ \A t \in due : lastRun < id[t] /\ id[t] <= lastRun'
           /\ \A t, u \in due : id[t] = id[u] => t = u
           /\ SameFrame(r, S) /\ r.active = S.active
           /\ r.pending = S.pending \cup Drawn(id, due)
           /\ r.fencing = Advanced(S.fencing, due)
<1> DEFINE due == IF lastRun + Cardinality(Startable) <= MaxRuns /\ Room(Cardinality(Startable))
                    THEN Startable ELSE {}
           N == Cardinality(due)
           Token(t) == S.fencing[t] + 1
<1>1. Leader \in Nodes /\ MaxRuns \in Nat /\ IsFiniteSet(Timers)
  BY ClusterAssumption
<1>2. S \in ClusterState /\ lastRun \in Nat
  BY <1>1 DEF TypeOK, S
<1>3. due \subseteq Startable /\ Startable \subseteq Timers
  BY DEF Startable
<1>4. IsFiniteSet(Startable) /\ Cardinality(Startable) \in Nat
  BY <1>1, <1>3, FS_Subset, FS_CardinalityType
<1>5. N \in Nat /\ (lastRun + N <= MaxRuns \/ (N = 0 /\ due = {}))
  <2>1. CASE lastRun + Cardinality(Startable) <= MaxRuns /\ Room(Cardinality(Startable))
    <3>1. due = Startable
      BY <2>1
    <3>2. N = Cardinality(Startable)
      BY <3>1
    <3>3. lastRun + N <= MaxRuns
      BY <2>1, <3>2
    <3> HIDE DEF N, due
    <3> QED
      BY <1>4, <3>2, <3>3
  <2>2. CASE ~(lastRun + Cardinality(Startable) <= MaxRuns /\ Room(Cardinality(Startable)))
    <3>1. due = {}
      BY <2>2
    <3> QED
      BY <3>1, FS_EmptySet
  <2> QED
    BY <2>1, <2>2
<1>6. PICK id \in Bijection(due, lastRun + 1 .. lastRun + N) :
        Put(Leader,
            [S EXCEPT !.pending = @ \cup {[timer |-> t, run |-> id[t], token |-> Token(t),
                                           attempt |-> 1] : t \in due},
                      !.fencing = [t \in Timers |-> IF t \in due THEN Token(t) ELSE @[t]],
                      !.states = [t \in Timers |-> IF t \in due THEN "Scheduled" ELSE @[t]]])
  BY DEF EnqueueDueRuns
<1>7. lastRun' = lastRun + N
  BY DEF EnqueueDueRuns
<1> HIDE DEF N
<1>8. /\ id \in [due -> lastRun + 1 .. lastRun + N]
      /\ \A t, u \in due : id[t] = id[u] => t = u
  BY <1>6 DEF Bijection, Injection, IsInjective
<1>9. \A t \in due : id[t] \in RunIds /\ lastRun < id[t] /\ id[t] <= lastRun'
  BY <1>1, <1>2, <1>5, <1>7, <1>8 DEF RunIds
<1>10. id \in [due -> RunIds]
  BY <1>8, <1>9
<1> HIDE DEF due
<1> DEFINE pending == S.pending \cup Drawn(id, due)
           fencing == [t \in Timers |-> IF t \in due THEN Token(t) ELSE S.fencing[t]]
           states == [t \in Timers |-> IF t \in due THEN "Scheduled" ELSE S.states[t]]
           r == [S EXCEPT !.pending = pending, !.fencing = fencing, !.states = states]
<1>11. Put(Leader, r)
  BY <1>6 DEF Drawn
<1>12. \A t \in due : t \in Timers /\ S.fencing[t] + 1 \in Nat
  BY <1>2, <1>3, StateIs
<1>13. Drawn(id, due) \in SUBSET Queued
  BY <1>9, <1>12 DEF Drawn, Queued
<1>14. pending \in SUBSET Queued
  BY <1>2, <1>13, StateIs
<1>15. fencing \in [Timers -> Nat] /\ fencing = Advanced(S.fencing, due)
  BY <1>2, <1>12, StateIs DEF Advanced
<1>16. states \in [Timers -> {"None", "Scheduled", "Running", "Retrying", "Dead"}]
  BY <1>2, StateIs
<1> HIDE DEF pending, fencing, states, r
<1>17. r = State(S.self, S.peers, S.timers, states, S.next, S.workers, pending, S.active, fencing)
  <2>1. PICK s \in ClusterState : s = S
    BY <1>2
  <2>2. s = State(s.self, s.peers, s.timers, s.states, s.next, s.workers, s.pending,
                  s.active, s.fencing)
    BY StateIs
  <2>3. r = [s EXCEPT !.pending = pending, !.fencing = fencing, !.states = states]
    BY <2>1 DEF r
  <2>4. r = State(s.self, s.peers, s.timers, states, s.next, s.workers, pending, s.active, fencing)
    BY <2>2, <2>3 DEF State
  <2> QED
    BY <2>1, <2>4
<1>18. SameFrame(r, S) /\ r.active = S.active /\ r.pending = pending /\ r.fencing = fencing
  BY <1>2, <1>14, <1>15, <1>16, <1>17, StateIs DEF State, ClusterState, SameFrame
<1>19. st' = [st EXCEPT ![Leader] = r] /\ st'[Leader] = r
  BY <1>1, <1>11 DEF TypeOK, Put
<1> HIDE DEF due
<1>20. lastRun' \in Nat /\ lastRun <= lastRun'
  BY <1>2, <1>5, <1>7
<1>21. r.pending = S.pending \cup Drawn(id, due) /\ r.fencing = Advanced(S.fencing, due)
  BY <1>15, <1>18 DEF pending
<1> QED
  BY <1>3, <1>8, <1>9, <1>10, <1>18, <1>19, <1>20, <1>21

-----------------------------------------------------------------------------
(* Types                                                                   *)

\* One node's state is replaced, one node's log gets a line.
LEMMA PutType ==
  ASSUME TypeOK, NEW n \in Nodes, NEW s \in ClusterState, Put(n, s)
  PROVE  /\ st' \in [Nodes -> ClusterState] /\ st'[n] = s
         /\ \A m \in Nodes \ {n} : st'[m] = st[m]
BY DEF TypeOK, Put

\* append_command on one node.
LEMMA AppendType ==
  ASSUME TypeOK, NEW n \in Nodes, NEW c \in Command, AppendCommand(n, c)
  PROVE  /\ log' \in [Nodes -> Seq(Command)] /\ log'[n] = Append(log[n], c)
         /\ \A m \in Nodes \ {n} : log'[m] = log[m]
<1>1. log \in [Nodes -> Seq(Command)] /\ log' = [log EXCEPT ![n] = Append(log[n], c)]
  BY DEF TypeOK, AppendCommand
<1>2. Append(log[n], c) \in Seq(Command)
  BY <1>1
<1> QED
  BY <1>1, <1>2

\* The fields of a call.
LEMMA CallIs ==
  ASSUME NEW x \in Call
  PROVE  /\ x.pc \in {"idle", "replicate", "sent", "logged"} /\ x.cmd \in Request \cup {NoRequest}
         /\ x.todo \in Seq(Nodes) /\ x.acks \in Nat /\ x.nodes \in SUBSET Nodes
         /\ x = [pc |-> x.pc, cmd |-> x.cmd, todo |-> x.todo, acks |-> x.acks, nodes |-> x.nodes]
BY DEF Call

\* The call of a handler that is not running.
LEMMA IdleIs ==
  /\ Idle \in Call /\ Idle.pc = "idle" /\ Idle.cmd = NoRequest /\ Idle.todo = << >>
  /\ Idle.acks = 0 /\ Idle.nodes = {}
BY DEF Idle, Call

\* A handler's step leaves the other handlers alone, and these changes to it.
Moved(c, pc, cmd, todo, acks, nodes) ==
  /\ calls'[c] = [pc |-> pc, cmd |-> cmd, todo |-> todo, acks |-> acks, nodes |-> nodes]
  /\ \A d \in Callers \ {c} : calls'[d] = calls[d]
  /\ calls' \in [Callers -> Call]

Ends(c) ==
  /\ calls'[c] = Idle
  /\ \A d \in Callers \ {c} : calls'[d] = calls[d]
  /\ calls' \in [Callers -> Call]

\* What each step of a handler does to the calls.
LEMMA BeginReplicatedMoves ==
  ASSUME TypeOK, NEW c \in Callers, NEW cmd \in Requests, BeginReplicated(c, cmd)
  PROVE  Moved(c, "replicate", cmd, S.peers, 1, {Leader} \cup ToSet(S.peers))
<1>1. Leader \in Nodes /\ cmd \in Request
  BY ClusterAssumption
<1>2. S.peers \in Seq(Nodes)
  BY <1>1, StateIs DEF TypeOK, S
<1>3. ToSet(S.peers) \subseteq Nodes
  BY <1>2 DEF ToSet
<1>4. [pc |-> "replicate", cmd |-> cmd, todo |-> S.peers, acks |-> 1,
       nodes |-> {Leader} \cup ToSet(S.peers)] \in Call
  BY <1>1, <1>2, <1>3 DEF Call
<1> QED
  BY <1>4 DEF TypeOK, BeginReplicated, Moved

\* The handler that asks no peer.
LEMMA BeginLocalMoves ==
  ASSUME TypeOK, NEW c \in Callers, NEW cmd \in Requests, BeginLocal(c, cmd)
  PROVE  Moved(c, "logged", cmd, << >>, 0, {})
<1>1. cmd \in Request
  BY ClusterAssumption
<1>2. [Idle EXCEPT !.pc = "logged", !.cmd = cmd]
        = [pc |-> "logged", cmd |-> cmd, todo |-> << >>, acks |-> 0, nodes |-> {}]
  <2>1. PICK x \in Call : x = Idle
    BY IdleIs
  <2>2. x = [pc |-> x.pc, cmd |-> x.cmd, todo |-> x.todo, acks |-> x.acks, nodes |-> x.nodes]
    BY CallIs
  <2> DEFINE y == [x EXCEPT !.pc = "logged"]
  <2>3. y = [pc |-> "logged", cmd |-> x.cmd, todo |-> x.todo, acks |-> x.acks, nodes |-> x.nodes]
    BY <2>2
  <2> HIDE DEF y
  <2>4. [y EXCEPT !.cmd = cmd]
          = [pc |-> "logged", cmd |-> cmd, todo |-> x.todo, acks |-> x.acks, nodes |-> x.nodes]
    BY <2>3
  <2>5. [x EXCEPT !.pc = "logged", !.cmd = cmd]
          = [pc |-> "logged", cmd |-> cmd, todo |-> x.todo, acks |-> x.acks, nodes |-> x.nodes]
    BY <2>4 DEF y
  <2> HIDE DEF Idle
  <2>6. x.todo = << >> /\ x.acks = 0 /\ x.nodes = {}
    BY <2>1, IdleIs
  <2> QED
    BY <2>1, <2>5, <2>6, Zenon
<1>3. [pc |-> "logged", cmd |-> cmd, todo |-> << >>, acks |-> 0, nodes |-> {}] \in Call
  BY <1>1 DEF Call
<1> QED
  BY <1>2, <1>3 DEF TypeOK, BeginLocal, Moved

\* The handler goes on to the next peer.
LEMMA PeerDone ==
  ASSUME TypeOK, NEW c \in Callers, calls[c].todo # << >>,
         calls' = [calls EXCEPT ![c].todo = Tail(@)]
  PROVE  LET x == calls[c] IN Moved(c, x.pc, x.cmd, Tail(x.todo), x.acks, x.nodes)
<1> DEFINE x == calls[c]
<1>1. calls \in [Callers -> Call] /\ x \in Call
  BY DEF TypeOK
<1>2. /\ x.pc \in {"idle", "replicate", "sent", "logged"} /\ x.cmd \in Request \cup {NoRequest}
      /\ x.todo \in Seq(Nodes) /\ x.acks \in Nat /\ x.nodes \in SUBSET Nodes
      /\ x = [pc |-> x.pc, cmd |-> x.cmd, todo |-> x.todo, acks |-> x.acks, nodes |-> x.nodes]
  BY <1>1, CallIs
<1>3. calls' = [calls EXCEPT ![c].todo = Tail(@)] /\ x.todo # << >>
  OBVIOUS
<1> DEFINE y == [pc |-> x.pc, cmd |-> x.cmd, todo |-> Tail(x.todo), acks |-> x.acks, nodes |-> x.nodes]
<1>4. y \in Call
  BY <1>2, <1>3 DEF Call
<1>5. [x EXCEPT !.todo = Tail(x.todo)] = y
  <2> DEFINE rest == Tail(x.todo)
  <2> HIDE DEF rest
  <2>1. [x EXCEPT !.todo = rest]
          = [pc |-> x.pc, cmd |-> x.cmd, todo |-> rest, acks |-> x.acks, nodes |-> x.nodes]
    BY <1>2
  <2> QED
    BY <2>1 DEF rest
<1>6. calls' = [calls EXCEPT ![c] = [x EXCEPT !.todo = Tail(x.todo)]]
  BY <1>1, <1>3
<1> HIDE DEF y, x
<1>7. calls' = [calls EXCEPT ![c] = y]
  BY <1>5, <1>6
<1>8. calls' \in [Callers -> Call] /\ calls'[c] = y /\ \A d \in Callers \ {c} : calls'[d] = calls[d]
  BY <1>1, <1>4, <1>7
<1> QED
  BY <1>8 DEF Moved, y

\* One field after the other, by what the step assigns.
LEMMA StepMoves ==
  ASSUME TypeOK, NEW c \in Callers
  PROVE  LET x == calls[c] IN
         /\ ReplicateSend(c) => Moved(c, "sent", x.cmd, x.todo, x.acks, x.nodes)
         /\ ReplicateUnreachable(c) => Moved(c, x.pc, x.cmd, Tail(x.todo), x.acks, x.nodes)
         /\ QuorumAppend(c) => Moved(c, "logged", x.cmd, x.todo, x.acks, x.nodes)
         /\ QuorumFails(c) => Ends(c)
         /\ ApplyOwn(c) => Ends(c)
<1> DEFINE x == calls[c]
<1>1. calls \in [Callers -> Call] /\ x \in Call
  BY DEF TypeOK
<1>2. /\ x.pc \in {"idle", "replicate", "sent", "logged"} /\ x.cmd \in Request \cup {NoRequest}
      /\ x.todo \in Seq(Nodes) /\ x.acks \in Nat /\ x.nodes \in SUBSET Nodes
      /\ x = [pc |-> x.pc, cmd |-> x.cmd, todo |-> x.todo, acks |-> x.acks, nodes |-> x.nodes]
  BY <1>1, CallIs
<1>3. ASSUME NEW pc \in {"sent", "logged"}, calls' = [calls EXCEPT ![c].pc = pc]
      PROVE  Moved(c, pc, x.cmd, x.todo, x.acks, x.nodes)
  <2> DEFINE y == [pc |-> pc, cmd |-> x.cmd, todo |-> x.todo, acks |-> x.acks, nodes |-> x.nodes]
  <2>1. y \in Call
    BY <1>2 DEF Call
  <2>2. [x EXCEPT !.pc = pc] = y
    BY <1>2
  <2>3. calls' = [calls EXCEPT ![c] = [x EXCEPT !.pc = pc]]
    BY <1>1, <1>3
  <2> HIDE DEF y, x
  <2>4. calls' = [calls EXCEPT ![c] = y]
    BY <2>2, <2>3
  <2>5. calls' \in [Callers -> Call] /\ calls'[c] = y /\ \A d \in Callers \ {c} : calls'[d] = calls[d]
    BY <1>1, <2>1, <2>4
  <2> QED
    BY <2>5 DEF Moved, y
<1>4. ASSUME calls' = [calls EXCEPT ![c].todo = Tail(@)], x.todo # << >>
      PROVE  Moved(c, x.pc, x.cmd, Tail(x.todo), x.acks, x.nodes)
  BY <1>4, PeerDone
<1>5. ASSUME calls' = [calls EXCEPT ![c] = Idle] PROVE Ends(c)
  BY <1>1, <1>5, IdleIs DEF Ends
<1> QED
  BY <1>3, <1>4, <1>5 DEF ReplicateSend, ReplicateUnreachable, QuorumAppend, QuorumFails, ApplyOwn

\* The peer has applied; its answer counts if it arrives.
LEMMA ReplicateApplyMoves ==
  ASSUME TypeOK, CallShape, NEW c \in Callers, ReplicateApply(c)
  PROVE  LET x == calls[c] IN
         \E ack \in {0, 1} : Moved(c, "replicate", x.cmd, Tail(x.todo), x.acks + ack, x.nodes)
<1> DEFINE x == calls[c]
<1>1. calls \in [Callers -> Call] /\ x \in Call /\ x.todo # << >>
  BY DEF TypeOK, CallShape, ReplicateApply
<1>2. /\ x.cmd \in Request \cup {NoRequest}
      /\ x.todo \in Seq(Nodes) /\ x.acks \in Nat /\ x.nodes \in SUBSET Nodes
      /\ x = [pc |-> x.pc, cmd |-> x.cmd, todo |-> x.todo, acks |-> x.acks, nodes |-> x.nodes]
  BY <1>1, CallIs
<1>3. PICK ack \in {0, 1} : calls' = [calls EXCEPT ![c].pc = "replicate", ![c].todo = Tail(@),
                                                   ![c].acks = @ + ack]
  BY DEF ReplicateApply
<1> DEFINE y == [pc |-> "replicate", cmd |-> x.cmd, todo |-> Tail(x.todo), acks |-> x.acks + ack,
                 nodes |-> x.nodes]
<1>4. y \in Call
  BY <1>1, <1>2 DEF Call
<1>5. calls' = [calls EXCEPT ![c] = [x EXCEPT !.pc = "replicate", !.todo = Tail(x.todo),
                                              !.acks = x.acks + ack]]
  BY <1>1, <1>2, <1>3
<1>6. [x EXCEPT !.pc = "replicate", !.todo = Tail(x.todo), !.acks = x.acks + ack] = y
  <2> DEFINE rest == Tail(x.todo)
             more == x.acks + ack
             a == [x EXCEPT !.pc = "replicate"]
             b == [a EXCEPT !.todo = rest]
  <2> HIDE DEF rest, more
  <2>1. a = [pc |-> "replicate", cmd |-> x.cmd, todo |-> x.todo, acks |-> x.acks, nodes |-> x.nodes]
    BY <1>2
  <2> HIDE DEF a
  <2>2. b = [pc |-> "replicate", cmd |-> x.cmd, todo |-> rest, acks |-> x.acks, nodes |-> x.nodes]
    BY <2>1
  <2> HIDE DEF b
  <2>3. [b EXCEPT !.acks = more]
          = [pc |-> "replicate", cmd |-> x.cmd, todo |-> rest, acks |-> more, nodes |-> x.nodes]
    BY <2>2
  <2> QED
    BY <2>3 DEF a, b, rest, more
<1> HIDE DEF y, x
<1>7. calls' = [calls EXCEPT ![c] = y]
  BY <1>5, <1>6
<1>8. calls' \in [Callers -> Call] /\ calls'[c] = y /\ \A d \in Callers \ {c} : calls'[d] = calls[d]
  BY <1>1, <1>4, <1>7
<1>9. Moved(c, "replicate", x.cmd, Tail(x.todo), x.acks + ack, x.nodes)
  BY <1>8 DEF Moved, y
<1> QED
  BY <1>9 DEF x

\* A failed sync on a peer, on the leader, or on the local path.
LEMMA UnsyncedMoves ==
  ASSUME TypeOK, NEW c \in Callers, RequestUnsynced(c)
  PROVE  LET x == calls[c] IN
         \/ /\ x.pc = "replicate" /\ x.todo # << >> /\ AppendCommand(Head(x.todo), x.cmd)
            /\ Moved(c, x.pc, x.cmd, Tail(x.todo), x.acks, x.nodes)
         \/ x.pc = "replicate" /\ AppendCommand(Leader, x.cmd) /\ Ends(c)
         \/ (\E cmd \in Requests : AppendCommand(Leader, cmd)) /\ UNCHANGED calls
<1> DEFINE x == calls[c]
<1>1. CASE /\ x.pc = "replicate" /\ x.todo # << >> /\ Up(Head(x.todo))
           /\ AppendCommand(Head(x.todo), x.cmd)
           /\ calls' = [calls EXCEPT ![c].todo = Tail(@)]
  BY <1>1, PeerDone
<1>2. CASE /\ x.pc = "replicate" /\ x.todo = << >> /\ x.acks >= Majority(x)
           /\ AppendCommand(Leader, x.cmd)
           /\ calls' = [calls EXCEPT ![c] = Idle]
  BY <1>2, IdleIs DEF Ends, TypeOK
<1>3. CASE x = Idle /\ (\E cmd \in Requests : AppendCommand(Leader, cmd)) /\ UNCHANGED calls
  BY <1>3
<1> QED
  BY <1>1, <1>2, <1>3 DEF RequestUnsynced

-----------------------------------------------------------------------------
(* Every step, by its effect on the logs, the calls and the states         *)

\* A request that is under way is a command, its next peer a node.
LEMMA UnderWay ==
  ASSUME TypeOK, CallShape, NEW c \in Callers, calls[c].pc # "idle"
  PROVE  /\ calls[c].cmd \in Request /\ calls[c].cmd \in Command
         /\ calls[c].todo # << >> => Head(calls[c].todo) \in Nodes
<1>1. calls[c].cmd \in Request
  BY DEF CallShape
<1>2. calls[c].todo \in Seq(Nodes)
  BY CallIs DEF TypeOK
<1> QED
  BY <1>1, <1>2 DEF Command

\* Valid reports carry claims.
LEMMA ValidIs ==
  ASSUME TypeOK, NEW k \in handed, Valid(k)
  PROVE  /\ k \in Claim /\ k \in S.active
         /\ \A op \in {"CompleteRun", "FailRun"} : [op |-> op, claim |-> k] \in Command
BY DEF TypeOK, Valid, Command

\* What claim_pending_for writes.
LEMMA ClaimLine ==
  ASSUME TypeOK, NEW w \in Workers, NEW q \in S.pending
  PROVE  /\ ClaimFor(q, w) \in Claim
         /\ [op |-> "ClaimRun", claim |-> ClaimFor(q, w)] \in Command
<1>1. S \in ClusterState
  BY ClusterAssumption DEF TypeOK, S
<1>2. ClaimFor(q, w) \in Claim
  <2>1. PICK s \in ClusterState : s = S
    BY <1>1
  <2> QED
    BY <2>1, ClaimChange DEF RunClaimed
<1> QED
  BY <1>2 DEF Command

\* A step leaves the logs or adds one line to one of them.
LEMMA LogStep ==
  ASSUME TypeOK, CallShape, Next
  PROVE  UNCHANGED log \/ \E n \in Nodes, c \in Command : AppendCommand(n, c)
<1> DEFINE Goal == UNCHANGED log \/ \E n \in Nodes, c \in Command : AppendCommand(n, c)
<1>1. Leader \in Nodes /\ Requests \subseteq Command
  BY ClusterAssumption DEF Command
<1>2. ASSUME NEW c \in Callers, CallStep(c) PROVE Goal
  <2>1. ASSUME NEW cmd \in Requests, BeginLocal(c, cmd) PROVE Goal
    BY <1>1, <2>1 DEF BeginLocal
  <2>2. CASE ReplicateSend(c)
    <3>1. calls[c].pc = "replicate" /\ calls[c].todo # << >>
          /\ AppendCommand(Head(calls[c].todo), calls[c].cmd)
      BY <2>2 DEF ReplicateSend
    <3> QED
      BY <3>1, UnderWay
  <2>3. CASE QuorumAppend(c)
    BY <1>1, <2>3, UnderWay DEF QuorumAppend
  <2>4. CASE RequestUnsynced(c)
    BY <1>1, <2>4, UnderWay, UnsyncedMoves
  <2> QED
    BY <1>2, <2>1, <2>2, <2>3, <2>4
    DEF CallStep, BeginReplicated, ReplicateApply, ReplicateUnreachable, QuorumFails, ApplyOwn
<1>3. ASSUME NEW w \in Workers, WorkerStep(w) PROVE Goal
  <2>1. CASE ClaimPending(w) \/ ClaimUnsynced(w)
    BY <1>1, <2>1, ClaimLine DEF ClaimPending, ClaimUnsynced, AppendUnsynced
  <2> QED
    BY <1>3, <2>1 DEF WorkerStep, HeartbeatWorker, WorkerLeaseEnds
<1>4. ASSUME NEW k \in handed, Report(k) PROVE Goal
  BY <1>1, <1>4, ValidIs DEF Report, CompleteRun, FailRun, ReportUnsynced, AppendUnsynced
<1>5. CASE SchedulerPass
  BY <1>5 DEF SchedulerPass, EnqueueDueRuns, LeaderExpires
<1>6. ASSUME NEW n \in Nodes, Restart(n) \/ Torn(n) PROVE Goal
  BY <1>6 DEF Restart, Torn
<1>7. ASSUME \/ \E t \in Timers : OccurrenceDue(t)
             \/ \E m \in Moments : MomentPasses(m)
      PROVE  Goal
  BY <1>7 DEF OccurrenceDue, MomentPasses
<1>8. ASSUME NEW n \in Nodes, NEW w \in Workers, FollowerExpires(n, w) PROVE Goal
  BY <1>8 DEF FollowerExpires
<1>9. ASSUME NEW a \in S.active, RunLeaseEnds(a) PROVE Goal
  BY <1>9 DEF RunLeaseEnds
<1>10. CASE Shutdown
  BY <1>10 DEF Shutdown
<1> QED
  BY <1>2, <1>3, <1>4, <1>5, <1>6, <1>7, <1>8, <1>9, <1>10 DEF Next

\* A moved or ended call keeps the shape of the calls.
LEMMA MovedShape ==
  ASSUME TypeOK, CallShape, NEW c \in Callers,
         NEW pc \in {"replicate", "sent", "logged"}, NEW cmd \in Request, NEW todo, NEW acks,
         NEW nodes, pc = "sent" => todo # << >>, Moved(c, pc, cmd, todo, acks, nodes)
  PROVE  calls' \in [Callers -> Call] /\ CallShape'
<1>1. ASSUME NEW d \in Callers
      PROVE  /\ calls'[d].pc = "idle" => calls'[d] = Idle
             /\ calls'[d].pc # "idle" => calls'[d].cmd \in Request
             /\ calls'[d].pc = "sent" => calls'[d].todo # << >>
  <2>1. CASE d = c
    <3>1. calls'[c].pc = pc /\ calls'[c].cmd = cmd /\ calls'[c].todo = todo
      BY DEF Moved
    <3> QED
      BY <2>1, <3>1
  <2>2. CASE d # c
    <3>1. calls'[d] = calls[d]
      BY <2>2 DEF Moved
    <3> QED
      BY <3>1 DEF CallShape
  <2> QED
    BY <2>1, <2>2
<1> QED
  BY <1>1 DEF CallShape, Moved

\* An ended call is idle.
LEMMA EndsShape ==
  ASSUME TypeOK, CallShape, NEW c \in Callers, Ends(c)
  PROVE  calls' \in [Callers -> Call] /\ CallShape'
<1>1. ASSUME NEW d \in Callers
      PROVE  /\ calls'[d].pc = "idle" => calls'[d] = Idle
             /\ calls'[d].pc # "idle" => calls'[d].cmd \in Request
             /\ calls'[d].pc = "sent" => calls'[d].todo # << >>
  <2>1. CASE d = c
    <3>1. calls'[d] = Idle
      BY <2>1 DEF Ends
    <3> QED
      BY <3>1, IdleIs
  <2>2. CASE d # c
    <3>1. calls'[d] = calls[d]
      BY <2>2 DEF Ends
    <3> QED
      BY <3>1 DEF CallShape
  <2> QED
    BY <2>1, <2>2
<1> QED
  BY <1>1 DEF CallShape, Ends

\* Every step keeps the calls well formed.
LEMMA CallsStep ==
  ASSUME TypeOK, CallShape, Next
  PROVE  calls' \in [Callers -> Call] /\ CallShape'
<1> DEFINE Goal == calls' \in [Callers -> Call] /\ CallShape'
<1>1. ASSUME UNCHANGED calls PROVE Goal
  BY <1>1 DEF TypeOK, CallShape
<1>2. ASSUME NEW c \in Callers, CallStep(c) PROVE Goal
  <2> DEFINE x == calls[c]
  <2>1. ASSUME NEW cmd \in Requests, BeginReplicated(c, cmd) PROVE Goal
    <3>1. Moved(c, "replicate", cmd, S.peers, 1, {Leader} \cup ToSet(S.peers)) /\ cmd \in Request
      BY <2>1, BeginReplicatedMoves, ClusterAssumption
    <3> QED
      BY <3>1, MovedShape
  <2>2. ASSUME NEW cmd \in Requests, BeginLocal(c, cmd) PROVE Goal
    <3>1. Moved(c, "logged", cmd, << >>, 0, {}) /\ cmd \in Request
      BY <2>2, BeginLocalMoves, ClusterAssumption
    <3> QED
      BY <3>1, MovedShape
  <2>3. CASE ReplicateSend(c)
    <3>1. x.pc = "replicate" /\ x.todo # << >>
      BY <2>3 DEF ReplicateSend
    <3>2. Moved(c, "sent", x.cmd, x.todo, x.acks, x.nodes) /\ x.cmd \in Request
      BY <2>3, <3>1, StepMoves, UnderWay
    <3> QED
      BY <3>1, <3>2, MovedShape
  <2>4. CASE ReplicateApply(c)
    <3>1. x.pc = "sent"
      BY <2>4 DEF ReplicateApply
    <3>2. x.cmd \in Request
      BY <3>1, UnderWay
    <3>3. PICK ack \in {0, 1} : Moved(c, "replicate", x.cmd, Tail(x.todo), x.acks + ack, x.nodes)
      BY <2>4, ReplicateApplyMoves
    <3> QED
      BY <3>2, <3>3, MovedShape
  <2>5. CASE ReplicateUnreachable(c)
    <3>1. x.pc = "replicate"
      BY <2>5 DEF ReplicateUnreachable
    <3>2. Moved(c, "replicate", x.cmd, Tail(x.todo), x.acks, x.nodes) /\ x.cmd \in Request
      BY <2>5, <3>1, StepMoves, UnderWay
    <3> QED
      BY <3>2, MovedShape
  <2>6. CASE QuorumFails(c) \/ ApplyOwn(c)
    BY <2>6, StepMoves, EndsShape
  <2>7. CASE QuorumAppend(c)
    <3>1. x.pc = "replicate"
      BY <2>7 DEF QuorumAppend
    <3>2. Moved(c, "logged", x.cmd, x.todo, x.acks, x.nodes) /\ x.cmd \in Request
      BY <2>7, <3>1, StepMoves, UnderWay
    <3> QED
      BY <3>2, MovedShape
  <2>8. CASE RequestUnsynced(c)
    <3>1. CASE x.pc = "replicate" /\ Moved(c, x.pc, x.cmd, Tail(x.todo), x.acks, x.nodes)
      <4>1. x.cmd \in Request
        BY <3>1, UnderWay
      <4>2. Moved(c, "replicate", x.cmd, Tail(x.todo), x.acks, x.nodes)
        BY <3>1
      <4> QED
        BY <4>1, <4>2, MovedShape
    <3> QED
      BY <1>1, <2>8, <3>1, UnsyncedMoves, EndsShape
  <2> QED
    BY <1>2, <2>1, <2>2, <2>3, <2>4, <2>5, <2>6, <2>7, <2>8 DEF CallStep
<1>3. ASSUME NEW n \in Nodes, Restart(n) \/ Torn(n) PROVE Goal
  <2>1. \A d \in Callers : calls'[d] = calls[d] \/ calls'[d] = Idle
    BY <1>3 DEF Restart, Torn, leaderv
  <2>2. calls' \in [Callers -> Call]
    BY <1>3, IdleIs DEF Restart, Torn, leaderv, TypeOK
  <2> QED
    BY <2>1, <2>2, IdleIs DEF CallShape
<1>4. ASSUME NEW w \in Workers, WorkerStep(w) PROVE Goal
  BY <1>1, <1>4 DEF WorkerStep, HeartbeatWorker, ClaimPending, ClaimUnsynced, AppendUnsynced,
                    WorkerLeaseEnds, leaderv
<1>5. ASSUME NEW k \in handed, Report(k) PROVE Goal
  BY <1>1, <1>5 DEF Report, CompleteRun, FailRun, ReportUnsynced, AppendUnsynced, leaderv
<1>6. CASE SchedulerPass \/ Shutdown
  BY <1>1, <1>6 DEF SchedulerPass, EnqueueDueRuns, LeaderExpires, Shutdown
<1>7. ASSUME \/ \E t \in Timers : OccurrenceDue(t)
             \/ \E m \in Moments : MomentPasses(m)
      PROVE  Goal
  BY <1>1, <1>7 DEF OccurrenceDue, MomentPasses, leaderv
<1>8. ASSUME NEW n \in Nodes, NEW w \in Workers, FollowerExpires(n, w) PROVE Goal
  BY <1>1, <1>8 DEF FollowerExpires, leaderv
<1>9. ASSUME NEW a \in S.active, RunLeaseEnds(a) PROVE Goal
  BY <1>1, <1>9 DEF RunLeaseEnds, leaderv
<1> QED
  BY <1>2, <1>3, <1>4, <1>5, <1>6, <1>7, <1>8, <1>9 DEF Next

\* Replacing one state by one with the same owner and peers listed once.
LEMMA PutNode ==
  ASSUME TypeOK, NodeInv, NEW n \in Nodes, NEW s \in ClusterState, s.self = n, PeersOnce(s),
         Put(n, s)
  PROVE  st' \in [Nodes -> ClusterState] /\ NodeInv'
<1>1. ASSUME NEW m \in Nodes PROVE st'[m].self = m /\ PeersOnce(st'[m])
  <2>1. st'[m] = IF m = n THEN s ELSE st[m]
    BY PutType
  <2> QED
    BY <2>1 DEF NodeInv
<1> QED
  BY <1>1, PutType DEF NodeInv

\* A state with the members of another keeps them.
LEMMA SamePeers ==
  ASSUME NEW r, NEW s, SameFrame(r, s) \/ SameRuns(r, s)
  PROVE  r \in ClusterState /\ r.self = s.self /\ (PeersOnce(s) => PeersOnce(r))
BY DEF SameFrame, SameRuns, PeersOnce

\* apply_command keeps the peers listed once.
LEMMA AppliedPeers ==
  ASSUME NEW past, NEW s \in ClusterState, NEW c \in Command, PeersOnce(s)
  PROVE  LET r == Apply(past, s, c) IN r \in ClusterState /\ r.self = s.self /\ PeersOnce(r)
<1>1. s.self \in Nodes /\ s.peers \in Seq(Nodes)
  BY StateIs
<1> DEFINE r == Apply(past, s, c)
<1>2. r \in ClusterState /\ r.self = s.self /\ r.peers = PeersAfter(s.self, s.peers, c)
  BY ApplyIs
<1> HIDE DEF r
<1>3. PICK self, peers, p : self = s.self /\ peers = s.peers /\ p = PeersAfter(self, peers, c)
  OBVIOUS
<1>4. self \notin ToSet(p) /\ \A i, j \in 1 .. Len(p) : p[i] = p[j] => i = j
  BY <1>1, <1>3, PeersStayOnce DEF PeersOnce
<1>5. r.self = self /\ r.peers = p
  BY <1>2, <1>3
<1>6. PeersOnce(r)
  BY <1>4, <1>5 DEF PeersOnce
<1> QED
  BY <1>2, <1>6 DEF r

\* Every step keeps the states well formed.
LEMMA StatesStep ==
  ASSUME TypeOK, NodeInv, CallShape, Next
  PROVE  st' \in [Nodes -> ClusterState] /\ NodeInv'
<1> DEFINE Goal == st' \in [Nodes -> ClusterState] /\ NodeInv'
<1>a. Leader \in Nodes
  BY ClusterAssumption
<1>b. \A n \in Nodes : st[n] \in ClusterState /\ st[n].self = n /\ PeersOnce(st[n])
  BY DEF TypeOK, NodeInv
<1>c. S \in ClusterState /\ S.self = Leader /\ PeersOnce(S)
  BY <1>a, <1>b DEF S
<1>1. ASSUME UNCHANGED st PROVE Goal
  BY <1>1 DEF TypeOK, NodeInv
<1>2. ASSUME NEW c \in Callers, CallStep(c) PROVE Goal
  <2>1. CASE ReplicateApply(c)
    <3> DEFINE p == Head(calls[c].todo)
               r == Apply(elapsed, st[p], calls[c].cmd)
    <3>1. calls[c].pc = "sent" /\ Put(p, r)
      BY <2>1 DEF ReplicateApply
    <3>2. p \in Nodes /\ calls[c].cmd \in Command
      BY <3>1, UnderWay DEF CallShape
    <3>3. r \in ClusterState /\ r.self = p /\ PeersOnce(r)
      BY <1>b, <3>2, AppliedPeers
    <3> HIDE DEF r, p
    <3> QED
      BY <3>1, <3>2, <3>3, PutNode
  <2>2. CASE ApplyOwn(c)
    <3> DEFINE r == Apply(elapsed, S, calls[c].cmd)
    <3>1. calls[c].pc = "logged" /\ Put(Leader, r)
      BY <2>2 DEF ApplyOwn
    <3>2. calls[c].cmd \in Command
      BY <3>1, UnderWay
    <3>3. r \in ClusterState /\ r.self = Leader /\ PeersOnce(r)
      BY <1>c, <3>2, AppliedPeers
    <3> HIDE DEF r
    <3> QED
      BY <1>a, <3>1, <3>3, PutNode
  <2> QED
    BY <1>1, <1>2, <2>1, <2>2
    DEF CallStep, BeginReplicated, BeginLocal, ReplicateSend, ReplicateUnreachable, QuorumFails,
        QuorumAppend, RequestUnsynced
<1>3. ASSUME NEW w \in Workers, WorkerStep(w) PROVE Goal
  <2>1. ASSUME NEW v \in {"live", "lapsed"}, Put(Leader, [S EXCEPT !.workers[w] = v]) PROVE Goal
    <3> DEFINE r == [S EXCEPT !.workers[w] = v]
    <3>1. SameRuns(r, S)
      <4>1. PICK s \in ClusterState : s = S
        BY <1>c
      <4> QED
        BY <4>1, WorkerChange
    <3> HIDE DEF r
    <3>2. r \in ClusterState /\ r.self = Leader /\ PeersOnce(r)
      BY <1>c, <3>1, SamePeers
    <3>3. Put(Leader, r)
      BY <2>1 DEF r
    <3> QED
      BY <1>a, <3>2, <3>3, PutNode
  <2>2. CASE ClaimPending(w)
    <3>1. PICK q \in S.pending :
            Put(Leader, [S EXCEPT !.pending = @ \ {q}, !.active = @ \cup {ClaimFor(q, w)},
                                  !.states[q.timer] = "Running"])
      BY <2>2 DEF ClaimPending
    <3>2. PICK s \in ClusterState : s = S
      BY <1>c
    <3> DEFINE r == [s EXCEPT !.pending = @ \ {q}, !.active = @ \cup {ClaimFor(q, w)},
                              !.states[q.timer] = "Running"]
    <3>a. RunClaimed(r, s, q, ClaimFor(q, w)) /\ Put(Leader, r)
      BY <3>1, <3>2, ClaimChange
    <3> HIDE DEF r
    <3>3. SameFrame(r, s) /\ Put(Leader, r)
      BY <3>a DEF RunClaimed
    <3>4. r \in ClusterState /\ r.self = Leader /\ PeersOnce(r)
      BY <1>c, <3>2, <3>3, SamePeers
    <3> QED
      BY <1>a, <3>3, <3>4, PutNode
  <2> QED
    BY <1>1, <1>3, <2>1, <2>2
    DEF WorkerStep, HeartbeatWorker, ClaimUnsynced, AppendUnsynced, WorkerLeaseEnds
<1>4. ASSUME NEW k \in handed, Report(k) PROVE Goal
  <2>1. CASE CompleteRun(k) \/ FailRun(k)
    <3>1. k \in S.active
      BY <2>1, ValidIs DEF CompleteRun, FailRun
    <3>2. PICK s \in ClusterState : s = S
      BY <1>c
    <3>3. PICK v \in {"Scheduled", "Dead"} :
            \E r \in {EndRun(s, k, v), RescheduleTimer(elapsed, EndRun(s, k, v), k.timer)} :
              Put(Leader, r)
      BY <2>1, <3>2 DEF CompleteRun, FailRun
    <3>4. PICK r \in {EndRun(s, k, v), RescheduleTimer(elapsed, EndRun(s, k, v), k.timer)} :
            Put(Leader, r)
      BY <3>3
    <3>a. k \in s.active
      BY <3>1, <3>2
    <3>b. RunEnded(r, s, k)
      BY <3>a, EndChange
    <3>5. SameFrame(r, s)
      BY <3>b DEF RunEnded
    <3>6. r \in ClusterState /\ r.self = Leader /\ PeersOnce(r)
      BY <1>c, <3>2, <3>5, SamePeers
    <3> QED
      BY <1>a, <3>4, <3>6, PutNode
  <2> QED
    BY <1>1, <1>4, <2>1 DEF Report, ReportUnsynced, AppendUnsynced
<1>5. CASE SchedulerPass
  <2>1. CASE EnqueueDueRuns
    <3>1. st' = [st EXCEPT ![Leader] = st'[Leader]] /\ SameFrame(st'[Leader], S)
      BY <2>1, EnqueueChange
    <3>2. PICK r : r = st'[Leader]
      OBVIOUS
    <3>3. Put(Leader, r)
      BY <3>1, <3>2 DEF Put
    <3>4. r \in ClusterState /\ r.self = Leader /\ PeersOnce(r)
      BY <1>c, <3>1, <3>2, SamePeers
    <3> QED
      BY <1>a, <3>3, <3>4, PutNode
  <2>2. CASE LeaderExpires
    <3> DEFINE r == ExpireWorkers(S)
    <3>1. SameFrame(r, S) /\ Put(Leader, r)
      BY <1>c, <2>2, ExpireChange DEF LeaderExpires
    <3> HIDE DEF r
    <3>2. r \in ClusterState /\ r.self = Leader /\ PeersOnce(r)
      BY <1>c, <3>1, SamePeers
    <3> QED
      BY <1>a, <3>1, <3>2, PutNode
  <2> QED
    BY <1>1, <1>5, <2>1, <2>2 DEF SchedulerPass
<1>6. ASSUME NEW n \in Nodes, Restart(n) \/ Torn(n) PROVE Goal
  <2>1. CASE Restart(n)
    <3> DEFINE r == Replay(elapsed, n, log[n])
    <3>1. r \in Restored(n) /\ Put(n, r)
      BY <2>1, ReplayIs DEF Restart, TypeOK
    <3> HIDE DEF r
    <3>2. r \in ClusterState /\ r.self = n /\ PeersOnce(r)
      BY <3>1 DEF Restored
    <3> QED
      BY <3>1, <3>2, PutNode
  <2> QED
    BY <1>1, <1>6, <2>1 DEF Torn
<1>7. ASSUME \/ \E t \in Timers : OccurrenceDue(t)
             \/ \E m \in Moments : MomentPasses(m)
      PROVE  Goal
  <2>1. PICK ts, at : FallDue(ts, at)
    BY <1>7 DEF OccurrenceDue, MomentPasses
  <2>2. \A n \in Nodes : SameRuns(st'[n], st[n])
    BY <2>1, OccurrenceChange DEF TypeOK
  <2>3. \A n \in Nodes : st'[n] \in ClusterState /\ st'[n].self = n /\ PeersOnce(st'[n])
    BY <1>b, <2>2, SamePeers
  <2>4. st' = [n \in Nodes |-> st'[n]]
    BY <2>1 DEF FallDue
  <2> QED
    BY <2>3, <2>4 DEF NodeInv
<1>8. ASSUME NEW n \in Nodes, NEW w \in Workers, FollowerExpires(n, w) PROVE Goal
  <2>1. PICK s : s = [st[n] EXCEPT !.workers[w] = "lapsed"]
    OBVIOUS
  <2>2. SameRuns(s, st[n])
    BY <1>b, <2>1, WorkerChange
  <2>3. s \in ClusterState /\ s.self = n /\ PeersOnce(s)
    BY <1>b, <2>2, SamePeers
  <2>4. PICK r : r = ExpireWorkers(s)
    OBVIOUS
  <2>5. SameFrame(r, s) /\ Put(n, r)
    BY <1>8, <2>1, <2>3, <2>4, ExpireChange DEF FollowerExpires
  <2>6. r \in ClusterState /\ r.self = n /\ PeersOnce(r)
    BY <2>3, <2>5, SamePeers
  <2> QED
    BY <2>5, <2>6, PutNode
<1>9. ASSUME NEW a \in S.active, RunLeaseEnds(a) PROVE Goal
  BY <1>1, <1>9 DEF RunLeaseEnds
<1>10. CASE Shutdown
  BY <1>1, <1>10 DEF Shutdown
<1> QED
  BY <1>2, <1>3, <1>4, <1>5, <1>6, <1>7, <1>8, <1>9, <1>10 DEF Next

\* The other variables.
RestOK ==
  /\ dead \subseteq Nodes
  /\ pass \in {"enqueue", "expire"} /\ stopping \in BOOLEAN
  /\ elapsed \subseteq Moments /\ overdue \subseteq Claim
  /\ lastRun \in Nat /\ requests \in Nat /\ faults \in Nat
  /\ handed \subseteq Claim /\ ended \subseteq RunIds
  /\ answered \subseteq [cmd: Request, nodes: SUBSET Nodes]
  /\ blurred \in BOOLEAN /\ unlogged \in BOOLEAN /\ forgot \in BOOLEAN

\* Every step keeps the other variables in their types.
LEMMA RestStep ==
  ASSUME TypeOK, CallShape, Next
  PROVE  RestOK'
<1> USE DEF RestOK, leaderv, history, bounds
<1>a. RestOK
  BY DEF TypeOK
<1>b. Leader \in Nodes
  BY ClusterAssumption
<1>c. S.active \subseteq Claim
  BY <1>b, StateIs DEF TypeOK, S
<1>2. ASSUME NEW c \in Callers, CallStep(c) PROVE RestOK'
  <2>1. CASE ApplyOwn(c)
    <3>1. calls[c].pc = "logged"
      BY <2>1 DEF ApplyOwn
    <3>2. calls[c].cmd \in Request /\ calls[c].nodes \in SUBSET Nodes
      BY <3>1, UnderWay, CallIs DEF TypeOK
    <3>3. answered' \subseteq [cmd: Request, nodes: SUBSET Nodes]
      BY <1>a, <2>1, <3>2 DEF ApplyOwn
    <3> QED
      BY <1>a, <2>1, <3>3 DEF ApplyOwn
  <2>2. ASSUME NEW cmd \in Requests, BeginReplicated(c, cmd) \/ BeginLocal(c, cmd) PROVE RestOK'
    <3>1. blurred' = (blurred \/ Busy)
      BY <2>2 DEF BeginReplicated, BeginLocal
    <3>2. blurred' \in BOOLEAN
      BY <3>1, Zenon
    <3>3. requests' = requests + 1
      BY <2>2 DEF BeginReplicated, BeginLocal
    <3>4. UNCHANGED <<dead, pass, stopping, elapsed, overdue, lastRun, faults, handed, ended,
                      answered, unlogged, forgot>>
      BY <2>2 DEF BeginReplicated, BeginLocal
    <3> QED
      BY <1>a, <3>2, <3>3, <3>4
  <2>3. CASE RequestUnsynced(c)
    BY <1>a, <2>3 DEF RequestUnsynced
  <2>4. CASE \/ ReplicateSend(c) \/ ReplicateApply(c) \/ ReplicateUnreachable(c)
             \/ QuorumFails(c) \/ QuorumAppend(c)
    BY <1>a, <2>4 DEF ReplicateSend, ReplicateApply, ReplicateUnreachable, QuorumFails, QuorumAppend
  <2> QED
    BY <1>2, <2>1, <2>2, <2>3, <2>4 DEF CallStep
<1>3. ASSUME NEW w \in Workers, WorkerStep(w) PROVE RestOK'
  <2>1. CASE ClaimPending(w)
    <3>1. PICK q \in S.pending : handed' = handed \cup {ClaimFor(q, w)}
      BY <2>1 DEF ClaimPending
    <3>2. handed' \subseteq Claim
      BY <1>a, <3>1, ClaimLine
    <3> QED
      BY <1>a, <2>1, <3>2 DEF ClaimPending
  <2>2. CASE HeartbeatWorker(w) \/ WorkerLeaseEnds(w)
    BY <1>a, <2>2 DEF HeartbeatWorker, WorkerLeaseEnds
  <2>3. CASE ClaimUnsynced(w)
    BY <1>a, <2>3 DEF ClaimUnsynced, AppendUnsynced
  <2> QED
    BY <1>3, <2>1, <2>2, <2>3 DEF WorkerStep
<1>4. ASSUME NEW k \in handed, Report(k) PROVE RestOK'
  <2>1. CASE CompleteRun(k) \/ FailRun(k)
    <3>1. k.run \in RunIds
      BY <1>a, ClaimIs
    <3> QED
      BY <1>a, <2>1, <3>1 DEF CompleteRun, FailRun
  <2>2. CASE ReportUnsynced(k)
    BY <1>a, <2>2 DEF ReportUnsynced, AppendUnsynced
  <2> QED
    BY <1>4, <2>1, <2>2 DEF Report
<1>5. CASE SchedulerPass
  <2>1. CASE EnqueueDueRuns
    <3>1. lastRun' \in Nat
      BY <2>1, EnqueueChange
    <3> QED
      BY <1>a, <2>1, <3>1 DEF EnqueueDueRuns
  <2>2. CASE LeaderExpires
    BY <1>a, <2>2 DEF LeaderExpires
  <2> QED
    BY <1>5, <2>1, <2>2 DEF SchedulerPass
<1>6. ASSUME NEW n \in Nodes, Restart(n) \/ Torn(n) PROVE RestOK'
  <2>1. CASE Torn(n)
    BY <1>a, <2>1 DEF Torn
  <2>2. CASE Restart(n)
    <3>1. UNCHANGED <<dead, elapsed, lastRun, requests, handed, ended, blurred, answered, unlogged>>
          /\ faults' = faults + 1
      BY <2>2 DEF Restart
    <3>2. \/ pass' = "enqueue" /\ stopping' = FALSE /\ overdue' = {} /\ forgot' = unlogged
          \/ UNCHANGED <<pass, stopping, overdue, forgot>>
      BY <2>2 DEF Restart
    <3>3. stopping' \in BOOLEAN /\ forgot' \in BOOLEAN
      <4>1. stopping \in BOOLEAN /\ forgot \in BOOLEAN /\ unlogged \in BOOLEAN
        BY <1>a
      <4> QED
        BY <3>2, <4>1, Zenon
    <3>4. pass' \in {"enqueue", "expire"} /\ overdue' \subseteq Claim
      BY <1>a, <3>2
    <3> QED
      BY <1>a, <3>1, <3>3, <3>4
  <2> QED
    BY <1>6, <2>1, <2>2
<1>7. ASSUME \/ \E t \in Timers : OccurrenceDue(t)
             \/ \E m \in Moments : MomentPasses(m)
      PROVE  RestOK'
  BY <1>a, <1>7 DEF OccurrenceDue, MomentPasses
<1>8. ASSUME NEW n \in Nodes, NEW w \in Workers, FollowerExpires(n, w) PROVE RestOK'
  BY <1>a, <1>8 DEF FollowerExpires
<1>9. ASSUME NEW a \in S.active, RunLeaseEnds(a) PROVE RestOK'
  BY <1>a, <1>c, <1>9 DEF RunLeaseEnds
<1>10. CASE Shutdown
  BY <1>a, <1>10 DEF Shutdown
<1> QED
  BY <1>2, <1>3, <1>4, <1>5, <1>6, <1>7, <1>8, <1>9, <1>10 DEF Next

\* The types, and what they need, hold at the start ...
LEMMA TypeInit == Init => TypeOK /\ NodeInv /\ CallShape
<1> SUFFICES ASSUME Init PROVE TypeOK /\ NodeInv /\ CallShape
  OBVIOUS
<1>1. Leader \in Nodes /\ Logs \in [Nodes -> Seq(Request)]
  BY ClusterAssumption
<1>2. Logs \in [Nodes -> Seq(Command)]
  <2>1. ASSUME NEW n \in Nodes PROVE Logs[n] \in Seq(Command)
    BY <1>1 DEF Command
  <2> QED
    BY <1>1, <2>1
<1>3. \A n \in Nodes : Replay(elapsed, n, Logs[n]) \in Restored(n)
  BY <1>2, ReplayIs
<1>4. st \in [Nodes -> ClusterState] /\ NodeInv
  BY <1>3 DEF Init, NodeInv, Restored
<1>5. calls \in [Callers -> Call] /\ CallShape
  BY IdleIs DEF Init, CallShape
<1> QED
  BY <1>2, <1>4, <1>5 DEF Init, TypeOK

\* ... and are kept by every step.
LEMMA TypeStep == TypeOK /\ NodeInv /\ CallShape /\ [Next]_vars => TypeOK' /\ NodeInv' /\ CallShape'
<1> SUFFICES ASSUME TypeOK, NodeInv, CallShape, [Next]_vars
             PROVE  TypeOK' /\ NodeInv' /\ CallShape'
  OBVIOUS
<1>1. CASE Next
  <2>1. log' \in [Nodes -> Seq(Command)]
    BY <1>1, LogStep, AppendType DEF TypeOK
  <2> QED
    BY <1>1, <2>1, StatesStep, CallsStep, RestStep DEF TypeOK, RestOK
<1>2. CASE UNCHANGED vars
  BY <1>2 DEF vars, TypeOK, NodeInv, CallShape
<1> QED
  BY <1>1, <1>2

\* Every state of the engine is well typed, replayed ones and what handlers
\* carry between their steps included, and no node ever lists a peer twice or
\* itself, which is what the count of a majority rests on.
THEOREM TypeSafe == Spec => []TypeOK
BY TypeInit, TypeStep, PTL DEF Spec

-----------------------------------------------------------------------------
(* Runs                                                                    *)

SameQueues(r, s) == r.active = s.active /\ r.pending = s.pending /\ r.fencing = s.fencing

\* Requests are not about runs.
LEMMA RequestAside ==
  ASSUME NEW past, NEW s \in ClusterState, NEW c \in Request
  PROVE  SameQueues(Apply(past, s, c), s)
<1>1. c \in Command /\ c.op \notin {"ClaimRun", "CompleteRun", "FailRun"}
  BY DEF Command, Request
<1> QED
  BY <1>1, ApplyIs DEF SameQueues, ActiveAfter, FencingAfter

\* The steps that leave the runs alone.
Aside ==
  /\ SameQueues(st'[Leader], S)
  /\ log'[Leader] = log[Leader] \/ \E c \in Request : log'[Leader] = Append(log[Leader], c)
  /\ UNCHANGED <<lastRun, handed, ended, unlogged, forgot>>

\* A new state with the same runs, or on another node, leaves the leader's runs.
LEMMA PutAside ==
  ASSUME TypeOK, NEW n \in Nodes, NEW s \in ClusterState, SameQueues(s, st[n]) \/ n # Leader,
         Put(n, s)
  PROVE  SameQueues(st'[Leader], S)
<1>1. Leader \in Nodes
  BY ClusterAssumption
<1>2. st'[Leader] = IF n = Leader THEN s ELSE st[Leader]
  BY <1>1, PutType
<1> QED
  BY <1>2 DEF S, SameQueues

\* A request's line is the only one such a step writes.
LEMMA AppendAside ==
  ASSUME TypeOK, NEW n \in Nodes, NEW c \in Request, AppendCommand(n, c)
  PROVE  log'[Leader] = log[Leader] \/ \E d \in Request : log'[Leader] = Append(log[Leader], d)
<1>1. Leader \in Nodes /\ c \in Command
  BY ClusterAssumption DEF Command
<1>2. log'[Leader] = IF n = Leader THEN Append(log[Leader], c) ELSE log[Leader]
  BY <1>1, AppendType
<1> QED
  BY <1>2

\* Claims, reports, the scheduler and the leader's restart do the rest.
LEMMA RunSteps ==
  ASSUME TypeOK, CallShape, Next
  PROVE  \/ Aside
         \/ \E w \in Workers : ClaimPending(w) \/ ClaimUnsynced(w)
         \/ \E k \in handed : Report(k)
         \/ EnqueueDueRuns \/ LeaderExpires
         \/ Restart(Leader)
<1> USE DEF leaderv, history, bounds
<1>a. Leader \in Nodes /\ Requests \subseteq Request
  BY ClusterAssumption
<1>b. \A n \in Nodes : st[n] \in ClusterState
  BY DEF TypeOK
<1>c. S \in ClusterState
  BY <1>a, <1>b DEF S
<1>d. UNCHANGED st => SameQueues(st'[Leader], S)
  BY DEF S, SameQueues
<1>2. ASSUME NEW c \in Callers, CallStep(c) PROVE Aside
  <2>0. UNCHANGED <<lastRun, handed, ended, unlogged, forgot>>
    BY <1>2 DEF CallStep, BeginReplicated, BeginLocal, ReplicateSend, ReplicateApply,
                ReplicateUnreachable, QuorumFails, QuorumAppend, ApplyOwn, RequestUnsynced
  <2>1. CASE ReplicateApply(c)
    <3> DEFINE p == Head(calls[c].todo)
               r == Apply(elapsed, st[p], calls[c].cmd)
    <3>1. calls[c].pc = "sent" /\ Put(p, r) /\ UNCHANGED log
      BY <2>1 DEF ReplicateApply
    <3>2. p \in Nodes /\ calls[c].cmd \in Request
      BY <3>1, UnderWay DEF CallShape
    <3>3. r \in ClusterState /\ SameQueues(r, st[p])
      BY <1>b, <3>2, ApplyIs, RequestAside DEF Command
    <3> HIDE DEF r, p
    <3> QED
      BY <2>0, <3>1, <3>2, <3>3, PutAside DEF Aside
  <2>2. CASE ApplyOwn(c)
    <3> DEFINE r == Apply(elapsed, S, calls[c].cmd)
    <3>1. calls[c].pc = "logged" /\ Put(Leader, r) /\ UNCHANGED log
      BY <2>2 DEF ApplyOwn
    <3>2. calls[c].cmd \in Request
      BY <3>1, UnderWay
    <3>3. r \in ClusterState /\ SameQueues(r, S)
      BY <1>c, <3>2, ApplyIs, RequestAside DEF Command
    <3> HIDE DEF r
    <3>4. SameQueues(r, st[Leader])
      BY <3>3 DEF S
    <3> QED
      BY <1>a, <2>0, <3>1, <3>3, <3>4, PutAside DEF Aside
  <2>3. ASSUME NEW cmd \in Requests, BeginLocal(c, cmd) PROVE Aside
    BY <1>a, <1>d, <2>0, <2>3, AppendAside DEF BeginLocal, Aside
  <2>4. CASE ReplicateSend(c)
    <3>1. calls[c].pc = "replicate" /\ calls[c].todo # << >>
          /\ AppendCommand(Head(calls[c].todo), calls[c].cmd) /\ UNCHANGED st
      BY <2>4 DEF ReplicateSend
    <3> QED
      BY <1>d, <2>0, <3>1, UnderWay, AppendAside DEF Aside
  <2>5. CASE QuorumAppend(c)
    <3>1. calls[c].pc = "replicate" /\ AppendCommand(Leader, calls[c].cmd) /\ UNCHANGED st
      BY <2>5 DEF QuorumAppend
    <3> QED
      BY <1>a, <1>d, <2>0, <3>1, UnderWay, AppendAside DEF Aside
  <2>6. CASE RequestUnsynced(c)
    <3>1. UNCHANGED st
      BY <2>6 DEF RequestUnsynced
    <3>2. \E n \in Nodes, d \in Request : AppendCommand(n, d)
      BY <1>a, <2>6, UnsyncedMoves, UnderWay
    <3> QED
      BY <1>d, <2>0, <3>1, <3>2, AppendAside DEF Aside
  <2>7. CASE ReplicateUnreachable(c) \/ QuorumFails(c)
    BY <1>d, <2>0, <2>7 DEF ReplicateUnreachable, QuorumFails, Aside
  <2>8. ASSUME NEW cmd \in Requests, BeginReplicated(c, cmd) PROVE Aside
    BY <1>d, <2>0, <2>8 DEF BeginReplicated, Aside
  <2> QED
    BY <1>2, <2>1, <2>2, <2>3, <2>4, <2>5, <2>6, <2>7, <2>8 DEF CallStep
<1>3. ASSUME NEW w \in Workers, HeartbeatWorker(w) \/ WorkerLeaseEnds(w) PROVE Aside
  <2>1. PICK v \in {"live", "lapsed"} : Put(Leader, [S EXCEPT !.workers[w] = v])
    BY <1>3 DEF HeartbeatWorker, WorkerLeaseEnds
  <2>2. PICK s \in ClusterState : s = S
    BY <1>c
  <2> DEFINE r == [s EXCEPT !.workers[w] = v]
  <2>a. SameRuns(r, s)
    BY WorkerChange
  <2>4. Put(Leader, r)
    BY <2>1, <2>2
  <2> HIDE DEF r
  <2>3. r \in ClusterState /\ SameQueues(r, s)
    BY <2>a DEF SameRuns, SameQueues
  <2>5. SameQueues(r, st[Leader])
    BY <2>2, <2>3 DEF S
  <2>6. SameQueues(st'[Leader], S)
    BY <1>a, <2>3, <2>4, <2>5, PutAside
  <2> QED
    BY <1>3, <2>6 DEF HeartbeatWorker, WorkerLeaseEnds, Aside
<1>4. ASSUME NEW n \in Nodes, Restart(n) \/ Torn(n), ~Restart(Leader) PROVE Aside
  <2>1. CASE Restart(n)
    <3>1. n # Leader
      BY <1>4, <2>1
    <3>2. PICK r : r = Replay(elapsed, n, log[n])
      OBVIOUS
    <3>3. r \in Restored(n) /\ Put(n, r)
      BY <2>1, <3>2, ReplayIs DEF Restart, TypeOK
    <3>4. r \in ClusterState
      BY <3>3 DEF Restored
    <3>5. SameQueues(st'[Leader], S)
      BY <3>1, <3>3, <3>4, PutAside
    <3> QED
      BY <2>1, <3>1, <3>5 DEF Restart, Aside
  <2>2. CASE Torn(n)
    BY <1>d, <2>2 DEF Torn, Aside
  <2> QED
    BY <1>4, <2>1, <2>2
<1>5. ASSUME \/ \E t \in Timers : OccurrenceDue(t)
             \/ \E m \in Moments : MomentPasses(m)
      PROVE  Aside
  <2>1. PICK ts, at : FallDue(ts, at)
    BY <1>5 DEF OccurrenceDue, MomentPasses
  <2>2. SameQueues(st'[Leader], S)
    BY <1>a, <2>1, OccurrenceChange DEF TypeOK, SameRuns, SameQueues, S
  <2> QED
    BY <1>5, <2>2 DEF OccurrenceDue, MomentPasses, Aside
<1>6. ASSUME NEW n \in Nodes, NEW w \in Workers, FollowerExpires(n, w) PROVE Aside
  <2>1. PICK s : s = [st[n] EXCEPT !.workers[w] = "lapsed"]
    OBVIOUS
  <2>2. s \in ClusterState
    BY <1>b, <2>1, WorkerChange DEF SameRuns
  <2>3. PICK r : r = ExpireWorkers(s)
    OBVIOUS
  <2>4. r \in ClusterState /\ Put(n, r) /\ n # Leader
    BY <1>6, <2>1, <2>2, <2>3, ExpireChange DEF FollowerExpires, SameFrame
  <2>5. SameQueues(st'[Leader], S)
    BY <2>4, PutAside
  <2> QED
    BY <1>6, <2>5 DEF FollowerExpires, Aside
<1>7. ASSUME NEW a \in S.active, RunLeaseEnds(a) PROVE Aside
  BY <1>d, <1>7 DEF RunLeaseEnds, Aside
<1>8. CASE Shutdown
  BY <1>d, <1>8 DEF Shutdown, Aside
<1> QED
  BY <1>2, <1>3, <1>4, <1>5, <1>6, <1>7, <1>8 DEF Next, WorkerStep, SchedulerPass

\* What a claim does.
LEMMA ClaimEffect ==
  ASSUME TypeOK, NEW w \in Workers, ClaimPending(w)
  PROVE  \E q \in S.pending : \E k \in Claim :
           /\ k.timer = q.timer /\ k.run = q.run /\ k.token = q.token
           /\ st'[Leader].active = S.active \cup {k} /\ st'[Leader].pending = S.pending \ {q}
           /\ st'[Leader].fencing = S.fencing
           /\ log'[Leader] = Append(log[Leader], [op |-> "ClaimRun", claim |-> k])
           /\ handed' = handed \cup {k}
           /\ UNCHANGED <<lastRun, ended, unlogged, forgot>>
<1>1. Leader \in Nodes /\ S \in ClusterState
  BY ClusterAssumption DEF TypeOK, S
<1>2. PICK s \in ClusterState : s = S
  BY <1>1
<1> DEFINE Claimed(q) == [s EXCEPT !.pending = @ \ {q}, !.active = @ \cup {ClaimFor(q, w)},
                                   !.states[q.timer] = "Running"]
<1>3. PICK q \in s.pending :
        /\ AppendCommand(Leader, [op |-> "ClaimRun", claim |-> ClaimFor(q, w)])
        /\ Put(Leader, Claimed(q)) /\ handed' = handed \cup {ClaimFor(q, w)}
  BY <1>2 DEF ClaimPending
<1>4. PICK k, r : k = ClaimFor(q, w) /\ r = Claimed(q)
  OBVIOUS
<1>5. /\ k \in Claim /\ k.timer = q.timer /\ k.run = q.run /\ k.token = q.token
      /\ SameFrame(r, s) /\ r.fencing = s.fencing
      /\ r.pending = s.pending \ {q} /\ r.active = s.active \cup {k}
  <2>1. RunClaimed(Claimed(q), s, q, ClaimFor(q, w))
    BY ClaimChange
  <2> HIDE DEF Claimed
  <2>2. RunClaimed(r, s, q, k)
    BY <1>4, <2>1
  <2> QED
    BY <2>2 DEF RunClaimed
<1> HIDE DEF Claimed
<1>6. Put(Leader, r) /\ AppendCommand(Leader, [op |-> "ClaimRun", claim |-> k])
  BY <1>3, <1>4
<1>7. [op |-> "ClaimRun", claim |-> k] \in Command /\ r \in ClusterState
  BY <1>5 DEF Command, SameFrame
<1>8. st'[Leader] = r
  BY <1>1, <1>6, <1>7, PutType
<1>9. log'[Leader] = Append(log[Leader], [op |-> "ClaimRun", claim |-> k])
  BY <1>1, <1>6, <1>7, AppendType
<1>10. UNCHANGED <<lastRun, ended, unlogged, forgot>>
  BY DEF ClaimPending, bounds
<1> QED
  BY <1>2, <1>3, <1>4, <1>5, <1>8, <1>9, <1>10

\* What an accepted report does.
LEMMA EndEffect ==
  ASSUME TypeOK, NEW k \in handed, CompleteRun(k) \/ FailRun(k)
  PROVE  /\ k \in S.active /\ k \in Claim
         /\ st'[Leader].active = S.active \ {k} /\ st'[Leader].pending = S.pending
         /\ st'[Leader].fencing = S.fencing
         /\ \E op \in {"CompleteRun", "FailRun"} :
              log'[Leader] = Append(log[Leader], [op |-> op, claim |-> k])
         /\ ended' = ended \cup {k.run}
         /\ UNCHANGED <<lastRun, handed, unlogged, forgot>>
<1>1. Leader \in Nodes /\ S \in ClusterState
  BY ClusterAssumption DEF TypeOK, S
<1>2. PICK s \in ClusterState : s = S
  BY <1>1
<1>3. /\ k \in Claim /\ k \in S.active
      /\ \A op \in {"CompleteRun", "FailRun"} : [op |-> op, claim |-> k] \in Command
  BY ValidIs DEF CompleteRun, FailRun
<1>4. PICK v \in {"Scheduled", "Dead"} :
        \E r \in {EndRun(s, k, v), RescheduleTimer(elapsed, EndRun(s, k, v), k.timer)} :
          Put(Leader, r)
  BY <1>2 DEF CompleteRun, FailRun
<1>5. PICK r \in {EndRun(s, k, v), RescheduleTimer(elapsed, EndRun(s, k, v), k.timer)} :
        Put(Leader, r)
  BY <1>4
<1>6. SameFrame(r, s) /\ r.fencing = s.fencing /\ r.pending = s.pending /\ r.active = s.active \ {k}
  <2>1. k \in s.active
    BY <1>2, <1>3
  <2>2. r \in {EndRun(s, k, v), RescheduleTimer(elapsed, EndRun(s, k, v), k.timer)}
    OBVIOUS
  <2>3. RunEnded(r, s, k)
    BY <2>1, <2>2, EndChange
  <2> QED
    BY <2>3 DEF RunEnded
<1>7. r \in ClusterState
  BY <1>6 DEF SameFrame
<1>8. st'[Leader] = r
  BY <1>1, <1>5, <1>7, PutType
<1>9. PICK op \in {"CompleteRun", "FailRun"} : AppendCommand(Leader, [op |-> op, claim |-> k])
  BY DEF CompleteRun, FailRun
<1>10. log'[Leader] = Append(log[Leader], [op |-> op, claim |-> k])
  BY <1>1, <1>3, <1>9, AppendType
<1>11. ended' = ended \cup {k.run} /\ UNCHANGED <<lastRun, handed, unlogged, forgot>>
  BY DEF CompleteRun, FailRun, bounds
<1> QED
  BY <1>2, <1>3, <1>6, <1>8, <1>10, <1>11

\* What expire_workers does on the leader.
LEMMA ExpireEffect ==
  ASSUME TypeOK, LeaderExpires
  PROVE  \E again \in SUBSET S.active :
           /\ st'[Leader].active \subseteq S.active /\ again \cap st'[Leader].active = {}
           /\ st'[Leader].pending = S.pending \cup Retaken(S, again)
           /\ st'[Leader].fencing = Advanced(S.fencing, {a.timer : a \in again})
           /\ unlogged' = (unlogged \/ st'[Leader].active # S.active)
           /\ UNCHANGED <<log, lastRun, handed, ended, forgot>>
<1>1. Leader \in Nodes /\ S \in ClusterState
  BY ClusterAssumption DEF TypeOK, S
<1>2. PICK s \in ClusterState : s = S
  BY <1>1
<1>3. PICK r : r = ExpireWorkers(s)
  OBVIOUS
<1>4. PICK again \in SUBSET s.active :
           /\ SameFrame(r, s)
           /\ r.active \subseteq s.active /\ again \cap r.active = {}
           /\ r.pending = s.pending \cup Retaken(s, again)
           /\ r.fencing = Advanced(s.fencing, {a.timer : a \in again})
  BY <1>3, ExpireChange
<1>5. Put(Leader, r) /\ unlogged' = (unlogged \/ r.active # s.active)
  BY <1>2, <1>3 DEF LeaderExpires
<1>6. st'[Leader] = r
  BY <1>1, <1>4, <1>5, PutType DEF SameFrame
<1>7. UNCHANGED <<log, lastRun, handed, ended, forgot>>
  BY DEF LeaderExpires, bounds
<1> QED
  BY <1>2, <1>4, <1>5, <1>6, <1>7

\* A line that was written and not synced changes no state.
LEMMA UnsyncedEffect ==
  ASSUME TypeOK,
         (\E w \in Workers : ClaimUnsynced(w)) \/ (\E k \in handed : ReportUnsynced(k))
  PROVE  unlogged' = TRUE /\ UNCHANGED <<st, lastRun, handed, ended, forgot>>
BY DEF ClaimUnsynced, ReportUnsynced, AppendUnsynced

\* What a restart of the leader does.
LEMMA RestartEffect ==
  ASSUME TypeOK, Restart(Leader)
  PROVE  /\ st'[Leader] = Replayed(Leader) /\ Replayed(Leader) \in Restored(Leader)
         /\ forgot' = unlogged
         /\ UNCHANGED <<log, elapsed, lastRun, handed, ended, unlogged>>
<1>1. Leader \in Nodes /\ log[Leader] \in Seq(Command)
  BY ClusterAssumption DEF TypeOK
<1>2. PICK r : r = Replayed(Leader)
  OBVIOUS
<1>3. r \in Restored(Leader)
  BY <1>1, <1>2, ReplayIs DEF Replayed
<1>4. Put(Leader, r)
  BY <1>2 DEF Restart, Replayed
<1>5. r \in ClusterState
  BY <1>3 DEF Restored
<1>6. st'[Leader] = r
  BY <1>1, <1>4, <1>5, PutType
<1>7. forgot' = unlogged /\ UNCHANGED <<log, elapsed, lastRun, handed, ended, unlogged>>
  BY DEF Restart
<1> QED
  BY <1>2, <1>3, <1>6, <1>7

\* Every step keeps one run per timer.
LEMMA RunInvStep == TypeOK /\ CallShape /\ RunInv /\ [Next]_vars => RunInv'
<1> SUFFICES ASSUME TypeOK, CallShape, RunInv, [Next]_vars PROVE RunInv'
  OBVIOUS
<1> DEFINE A == S.active
           P == S.pending
           B == st'[Leader].active
           Q == st'[Leader].pending
<1>a. OneRun(A, P)
  BY DEF RunInv
<1>b. SUFFICES OneRun(B, Q)
  BY DEF RunInv, S
<1> USE DEF OneRun
<1>1. CASE Aside \/ UNCHANGED vars
  BY <1>a, <1>1 DEF Aside, SameQueues, vars, S
<1>2. ASSUME NEW w \in Workers, ClaimPending(w) PROVE OneRun(B, Q)
  <2>1. PICK q \in P : \E k \in Claim :
           /\ k.timer = q.timer /\ B = A \cup {k} /\ Q = P \ {q}
    BY <1>2, ClaimEffect
  <2> HIDE DEF A, B, P, Q
  <2> QED
    BY <1>a, <2>1
<1>3. ASSUME (\E w \in Workers : ClaimUnsynced(w)) \/ (\E k \in handed : ReportUnsynced(k))
      PROVE  OneRun(B, Q)
  BY <1>a, <1>3, UnsyncedEffect DEF S
<1>4. ASSUME NEW k \in handed, CompleteRun(k) \/ FailRun(k) PROVE OneRun(B, Q)
  <2>1. B = A \ {k} /\ Q = P
    BY <1>4, EndEffect
  <2> QED
    BY <1>a, <2>1
<1>5. CASE EnqueueDueRuns
  <2>1. PICK due \in SUBSET Startable : \E id \in [due -> RunIds] :
           B = A /\ Q = P \cup Drawn(id, due)
    BY <1>5, EnqueueChange
  <2>2. PICK id \in [due -> RunIds] : B = A /\ Q = P \cup Drawn(id, due)
    BY <2>1
  <2>3. \A t \in due : (\A a \in A : a.timer # t) /\ (\A q \in P : q.timer # t)
    BY DEF Startable, ActiveOf, QueuedOf
  <2>4. \A x \in Drawn(id, due) : x.timer \in due
    BY DEF Drawn
  <2>5. \A x, y \in Drawn(id, due) : x.timer = y.timer => x = y
    BY DEF Drawn
  <2>6. PICK D : D = Drawn(id, due)
    OBVIOUS
  <2> HIDE DEF A, B, P, Q
  <2> QED
    BY <1>a, <2>2, <2>3, <2>4, <2>5, <2>6
<1>6. CASE LeaderExpires
  <2>1. PICK again \in SUBSET A :
           /\ B \subseteq A /\ again \cap B = {} /\ Q = P \cup Retaken(S, again)
    BY <1>6, ExpireEffect
  <2>2. PICK D : D = Retaken(S, again)
    OBVIOUS
  <2>3. \A x \in D : \E a \in again : x.timer = a.timer
    BY <2>2 DEF Retaken, Requeued
  <2> HIDE DEF A, B, P, Q
  <2>4. \A x, y \in D : x.timer = y.timer => x = y
    <3>1. SUFFICES ASSUME NEW x \in D, NEW y \in D, x.timer = y.timer PROVE x = y
      OBVIOUS
    <3>2. PICK a \in again : x = Requeued(S, a)
      BY <2>2 DEF Retaken
    <3>3. PICK b \in again : y = Requeued(S, b)
      BY <2>2 DEF Retaken
    <3>4. x.timer = a.timer /\ y.timer = b.timer
      BY <3>2, <3>3 DEF Requeued
    <3>5. a = b
      BY <1>a, <2>1, <3>1, <3>4
    <3> QED
      BY <3>2, <3>3, <3>5
  <2> QED
    BY <1>a, <2>1, <2>2, <2>3, <2>4
<1>7. CASE Restart(Leader)
  <2>1. st'[Leader] \in Restored(Leader)
    BY <1>7, RestartEffect
  <2> QED
    BY <2>1 DEF Restored, OneActive
<1> QED
  BY <1>1, <1>2, <1>3, <1>4, <1>5, <1>6, <1>7, RunSteps DEF Report

\* A claim's and a queued run's numbers.
LEMMA RunNumbers ==
  ASSUME TypeOK
  PROVE  /\ \A x \in S.active \cup S.pending : x.run \in Nat /\ x.token \in Nat /\ x.timer \in Timers
         /\ \A j \in handed : j.token \in Nat /\ j.timer \in Timers
         /\ \A t \in Timers : S.fencing[t] \in Nat
         /\ \A r \in ended : r \in Nat
         /\ lastRun \in Nat
<1>1. MaxRuns \in Nat /\ Leader \in Nodes
  BY ClusterAssumption
<1>2. S.active \in SUBSET Claim /\ S.pending \in SUBSET Queued /\ S.fencing \in [Timers -> Nat]
  BY <1>1, StateIs DEF TypeOK, S
<1> QED
  BY <1>1, <1>2 DEF TypeOK, Claim, Queued, RunIds

\* Steps that leave the runs alone do not change what is replayed of them.
LEMMA ReplayedAside ==
  ASSUME TypeOK, Aside \/ (UNCHANGED log)
  PROVE  LET r == Replay(elapsed', Leader, log'[Leader]) IN SameClaims(r, Replayed(Leader))
<1>1. Leader \in Nodes /\ log[Leader] \in Seq(Command)
  BY ClusterAssumption DEF TypeOK
<1>2. PICK past, lines : past = elapsed' /\ lines = log'[Leader]
  OBVIOUS
<1>3. CASE lines = log[Leader]
  BY <1>1, <1>2, <1>3, ReplayTimeless DEF Replayed
<1>4. CASE \E c \in Request : lines = Append(log[Leader], c)
  <2>1. PICK c \in Request : lines = Append(log[Leader], c)
    BY <1>4
  <2>2. c \in Command
    BY DEF Command
  <2>3. PICK r : r = Replay(past, Leader, log[Leader])
    OBVIOUS
  <2>4. r \in ClusterState /\ SameClaims(r, Replayed(Leader))
    BY <1>1, <2>3, ReplayIs, ReplayTimeless DEF Replayed, Restored
  <2>5. Replay(past, Leader, lines) = Apply(past, r, c)
    BY <1>1, <2>1, <2>2, <2>3, ReplayAppend
  <2>6. SameQueues(Apply(past, r, c), r)
    BY <2>4, RequestAside
  <2> QED
    BY <1>2, <2>4, <2>5, <2>6 DEF SameQueues, SameClaims
<1> QED
  BY <1>2, <1>3, <1>4 DEF Aside

\* A claim or the end of a run is replayed as it was made.
LEMMA ReplayedLine ==
  ASSUME TypeOK, NEW c \in Command, log'[Leader] = Append(log[Leader], c)
  PROVE  LET r == Replay(elapsed', Leader, log'[Leader]) IN
         /\ r.active = ActiveAfter(Replayed(Leader).active, c)
         /\ r.fencing = FencingAfter(Replayed(Leader).active, Replayed(Leader).fencing, c)
<1>1. Leader \in Nodes /\ log[Leader] \in Seq(Command)
  BY ClusterAssumption DEF TypeOK
<1>2. PICK past, lines : past = elapsed' /\ lines = log'[Leader]
  OBVIOUS
<1>3. PICK r : r = Replay(past, Leader, log[Leader])
  OBVIOUS
<1>4. r \in ClusterState /\ SameClaims(r, Replayed(Leader))
  BY <1>1, <1>3, ReplayIs, ReplayTimeless DEF Replayed, Restored
<1>5. Replay(past, Leader, lines) = Apply(past, r, c)
  BY <1>1, <1>2, <1>3, ReplayAppend
<1>6. /\ Apply(past, r, c).active = ActiveAfter(r.active, c)
      /\ Apply(past, r, c).fencing = FencingAfter(r.active, r.fencing, c)
  BY <1>4, ApplyIs
<1> QED
  BY <1>2, <1>4, <1>5, <1>6 DEF SameClaims

\* The replayed state is a state.
LEMMA ReplayedFencing ==
  ASSUME TypeOK
  PROVE  Replayed(Leader) \in ClusterState /\ Replayed(Leader).fencing \in [Timers -> Nat]
<1>1. Leader \in Nodes /\ log[Leader] \in Seq(Command)
  BY ClusterAssumption DEF TypeOK
<1>2. Replayed(Leader) \in ClusterState
  BY <1>1, ReplayIs DEF Replayed, Restored
<1> QED
  BY <1>2, StateIs

\* Every step keeps claims, run ids and tokens in order.
LEMMA ClaimInvStep ==
  TypeOK /\ CallShape /\ RunInv /\ ClaimInv /\ [Next]_vars => ClaimInv'
<1> SUFFICES ASSUME TypeOK, CallShape, RunInv, ClaimInv, [Next]_vars PROVE ClaimInv'
  OBVIOUS
<1> DEFINE A == S.active
           P == S.pending
           F == S.fencing
           B == st'[Leader].active
           Q == st'[Leader].pending
           G == st'[Leader].fencing
           old == Replayed(Leader)
           new == Replay(elapsed', Leader, log'[Leader])
           Kept2 == new.active = B /\ \A j \in handed' : j.token <= new.fencing[j.timer]
           Tracked2 ==
             /\ \A x, y \in B \cup Q : x.run = y.run => x.timer = y.timer
             /\ \A x \in B \cup Q : x.run <= lastRun' /\ x.run \notin ended'
             /\ \A r \in ended' : r <= lastRun'
             /\ \A j \in handed' : j.token <= G[j.timer]
             /\ \A q \in Q : /\ q.token <= G[q.timer]
                             /\ \A j \in handed' : j.timer = q.timer => j.token < q.token
           Goal == (forgot' => unlogged') /\ (~unlogged' => Kept2) /\ (~forgot' => Tracked2)
<1>a. OneRun(A, P)
  BY DEF RunInv
<1>b. /\ forgot => unlogged
      /\ ~unlogged => old.active = A /\ \A j \in handed : j.token <= old.fencing[j.timer]
      /\ ~forgot => Tracked(A, P, F)
  BY DEF ClaimInv, Kept
<1>c. /\ \A x \in A \cup P : x.run \in Nat /\ x.token \in Nat /\ x.timer \in Timers
      /\ \A j \in handed : j.token \in Nat /\ j.timer \in Timers
      /\ \A t \in Timers : F[t] \in Nat
      /\ \A r \in ended : r \in Nat
      /\ lastRun \in Nat
  BY RunNumbers
<1>d. old.fencing \in [Timers -> Nat]
  BY ReplayedFencing
<1>e. SUFFICES Goal
  BY DEF ClaimInv, Kept, Tracked, Replayed, S
<1>f. forgot \in BOOLEAN /\ unlogged \in BOOLEAN
  BY DEF TypeOK
<1>g. UNCHANGED log => SameClaims(new, old)
  BY ReplayedAside
<1>1. CASE Aside \/ UNCHANGED vars
  <2>1. B = A /\ Q = P /\ G = F /\ UNCHANGED <<lastRun, handed, ended, unlogged, forgot>>
    BY <1>1 DEF Aside, SameQueues, vars, S
  <2>2. SameClaims(new, old)
    BY <1>1, ReplayedAside DEF vars
  <2> HIDE DEF A, P, F, B, Q, G, old, new
  <2>3. ASSUME ~unlogged' PROVE Kept2
    BY <1>b, <2>1, <2>2, <2>3 DEF SameClaims
  <2>4. ASSUME ~forgot' PROVE Tracked2
    <3>1. Tracked(A, P, F)
      BY <1>b, <2>1, <2>4
    <3> QED
      BY <2>1, <3>1 DEF Tracked
  <2>e. forgot' => unlogged'
    BY <1>b, <2>1
  <2> HIDE DEF Kept2, Tracked2
  <2> QED
    BY <2>e, <2>3, <2>4
<1>2. ASSUME NEW w \in Workers, ClaimPending(w) PROVE Goal
  <2>1. PICK q \in P : \E k \in Claim :
           /\ k.timer = q.timer /\ k.run = q.run /\ k.token = q.token
           /\ B = A \cup {k} /\ Q = P \ {q} /\ G = F
           /\ log'[Leader] = Append(log[Leader], [op |-> "ClaimRun", claim |-> k])
           /\ handed' = handed \cup {k}
           /\ UNCHANGED <<lastRun, ended, unlogged, forgot>>
    BY <1>2, ClaimEffect
  <2>2. PICK k \in Claim :
           /\ k.timer = q.timer /\ k.run = q.run /\ k.token = q.token
           /\ B = A \cup {k} /\ Q = P \ {q} /\ G = F
           /\ log'[Leader] = Append(log[Leader], [op |-> "ClaimRun", claim |-> k])
           /\ handed' = handed \cup {k}
           /\ UNCHANGED <<lastRun, ended, unlogged, forgot>>
    BY <2>1
  <2>3. ASSUME ~unlogged' PROVE Kept2
    <3>1. old.active = A /\ Tracked(A, P, F) /\ \A j \in handed : j.token <= old.fencing[j.timer]
      BY <1>b, <2>2, <2>3
    <3> DEFINE c == [op |-> "ClaimRun", claim |-> k]
    <3>2. c \in Command /\ c.op = "ClaimRun" /\ c.claim = k
      BY DEF Command
    <3>3. new.active = ActiveAfter(old.active, c) /\ new.fencing = FencingAfter(old.active, old.fencing, c)
      BY <2>2, <3>2, ReplayedLine
    <3>4. ~\E a \in A : a.timer = k.timer
      BY <1>a, <2>2 DEF OneRun
    <3> HIDE DEF A, P, F, B, Q, G, old, new, c
    <3>5. new.active = A \cup {k} /\ new.fencing = [old.fencing EXCEPT ![k.timer] = k.token]
      BY <3>1, <3>2, <3>3, <3>4 DEF ActiveAfter, FencingAfter
    <3>6. ASSUME NEW j \in handed' PROVE j.token <= new.fencing[j.timer]
      <4>1. k.timer \in Timers /\ k.token \in Nat
        BY ClaimIs
      <4>2. CASE j = k
        BY <1>d, <3>5, <4>1, <4>2
      <4>3. CASE j \in handed /\ j.timer # k.timer
        BY <1>c, <1>d, <3>1, <3>5, <4>1, <4>3
      <4>4. CASE j \in handed /\ j.timer = k.timer
        <5>1. j.token < q.token
          BY <2>2, <3>1, <4>4 DEF Tracked
        <5>2. new.fencing[j.timer] = q.token
          BY <1>d, <2>2, <3>5, <4>1, <4>4
        <5> QED
          BY <1>c, <4>4, <5>1, <5>2
      <4> QED
        BY <2>2, <4>2, <4>3, <4>4
    <3> QED
      BY <2>2, <3>5, <3>6
  <2>4. ASSUME ~forgot' PROVE Tracked2
    <3>1. Tracked(A, P, F)
      BY <1>b, <2>2, <2>4
    <3>2. \A p \in Q : p.timer # k.timer
      BY <1>a, <2>2 DEF OneRun
    <3> HIDE DEF A, P, F, B, Q, G
    <3> QED
      BY <1>c, <2>2, <3>1, <3>2 DEF Tracked
  <2> QED
    BY <1>b, <2>2, <2>3, <2>4
<1>3. ASSUME (\E w \in Workers : ClaimUnsynced(w)) \/ (\E k \in handed : ReportUnsynced(k))
      PROVE  Goal
  <2>1. B = A /\ Q = P /\ G = F /\ unlogged' = TRUE /\ UNCHANGED <<lastRun, handed, ended, forgot>>
    BY <1>3, UnsyncedEffect DEF S
  <2> HIDE DEF A, P, F, B, Q, G, old, new
  <2> QED
    BY <1>b, <2>1 DEF Tracked
<1>4. ASSUME NEW k \in handed, CompleteRun(k) \/ FailRun(k) PROVE Goal
  <2>1. /\ k \in A /\ k \in Claim
        /\ B = A \ {k} /\ Q = P /\ G = F
        /\ \E op \in {"CompleteRun", "FailRun"} :
             log'[Leader] = Append(log[Leader], [op |-> op, claim |-> k])
        /\ ended' = ended \cup {k.run}
        /\ UNCHANGED <<lastRun, handed, unlogged, forgot>>
    BY <1>4, EndEffect
  <2>2. ASSUME ~unlogged' PROVE Kept2
    <3>1. PICK op \in {"CompleteRun", "FailRun"} :
            log'[Leader] = Append(log[Leader], [op |-> op, claim |-> k])
      BY <2>1
    <3>2. PICK c : c = [op |-> op, claim |-> k]
      OBVIOUS
    <3>3. c \in Command /\ c.op = op /\ c.claim = k
      BY <2>1, <3>2 DEF Command
    <3>4. new.active = ActiveAfter(old.active, c) /\ new.fencing = FencingAfter(old.active, old.fencing, c)
      BY <3>1, <3>2, <3>3, ReplayedLine
    <3> HIDE DEF A, P, F, B, Q, G, old, new
    <3>5. new.active = old.active \ {k} /\ new.fencing = old.fencing
      BY <3>3, <3>4 DEF ActiveAfter, FencingAfter
    <3> QED
      BY <1>b, <2>1, <2>2, <3>5
  <2>3. ASSUME ~forgot' PROVE Tracked2
    <3>1. Tracked(A, P, F)
      BY <1>b, <2>1, <2>3
    <3> HIDE DEF A, P, F, B, Q, G
    <3>2. \A x \in B \cup Q : x.timer # k.timer
      BY <1>a, <2>1 DEF OneRun
    <3>3. \A x \in B \cup Q : x.run # k.run
      BY <2>1, <3>1, <3>2 DEF Tracked
    <3> QED
      BY <1>c, <2>1, <3>1, <3>3 DEF Tracked
  <2> QED
    BY <1>b, <2>1, <2>2, <2>3
<1>5. CASE EnqueueDueRuns
  <2>1. PICK due \in SUBSET Startable : \E id \in [due -> RunIds] :
           /\ lastRun' \in Nat /\ lastRun <= lastRun'
           /\ \A t \in due : lastRun < id[t] /\ id[t] <= lastRun'
           /\ \A t, u \in due : id[t] = id[u] => t = u
           /\ B = A /\ Q = P \cup Drawn(id, due) /\ G = Advanced(F, due)
    BY <1>5, EnqueueChange
  <2>2. PICK id \in [due -> RunIds] :
           /\ lastRun' \in Nat /\ lastRun <= lastRun'
           /\ \A t \in due : lastRun < id[t] /\ id[t] <= lastRun'
           /\ \A t, u \in due : id[t] = id[u] => t = u
           /\ B = A /\ Q = P \cup Drawn(id, due) /\ G = Advanced(F, due)
    BY <2>1
  <2>3. UNCHANGED <<log, handed, ended, unlogged, forgot>>
    BY <1>5 DEF EnqueueDueRuns, history
  <2>4. \A x \in Drawn(id, due) : x.timer \in due /\ x.run = id[x.timer] /\ x.token = F[x.timer] + 1
    BY DEF Drawn
  <2>5. due \subseteq Timers /\ \A t \in due : id[t] \in Nat
    BY ClusterAssumption DEF Startable, RunIds
  <2>6. PICK D : D = Drawn(id, due)
    OBVIOUS
  <2>7. \A t \in Timers : G[t] = F[t] + (IF t \in due THEN 1 ELSE 0)
    BY <2>2 DEF Advanced
  <2> HIDE DEF A, P, F, B, Q, G, old, new
  <2>8. ASSUME ~unlogged' PROVE Kept2
    BY <1>b, <1>g, <2>2, <2>3, <2>8 DEF SameClaims
  <2>9. ASSUME ~forgot' PROVE Tracked2
    <3>1. Tracked(A, P, F)
      BY <1>b, <2>3, <2>9
    <3>2. \A x \in D : x.timer \in due /\ lastRun < x.run /\ x.run <= lastRun' /\ x.run \in Nat
      BY <2>2, <2>4, <2>5, <2>6
    <3>3. \A x, y \in D : x.run = y.run => x.timer = y.timer
      BY <2>2, <2>4, <2>6
    <3>4. B \cup Q = A \cup P \cup D
      BY <2>2, <2>6
    <3>5. ASSUME NEW x \in B \cup Q, NEW y \in B \cup Q, x.run = y.run PROVE x.timer = y.timer
      BY <1>c, <3>1, <3>2, <3>3, <3>4, <3>5 DEF Tracked
    <3>6. ASSUME NEW x \in B \cup Q PROVE x.run <= lastRun' /\ x.run \notin ended'
      BY <1>c, <2>2, <2>3, <3>1, <3>2, <3>4 DEF Tracked
    <3>7. \A r \in ended' : r <= lastRun'
      BY <1>c, <2>2, <2>3, <3>1 DEF Tracked
    <3>8. \A j \in handed' : j.token <= G[j.timer]
      BY <1>c, <2>3, <2>7, <3>1 DEF Tracked
    <3>9. ASSUME NEW q \in Q
          PROVE  q.token <= G[q.timer] /\ \A j \in handed' : j.timer = q.timer => j.token < q.token
      <4>1. CASE q \in P
        BY <1>c, <2>3, <2>7, <3>1, <4>1 DEF Tracked
      <4>2. CASE q \in D
        <5>1. q.timer \in Timers /\ q.token = F[q.timer] + 1 /\ G[q.timer] = F[q.timer] + 1
          BY <2>4, <2>5, <2>6, <2>7, <4>2
        <5> QED
          BY <1>c, <2>3, <3>1, <5>1 DEF Tracked
      <4> QED
        BY <2>2, <2>6, <4>1, <4>2
    <3> QED
      BY <3>5, <3>6, <3>7, <3>8, <3>9
  <2>e. forgot' => unlogged'
    BY <1>b, <2>3, <2>8, <2>9
  <2> HIDE DEF Kept2, Tracked2
  <2> QED
    BY <2>e, <2>8, <2>9
<1>6. CASE LeaderExpires
  <2>1. PICK again \in SUBSET A :
           /\ B \subseteq A /\ again \cap B = {} /\ Q = P \cup Retaken(S, again)
           /\ G = Advanced(F, {a.timer : a \in again})
           /\ unlogged' = (unlogged \/ B # A)
           /\ UNCHANGED <<log, lastRun, handed, ended, forgot>>
    BY <1>6, ExpireEffect
  <2>2. PICK D : D = Retaken(S, again)
    OBVIOUS
  <2>3. \A x \in D : \E a \in again : x.timer = a.timer /\ x.run = a.run /\ x.token = F[a.timer] + 1
    BY <2>2 DEF Retaken, Requeued
  <2>4. \A t \in Timers : G[t] = F[t] + (IF t \in {a.timer : a \in again} THEN 1 ELSE 0)
    BY <2>1 DEF Advanced
  <2>a. \A a \in again : a \in A
    BY <2>1
  <2>b. B \subseteq A /\ Q = P \cup D /\ UNCHANGED <<log, lastRun, handed, ended, forgot>>
    BY <2>1, <2>2
  <2>c. \A t \in Timers : G[t] = F[t] \/ G[t] = F[t] + 1
    BY <1>c, <2>4
  <2>d. \A a \in again : a.timer \in Timers /\ G[a.timer] = F[a.timer] + 1
    BY <1>c, <2>4, <2>a
  <2> HIDE DEF A, P, F, B, Q, G, old, new
  <2>5. ASSUME ~unlogged' PROVE Kept2
    <3>1. ~unlogged /\ B = A
      BY <2>1, <2>5
    <3> QED
      BY <1>b, <1>g, <2>1, <3>1 DEF SameClaims
  <2>6. ASSUME ~forgot' PROVE Tracked2
    <3>1. Tracked(A, P, F)
      BY <1>b, <2>1, <2>6
    <3>2. \A x \in B \cup Q : \E y \in A \cup P : x.run = y.run /\ x.timer = y.timer
      BY <2>3, <2>a, <2>b
    <3>5. ASSUME NEW x \in B \cup Q, NEW y \in B \cup Q, x.run = y.run PROVE x.timer = y.timer
      <4>1. PICK u \in A \cup P : x.run = u.run /\ x.timer = u.timer
        BY <3>2
      <4>2. PICK v \in A \cup P : y.run = v.run /\ y.timer = v.timer
        BY <3>2
      <4> QED
        BY <3>1, <3>5, <4>1, <4>2 DEF Tracked
    <3>6. ASSUME NEW x \in B \cup Q PROVE x.run <= lastRun' /\ x.run \notin ended'
      BY <2>b, <3>1, <3>2 DEF Tracked
    <3>7. \A r \in ended' : r <= lastRun'
      BY <2>b, <3>1 DEF Tracked
    <3>8. \A j \in handed' : j.token <= G[j.timer]
      BY <1>c, <2>b, <2>c, <3>1 DEF Tracked
    <3>9. ASSUME NEW q \in Q
          PROVE  q.token <= G[q.timer] /\ \A j \in handed' : j.timer = q.timer => j.token < q.token
      <4>1. CASE q \in P
        BY <1>c, <2>b, <2>c, <3>1, <4>1 DEF Tracked
      <4>2. CASE q \in D
        <5>1. q.timer \in Timers /\ q.token = F[q.timer] + 1 /\ G[q.timer] = F[q.timer] + 1
          BY <2>3, <2>d, <4>2
        <5> QED
          BY <1>c, <2>b, <3>1, <5>1 DEF Tracked
      <4> QED
        BY <2>b, <4>1, <4>2
    <3> QED
      BY <3>5, <3>6, <3>7, <3>8, <3>9
  <2>e. forgot' => unlogged'
    BY <1>b, <2>1, <2>5, <2>6
  <2> HIDE DEF Kept2, Tracked2
  <2> QED
    BY <2>e, <2>5, <2>6
<1>7. CASE Restart(Leader)
  <2>1. /\ st'[Leader] = old /\ old \in Restored(Leader) /\ forgot' = unlogged
        /\ UNCHANGED <<log, elapsed, lastRun, handed, ended, unlogged>>
    BY <1>7, RestartEffect
  <2>2. B = old.active /\ Q = {} /\ G = old.fencing
    BY <2>1 DEF Restored
  <2>3. SameClaims(new, old)
    BY <1>g, <2>1
  <2> HIDE DEF A, P, F, B, Q, G, old, new
  <2>4. ASSUME ~unlogged' PROVE Kept2
    BY <1>b, <2>1, <2>2, <2>3, <2>4 DEF SameClaims
  <2>5. ASSUME ~forgot' PROVE Tracked2
    <3>1. ~unlogged /\ ~forgot
      BY <1>b, <2>1, <2>5
    <3>2. Tracked(A, P, F) /\ B = A
      BY <1>b, <2>2, <3>1
    <3> QED
      BY <1>b, <2>1, <2>2, <3>1, <3>2 DEF Tracked
  <2>e. forgot' => unlogged'
    BY <2>1, <2>4, <2>5
  <2> HIDE DEF Kept2, Tracked2
  <2> QED
    BY <2>e, <2>4, <2>5
<1> HIDE DEF Goal
<1> QED
  BY <1>1, <1>2, <1>3, <1>4, <1>5, <1>6, <1>7, RunSteps DEF Report

\* At the start there are no runs.
LEMMA RunsInit == Init => RunInv /\ ClaimInv
<1> SUFFICES ASSUME Init PROVE RunInv /\ ClaimInv
  OBVIOUS
<1>1. Leader \in Nodes /\ Logs[Leader] \in Seq(Request) /\ Logs[Leader] \in Seq(Command)
  BY ClusterAssumption DEF Command
<1>2. PICK r : r = Replay(elapsed, Leader, Logs[Leader])
  OBVIOUS
<1>3. r \in Restored(Leader) /\ r.active = {}
  BY <1>1, <1>2, ReplayIs, ReplayUnclaimed
<1>4. S = r /\ Replayed(Leader) = r
  BY <1>1, <1>2 DEF Init, S, Replayed
<1>5. S.active = {} /\ S.pending = {} /\ handed = {} /\ ended = {} /\ forgot = FALSE
  BY <1>3, <1>4 DEF Init, Restored
<1>6. Replayed(Leader).active = S.active
  BY <1>4
<1>7. RunInv
  BY <1>5 DEF RunInv, OneRun
<1> QED
  BY <1>5, <1>6, <1>7 DEF ClaimInv, Kept, Tracked

\* At most one member, at most one in the count.
LEMMA AtMostOne ==
  ASSUME NEW T, \A x, y \in T : x = y
  PROVE  (T = {} /\ Cardinality(T) = 0) \/ (T # {} /\ Cardinality(T) = 1)
<1>1. CASE T = {}
  BY <1>1, FS_EmptySet
<1>2. CASE T # {}
  <2>1. PICK x \in T : T = {x}
    BY <1>2
  <2> QED
    BY <2>1, FS_Singleton
<1> QED
  BY <1>1, <1>2

\* No two runs of a timer, in numbers.
LEMMA RunInvOne == RunInv => OneRunPerTimer
<1> SUFFICES ASSUME RunInv, NEW t \in Timers
             PROVE  Cardinality(ActiveOf(S, t)) + Cardinality(QueuedOf(S, t)) <= 1
  BY DEF OneRunPerTimer
<1> DEFINE A == ActiveOf(S, t)
           Q == QueuedOf(S, t)
<1>1. (\A x, y \in A : x = y) /\ (\A x, y \in Q : x = y) /\ (A = {} \/ Q = {})
  BY DEF RunInv, OneRun, ActiveOf, QueuedOf
<1> HIDE DEF A, Q
<1>2. (A = {} /\ Cardinality(A) = 0) \/ (A # {} /\ Cardinality(A) = 1)
  BY <1>1, AtMostOne
<1>3. (Q = {} /\ Cardinality(Q) = 0) \/ (Q # {} /\ Cardinality(Q) = 1)
  BY <1>1, AtMostOne
<1>4. Cardinality(A) + Cardinality(Q) <= 1
  BY <1>1, <1>2, <1>3
<1> QED
  BY <1>4 DEF A, Q

RunsInv == TypeOK /\ NodeInv /\ CallShape /\ RunInv /\ ClaimInv

\* The invariant of the runs.
LEMMA RunsSafe == Spec => []RunsInv
<1>1. Init => RunsInv
  BY TypeInit, RunsInit DEF RunsInv
<1>2. RunsInv /\ [Next]_vars => RunsInv'
  BY TypeStep, RunInvStep, ClaimInvStep DEF RunsInv
<1> QED
  BY <1>1, <1>2, PTL DEF Spec

\* No timer ever has two runs, whatever is claimed, reported, taken back,
\* replayed or created again (enqueue_due_runs, expire_workers).
THEOREM OneRunSafe == Spec => []OneRunPerTimer
<1>1. RunsInv => OneRunPerTimer
  BY RunInvOne DEF RunsInv
<1> QED
  BY <1>1, RunsSafe, PTL

\* A crash at any moment loses no claim and revives none, until an expiry or
\* a failed sync has parted the memory and the log.
THEOREM ClaimsReplayed == Spec => []ReplayKeepsClaims
<1>1. RunsInv => ReplayKeepsClaims
  BY DEF RunsInv, ClaimInv, Kept, Replayed, ReplayKeepsClaims
<1> QED
  BY <1>1, RunsSafe, PTL

\* An accepted report ends the run for good.
THEOREM EndedSafe == Spec => []EndedStaysEnded
<1>1. RunsInv => EndedStaysEnded
  BY DEF RunsInv, ClaimInv, Tracked, EndedStaysEnded
<1> QED
  BY <1>1, RunsSafe, PTL

\* The fencing tokens of a timer's claims only grow.
THEOREM TokensSafe == Spec => TokensGrow
<1> DEFINE Grow == ~forgot' => \A k \in handed' \ handed, j \in handed :
                                 j.timer = k.timer => j.token < k.token
<1>1. RunsInv /\ [Next]_vars => [Grow]_vars
  <2> SUFFICES ASSUME RunsInv, Next, ~forgot',
                      NEW k \in handed' \ handed, NEW j \in handed, j.timer = k.timer
               PROVE  j.token < k.token
    OBVIOUS
  <2>1. TypeOK /\ CallShape /\ ClaimInv
    BY DEF RunsInv
  <2>2. PICK w \in Workers : ClaimPending(w)
    <3>1. \/ UNCHANGED handed
          \/ \E w \in Workers : ClaimPending(w)
      BY <2>1, RunSteps, UnsyncedEffect, EndEffect, RestartEffect
      DEF Aside, Report, EnqueueDueRuns, LeaderExpires, history
    <3> QED
      BY <3>1
  <2>3. PICK q \in S.pending : \E c \in Claim :
           /\ c.timer = q.timer /\ c.token = q.token
           /\ handed' = handed \cup {c} /\ UNCHANGED forgot
    BY <2>1, <2>2, ClaimEffect
  <2>4. k.timer = q.timer /\ k.token = q.token /\ ~forgot
    BY <2>3
  <2> QED
    BY <2>1, <2>4 DEF ClaimInv, Tracked
<1> QED
  BY <1>1, RunsSafe, PTL DEF Spec, TokensGrow

-----------------------------------------------------------------------------
(* Requests                                                                *)

\* The logs only grow, so what a node holds it keeps.
Grown(old, new) == \A n \in Nodes : ToSet(old[n]) \subseteq ToSet(new[n])

\* No step removes a line from a log.
LEMMA LogsGrow ==
  ASSUME TypeOK, CallShape, [Next]_vars
  PROVE  Grown(log, log')
<1>1. CASE UNCHANGED log
  BY <1>1 DEF Grown
<1>2. ASSUME NEW n \in Nodes, NEW c \in Command, AppendCommand(n, c) PROVE Grown(log, log')
  <2>1. ASSUME NEW m \in Nodes PROVE ToSet(log[m]) \subseteq ToSet(log'[m])
    <3>1. log[m] \in Seq(Command)
      BY DEF TypeOK
    <3>2. log'[m] = log[m] \/ log'[m] = Append(log[m], c)
      BY <1>2, AppendType
    <3>3. ToSet(log[m]) \subseteq ToSet(Append(log[m], c))
      BY <3>1 DEF ToSet
    <3> QED
      BY <3>2, <3>3
  <2> QED
    BY <2>1 DEF Grown
<1> QED
  BY <1>1, <1>2, LogStep DEF vars

\* A log holds the line that was appended to it.
LEMMA AppendHolds ==
  ASSUME NEW q \in Seq(Command), NEW c \in Command
  PROVE  c \in ToSet(Append(q, c))
<1>1. PICK a, n : a = Append(q, c) /\ n = Len(q) + 1
  OBVIOUS
<1>2. n \in 1 .. Len(a) /\ a[n] = c /\ DOMAIN a = 1 .. Len(a)
  BY <1>1
<1> QED
  BY <1>1, <1>2 DEF ToSet

\* Counting subsets of the nodes.
LEMMA Counts ==
  ASSUME NEW A, NEW B \in SUBSET Nodes, A \subseteq B
  PROVE  /\ IsFiniteSet(A) /\ IsFiniteSet(B)
         /\ Cardinality(A) \in Nat /\ Cardinality(B) \in Nat /\ Cardinality(A) <= Cardinality(B)
<1>1. IsFiniteSet(Nodes)
  BY ClusterAssumption
<1>2. IsFiniteSet(B)
  BY <1>1, FS_Subset
<1> QED
  BY <1>2, FS_Subset, FS_CardinalityType

\* A majority that holds a command goes on holding it.
LEMMA MajorityStays ==
  ASSUME NEW old, NEW new, Grown(old, new), NEW cmd, NEW nodes \in SUBSET Nodes,
         OnMajority(old, cmd, nodes)
  PROVE  OnMajority(new, cmd, nodes)
<1> DEFINE A == {n \in nodes : Holds(old, n, cmd)}
           B == {n \in nodes : Holds(new, n, cmd)}
<1>1. A \subseteq B /\ B \subseteq Nodes
  BY DEF Grown, Holds
<1>2. 2 * Cardinality(A) > Cardinality(nodes) /\ Cardinality(nodes) \in Nat
  BY Counts DEF OnMajority
<1> HIDE DEF A, B
<1>3. Cardinality(A) \in Nat /\ Cardinality(B) \in Nat /\ Cardinality(A) <= Cardinality(B)
  BY <1>1, Counts
<1>4. 2 * Cardinality(B) > Cardinality(nodes)
  BY <1>2, <1>3
<1> QED
  BY <1>4 DEF B, OnMajority

\* A call nobody moved is as good as before.
LEMMA CallStays ==
  ASSUME NEW old, NEW new, Grown(old, new), NEW call \in Call, CallOK(old, call),
         call.pc = "sent" => call.todo # << >>
  PROVE  CallOK(new, call)
<1>1. call.nodes \in SUBSET Nodes /\ call.acks \in Nat /\ call.todo \in Seq(Nodes)
  BY CallIs
<1>2. ASSUME call.pc \in {"replicate", "sent"}
      PROVE  call.acks <= 1 + Cardinality(Took(new, call))
  <2> DEFINE A == Took(old, call)
             B == Took(new, call)
  <2>1. A \subseteq B /\ B \subseteq Nodes
    BY <1>1 DEF Took, Holds, Grown
  <2>2. call.acks <= 1 + Cardinality(A)
    BY <1>2 DEF CallOK
  <2> HIDE DEF A, B
  <2>3. Cardinality(A) \in Nat /\ Cardinality(B) \in Nat /\ Cardinality(A) <= Cardinality(B)
    BY <2>1, Counts
  <2>4. call.acks <= 1 + Cardinality(B)
    BY <1>1, <2>2, <2>3
  <2> QED
    BY <2>4 DEF B
<1>3. ASSUME call.pc = "sent" PROVE Holds(new, Head(call.todo), call.cmd)
  <2>1. Head(call.todo) \in Nodes
    BY <1>1, <1>3
  <2> QED
    BY <1>3, <2>1 DEF Holds, Grown, CallOK
<1>4. ASSUME call.pc = "logged", call.nodes # {} PROVE OnMajority(new, call.cmd, call.nodes)
  BY <1>1, <1>4, MajorityStays DEF CallOK
<1> QED
  BY <1>2, <1>3, <1>4 DEF CallOK

\* The rest of a list without repetition.
LEMMA TailOnce ==
  ASSUME NEW q \in Seq(Nodes), q # << >>, Once(q)
  PROVE  /\ Tail(q) \in Seq(Nodes) /\ Once(Tail(q)) /\ Head(q) \in ToSet(q) /\ Head(q) \in Nodes
         /\ ToSet(Tail(q)) \subseteq ToSet(q) /\ Head(q) \notin ToSet(Tail(q))
<1>1. /\ Len(q) \in Nat /\ Len(q) >= 1 /\ Head(q) = q[1] /\ Tail(q) \in Seq(Nodes)
      /\ Len(Tail(q)) = Len(q) - 1
      /\ \A i \in 1 .. (Len(q) - 1) : Tail(q)[i] = q[i + 1]
  BY HeadTailProperties, EmptySeq, LenProperties
<1>2. Once(Tail(q))
  BY <1>1 DEF Once
<1>3. ToSet(Tail(q)) = {Tail(q)[i] : i \in 1 .. (Len(q) - 1)} /\ ToSet(q) = {q[i] : i \in 1 .. Len(q)}
  <2>1. DOMAIN q = 1 .. Len(q) /\ DOMAIN Tail(q) = 1 .. Len(Tail(q))
    BY <1>1, LenProperties
  <2>2. DOMAIN Tail(q) = 1 .. (Len(q) - 1)
    BY <1>1, <2>1
  <2> QED
    BY <2>1, <2>2, Zenon DEF ToSet
<1>4. ASSUME NEW x \in ToSet(Tail(q)) PROVE x \in ToSet(q) /\ x # q[1]
  <2>1. PICK i \in 1 .. (Len(q) - 1) : x = Tail(q)[i]
    BY <1>3
  <2>2. x = q[i + 1] /\ i + 1 \in 1 .. Len(q) /\ i + 1 # 1 /\ 1 \in 1 .. Len(q)
    BY <1>1, <2>1
  <2> QED
    BY <1>3, <2>2 DEF Once
<1>5. Head(q) \in ToSet(q) /\ Head(q) \in Nodes
  BY <1>1, <1>3
<1> QED
  BY <1>1, <1>2, <1>4, <1>5

\* The next peer was not reached.
LEMMA PeerSkipped ==
  ASSUME NEW logs, NEW x \in Call, CallOK(logs, x), x.pc \in {"replicate", "sent"}, x.todo # << >>,
         NEW y \in Call, y.pc = "replicate", y.cmd = x.cmd, y.todo = Tail(x.todo),
         y.acks = x.acks, y.nodes = x.nodes
  PROVE  CallOK(logs, y)
<1>1. x.nodes \in SUBSET Nodes /\ x.acks \in Nat /\ x.todo \in Seq(Nodes)
  BY CallIs
<1>2. /\ Leader \in x.nodes /\ Leader \notin ToSet(x.todo) /\ ToSet(x.todo) \subseteq x.nodes
      /\ Once(x.todo) /\ x.acks <= 1 + Cardinality(Took(logs, x))
  BY DEF CallOK
<1>3. ToSet(y.todo) \subseteq ToSet(x.todo) /\ Once(y.todo)
  BY <1>1, <1>2, TailOnce
<1>4. Took(logs, x) \subseteq Took(logs, y) /\ Took(logs, y) \in SUBSET Nodes
  BY <1>1, <1>3 DEF Took
<1>5. /\ Cardinality(Took(logs, x)) \in Nat /\ Cardinality(Took(logs, y)) \in Nat
      /\ Cardinality(Took(logs, x)) <= Cardinality(Took(logs, y))
  BY <1>4, Counts
<1>6. y.acks <= 1 + Cardinality(Took(logs, y))
  BY <1>1, <1>2, <1>5
<1> QED
  BY <1>2, <1>3, <1>6 DEF CallOK

\* The next peer has the line, and its answer has arrived or not.
LEMMA PeerTook ==
  ASSUME NEW logs, NEW x \in Call, CallOK(logs, x), x.pc = "sent", x.todo # << >>,
         NEW y \in Call, y.pc = "replicate", y.cmd = x.cmd, y.todo = Tail(x.todo),
         y.acks \in {x.acks, x.acks + 1}, y.nodes = x.nodes
  PROVE  CallOK(logs, y)
<1>1. x.nodes \in SUBSET Nodes /\ x.acks \in Nat /\ x.todo \in Seq(Nodes)
  BY CallIs
<1>2. /\ Leader \in x.nodes /\ Leader \notin ToSet(x.todo) /\ ToSet(x.todo) \subseteq x.nodes
      /\ Once(x.todo) /\ x.acks <= 1 + Cardinality(Took(logs, x))
      /\ Holds(logs, Head(x.todo), x.cmd)
  BY DEF CallOK
<1> DEFINE p == Head(x.todo)
<1>3. /\ ToSet(y.todo) \subseteq ToSet(x.todo) /\ Once(y.todo)
      /\ p \in ToSet(x.todo) /\ p \notin ToSet(y.todo)
  BY <1>1, <1>2, TailOnce
<1> HIDE DEF p
<1>4. /\ Took(logs, x) \cup {p} \subseteq Took(logs, y) /\ Took(logs, y) \in SUBSET Nodes
      /\ p \notin Took(logs, x)
  BY <1>1, <1>2, <1>3 DEF Took, p
<1>5. IsFiniteSet(Took(logs, x)) /\ Cardinality(Took(logs, x)) \in Nat
  BY <1>4, Counts
<1>6. Cardinality(Took(logs, x) \cup {p}) = Cardinality(Took(logs, x)) + 1
  BY <1>4, <1>5, FS_AddElement
<1>7. /\ Cardinality(Took(logs, y)) \in Nat
      /\ Cardinality(Took(logs, x) \cup {p}) <= Cardinality(Took(logs, y))
  BY <1>4, Counts
<1>8. y.acks <= 1 + Cardinality(Took(logs, y))
  BY <1>1, <1>2, <1>5, <1>6, <1>7
<1> QED
  BY <1>2, <1>3, <1>8 DEF CallOK

\* The leader's own line makes a majority of the acknowledgements.
LEMMA QuorumReached ==
  ASSUME NEW old, NEW new, Grown(old, new), NEW x \in Call, CallOK(old, x), x.pc = "replicate",
         x.acks >= Majority(x), Holds(new, Leader, x.cmd)
  PROVE  OnMajority(new, x.cmd, x.nodes)
<1>1. x.nodes \in SUBSET Nodes /\ x.acks \in Nat
  BY CallIs
<1> DEFINE T == Took(old, x)
           B == {n \in x.nodes : Holds(new, n, x.cmd)}
<1>2. Leader \in x.nodes /\ x.acks <= 1 + Cardinality(T)
  BY DEF CallOK
<1>3. T \cup {Leader} \subseteq B /\ B \in SUBSET Nodes /\ Leader \notin T /\ T \in SUBSET Nodes
  BY <1>1, <1>2 DEF Took, Holds, Grown
<1>4. Cardinality(x.nodes) \in Nat
  BY <1>1, Counts
<1>5. x.acks >= Cardinality(x.nodes) \div 2 + 1
  BY DEF Majority
<1> HIDE DEF T, B
<1>6. IsFiniteSet(T) /\ Cardinality(T) \in Nat
  BY <1>3, Counts
<1>7. Cardinality(T \cup {Leader}) = Cardinality(T) + 1
  BY <1>3, <1>6, FS_AddElement
<1>8. Cardinality(B) \in Nat /\ Cardinality(T \cup {Leader}) <= Cardinality(B)
  BY <1>3, Counts
<1>9. 2 * Cardinality(B) > Cardinality(x.nodes)
  <2>1. PICK b, m, h \in Nat : b = Cardinality(B) /\ m = Cardinality(x.nodes) /\ h = m \div 2
    BY <1>4, <1>8
  <2>2. 2 * h + 1 >= m
    BY <2>1
  <2>3. b >= h + 1
    BY <1>1, <1>2, <1>5, <1>6, <1>7, <1>8, <2>1
  <2> QED
    BY <2>1, <2>2, <2>3
<1> QED
  BY <1>9 DEF B, OnMajority

\* The fields of a call that has moved.
LEMMA MovedIs ==
  ASSUME NEW c, NEW pc, NEW cmd, NEW todo, NEW acks, NEW nodes, Moved(c, pc, cmd, todo, acks, nodes),
         c \in Callers
  PROVE  /\ calls'[c] \in Call /\ calls'[c].pc = pc /\ calls'[c].cmd = cmd /\ calls'[c].todo = todo
         /\ calls'[c].acks = acks /\ calls'[c].nodes = nodes
         /\ \A d \in Callers \ {c} : calls'[d] = calls[d]
BY DEF Moved

\* Every step keeps the count of acknowledgements honest.
LEMMA CallInvStep ==
  TypeOK /\ NodeInv /\ CallShape /\ CallInv /\ [Next]_vars => CallInv'
<1> SUFFICES ASSUME TypeOK, NodeInv, CallShape, CallInv, [Next]_vars PROVE CallInv'
  OBVIOUS
<1> DEFINE Goal == /\ \A d \in Callers : CallOK(log', calls'[d])
                   /\ \A a \in answered' : OnMajority(log', a.cmd, a.nodes)
<1>a. SUFFICES Goal
  BY DEF CallInv
<1>b. PICK new : new = log' /\ Grown(log, new)
  BY LogsGrow
<1>c. ASSUME NEW d \in Callers PROVE CallOK(new, calls[d]) /\ calls[d] \in Call /\ CallOK(log, calls[d])
  <2>1. calls[d] \in Call /\ CallOK(log, calls[d]) /\ (calls[d].pc = "sent" => calls[d].todo # << >>)
    BY DEF TypeOK, CallInv, CallShape
  <2> QED
    BY <1>b, <2>1, CallStays
<1>d. ASSUME NEW a \in answered PROVE OnMajority(new, a.cmd, a.nodes)
  <2>1. a.nodes \in SUBSET Nodes /\ OnMajority(log, a.cmd, a.nodes)
    BY DEF TypeOK, CallInv
  <2> QED
    BY <1>b, <2>1, MajorityStays
<1>e. CallOK(new, Idle)
  BY IdleIs DEF CallOK
<1>f. ASSUME \A d \in Callers : calls'[d] \in {calls[d], Idle}, UNCHANGED answered PROVE Goal
  BY <1>b, <1>c, <1>d, <1>e, <1>f
<1>g. ASSUME NEW c \in Callers, CallOK(new, calls'[c]),
             \A d \in Callers \ {c} : calls'[d] = calls[d], UNCHANGED answered
      PROVE  Goal
  BY <1>b, <1>c, <1>d, <1>g
<1>h. Leader \in Nodes
  BY ClusterAssumption
<1> HIDE DEF Goal
<1>1. CASE UNCHANGED vars
  BY <1>f, <1>1 DEF vars
<1>2. ASSUME NEW c \in Callers, CallStep(c) PROVE Goal
  <2> DEFINE x == calls[c]
             y == calls'[c]
  <2>0. ~ApplyOwn(c) => UNCHANGED answered
    BY <1>2 DEF CallStep, BeginReplicated, BeginLocal, ReplicateSend, ReplicateApply,
                ReplicateUnreachable, QuorumFails, QuorumAppend, RequestUnsynced, history
  <2>1. ASSUME NEW cmd \in Requests, BeginReplicated(c, cmd) PROVE Goal
    <3>0. UNCHANGED answered
      BY <2>1 DEF BeginReplicated
    <3>1. S.self = Leader /\ PeersOnce(S) /\ S.peers \in Seq(Nodes)
      BY <1>h, StateIs DEF NodeInv, TypeOK, S
    <3>2. Moved(c, "replicate", cmd, S.peers, 1, {Leader} \cup ToSet(S.peers))
      BY <2>1, BeginReplicatedMoves
    <3>3. /\ y \in Call /\ y.pc = "replicate" /\ y.todo = S.peers
          /\ y.acks = 1 /\ y.nodes = {Leader} \cup ToSet(S.peers)
          /\ \A d \in Callers \ {c} : calls'[d] = calls[d]
      BY <3>2, MovedIs
    <3> HIDE DEF y
    <3>4. Took(new, y) \in SUBSET Nodes
      BY <3>3, CallIs DEF Took
    <3>5. 1 <= 1 + Cardinality(Took(new, y))
      BY <3>4, Counts
    <3>6. CallOK(new, y)
      BY <3>1, <3>3, <3>5 DEF CallOK, PeersOnce, Once
    <3> QED
      BY <1>g, <3>0, <3>3, <3>6 DEF y
  <2>2. ASSUME NEW cmd \in Requests, BeginLocal(c, cmd) PROVE Goal
    <3>0. UNCHANGED answered
      BY <2>2 DEF BeginLocal
    <3>1. Moved(c, "logged", cmd, << >>, 0, {})
      BY <2>2, BeginLocalMoves
    <3>2. y.pc = "logged" /\ y.nodes = {} /\ \A d \in Callers \ {c} : calls'[d] = calls[d]
      BY <3>1, MovedIs
    <3>3. CallOK(new, y)
      BY <3>2 DEF CallOK
    <3> QED
      BY <1>g, <3>0, <3>2, <3>3
  <2>3. CASE ReplicateSend(c)
    <3>1. x.pc = "replicate" /\ x.todo # << >> /\ AppendCommand(Head(x.todo), x.cmd)
          /\ UNCHANGED answered
      BY <2>3 DEF ReplicateSend, history
    <3>2. x.cmd \in Command /\ Head(x.todo) \in Nodes
      BY <3>1, UnderWay
    <3>3. Holds(new, Head(x.todo), x.cmd)
      <4>1. log[Head(x.todo)] \in Seq(Command)
        BY <3>2 DEF TypeOK
      <4>2. new[Head(x.todo)] = Append(log[Head(x.todo)], x.cmd)
        BY <1>b, <3>1, <3>2, AppendType
      <4>3. x.cmd \in ToSet(Append(log[Head(x.todo)], x.cmd))
        BY <3>2, <4>1, AppendHolds
      <4> QED
        BY <4>2, <4>3 DEF Holds
    <3>4. Moved(c, "sent", x.cmd, x.todo, x.acks, x.nodes)
      BY <2>3, StepMoves
    <3>5. /\ y.pc = "sent" /\ y.cmd = x.cmd /\ y.todo = x.todo /\ y.acks = x.acks /\ y.nodes = x.nodes
          /\ \A d \in Callers \ {c} : calls'[d] = calls[d]
      BY <3>4, MovedIs
    <3>6. CallOK(new, x)
      BY <1>c
    <3> HIDE DEF x, y
    <3>7. CallOK(new, y)
      BY <3>1, <3>3, <3>5, <3>6 DEF CallOK, Took
    <3> QED
      BY <1>g, <3>1, <3>5, <3>7 DEF y
  <2>4. CASE ReplicateApply(c)
    <3>1. x.pc = "sent" /\ x.todo # << >> /\ UNCHANGED answered
      BY <2>4 DEF ReplicateApply, CallShape, history
    <3>2. PICK ack \in {0, 1} : Moved(c, "replicate", x.cmd, Tail(x.todo), x.acks + ack, x.nodes)
      BY <2>4, ReplicateApplyMoves
    <3>3. x \in Call /\ CallOK(new, x) /\ x.acks \in Nat
      BY <1>c, CallIs
    <3>4. /\ y \in Call /\ y.pc = "replicate" /\ y.cmd = x.cmd /\ y.todo = Tail(x.todo)
          /\ y.acks = x.acks + ack /\ y.nodes = x.nodes
          /\ \A d \in Callers \ {c} : calls'[d] = calls[d]
      BY <3>2, MovedIs
    <3>5. y.acks \in {x.acks, x.acks + 1}
      BY <3>3, <3>4
    <3> HIDE DEF x, y
    <3>6. CallOK(new, y)
      BY <3>1, <3>3, <3>4, <3>5, PeerTook
    <3> QED
      BY <1>g, <3>1, <3>4, <3>6 DEF y
  <2>5. ASSUME x.pc = "replicate", x.todo # << >>, UNCHANGED answered,
               Moved(c, x.pc, x.cmd, Tail(x.todo), x.acks, x.nodes)
        PROVE  Goal
    <3>1. x \in Call /\ CallOK(new, x)
      BY <1>c
    <3>2. /\ y \in Call /\ y.pc = "replicate" /\ y.cmd = x.cmd /\ y.todo = Tail(x.todo)
          /\ y.acks = x.acks /\ y.nodes = x.nodes
          /\ \A d \in Callers \ {c} : calls'[d] = calls[d]
      BY <2>5, MovedIs
    <3> HIDE DEF x, y
    <3>3. CallOK(new, y)
      BY <2>5, <3>1, <3>2, PeerSkipped
    <3> QED
      BY <1>g, <2>5, <3>2, <3>3 DEF y
  <2>6. ASSUME Ends(c), UNCHANGED answered PROVE Goal
    BY <1>f, <2>6 DEF Ends
  <2>7. CASE QuorumAppend(c)
    <3>1. x.pc = "replicate" /\ x.acks >= Majority(x) /\ AppendCommand(Leader, x.cmd)
          /\ UNCHANGED answered
      BY <2>7 DEF QuorumAppend, history
    <3>2. x.cmd \in Command
      BY <3>1, UnderWay
    <3>3. Holds(new, Leader, x.cmd)
      <4>1. log[Leader] \in Seq(Command)
        BY <1>h DEF TypeOK
      <4>2. new[Leader] = Append(log[Leader], x.cmd)
        BY <1>b, <1>h, <3>1, <3>2, AppendType
      <4>3. x.cmd \in ToSet(Append(log[Leader], x.cmd))
        BY <3>2, <4>1, AppendHolds
      <4> QED
        BY <4>2, <4>3 DEF Holds
    <3>4. x \in Call /\ CallOK(log, x)
      BY <1>c
    <3>5. Moved(c, "logged", x.cmd, x.todo, x.acks, x.nodes)
      BY <2>7, StepMoves
    <3>6. /\ y.pc = "logged" /\ y.cmd = x.cmd /\ y.nodes = x.nodes
          /\ \A d \in Callers \ {c} : calls'[d] = calls[d]
      BY <3>5, MovedIs
    <3> HIDE DEF x, y
    <3>7. OnMajority(new, x.cmd, x.nodes)
      BY <1>b, <3>1, <3>3, <3>4, QuorumReached
    <3>8. CallOK(new, y)
      BY <3>6, <3>7 DEF CallOK
    <3> QED
      BY <1>g, <3>1, <3>6, <3>8 DEF y
  <2>8. CASE ApplyOwn(c)
    <3>1. Ends(c)
      BY <2>8, StepMoves
    <3>2. \A d \in Callers : CallOK(new, calls'[d])
      BY <1>c, <1>e, <3>1 DEF Ends
    <3>3. x.pc = "logged" /\ CallOK(new, x)
      BY <1>c, <2>8 DEF ApplyOwn
    <3>4. x.nodes # {} => OnMajority(new, x.cmd, x.nodes)
      BY <3>3 DEF CallOK
    <3>5. answered' = IF x.nodes = {} THEN answered
                      ELSE answered \cup {[cmd |-> x.cmd, nodes |-> x.nodes]}
      BY <2>8 DEF ApplyOwn
    <3>6. ASSUME NEW a \in answered' PROVE OnMajority(new, a.cmd, a.nodes)
      BY <1>d, <3>4, <3>5
    <3> QED
      BY <1>b, <3>2, <3>6 DEF Goal
  <2>9. CASE ReplicateUnreachable(c)
    <3>1. x.pc = "replicate" /\ x.todo # << >> /\ UNCHANGED answered
      BY <2>9 DEF ReplicateUnreachable, history
    <3> QED
      BY <2>5, <2>9, <3>1, StepMoves
  <2>10. CASE QuorumFails(c)
    BY <2>6, <2>10, StepMoves DEF QuorumFails, history
  <2>11. CASE RequestUnsynced(c)
    <3>1. UNCHANGED answered
      BY <2>11 DEF RequestUnsynced
    <3> QED
      BY <1>f, <2>5, <2>6, <2>11, <3>1, UnsyncedMoves
  <2> QED
    BY <1>2, <2>1, <2>2, <2>3, <2>4, <2>7, <2>8, <2>9, <2>10, <2>11 DEF CallStep
<1>3. ASSUME NEW n \in Nodes, Restart(n) \/ Torn(n) PROVE Goal
  <2>1. \A d \in Callers : calls'[d] \in {calls[d], Idle}
    BY <1>3 DEF Restart, Torn, leaderv
  <2>2. UNCHANGED answered
    BY <1>3 DEF Restart, Torn, history
  <2> QED
    BY <1>f, <2>1, <2>2
<1>4. ASSUME UNCHANGED <<calls, answered>> PROVE Goal
  BY <1>f, <1>4
<1>5. ASSUME NEW w \in Workers, WorkerStep(w) PROVE Goal
  BY <1>4, <1>5 DEF WorkerStep, HeartbeatWorker, ClaimPending, ClaimUnsynced, AppendUnsynced,
                    WorkerLeaseEnds, leaderv, history
<1>6. ASSUME NEW k \in handed, Report(k) PROVE Goal
  BY <1>4, <1>6 DEF Report, CompleteRun, FailRun, ReportUnsynced, AppendUnsynced, leaderv
<1>7. CASE SchedulerPass \/ Shutdown
  BY <1>4, <1>7 DEF SchedulerPass, EnqueueDueRuns, LeaderExpires, Shutdown, history
<1>8. ASSUME \/ \E t \in Timers : OccurrenceDue(t)
             \/ \E m \in Moments : MomentPasses(m)
      PROVE  Goal
  BY <1>4, <1>8 DEF OccurrenceDue, MomentPasses, leaderv, history
<1>9. ASSUME NEW n \in Nodes, NEW w \in Workers, FollowerExpires(n, w) PROVE Goal
  BY <1>4, <1>9 DEF FollowerExpires, leaderv, history
<1>10. ASSUME NEW a \in S.active, RunLeaseEnds(a) PROVE Goal
  BY <1>4, <1>10 DEF RunLeaseEnds, leaderv, history
<1> QED
  BY <1>1, <1>2, <1>3, <1>5, <1>6, <1>7, <1>8, <1>9, <1>10 DEF Next

RequestsInv == TypeOK /\ NodeInv /\ CallShape /\ CallInv

\* The invariant of the requests.
LEMMA RequestsSafe == Spec => []RequestsInv
<1>1. Init => CallInv
  <2> SUFFICES ASSUME Init PROVE CallInv
    OBVIOUS
  <2>1. \A c \in Callers : calls[c] = Idle
    BY DEF Init
  <2>2. CallOK(log, Idle)
    BY IdleIs DEF CallOK
  <2> QED
    BY <2>1, <2>2 DEF Init, CallInv
<1>2. Init => RequestsInv
  BY <1>1, TypeInit DEF RequestsInv
<1>3. RequestsInv /\ [Next]_vars => RequestsInv'
  BY TypeStep, CallInvStep DEF RequestsInv
<1> QED
  BY <1>2, <1>3, PTL DEF Spec

\* A quorum's answer stands: the request is in the logs of a majority of the
\* nodes that were asked, through lost answers, crashes and torn logs.
THEOREM AnsweredSafe == Spec => []AnsweredIsOnMajority
<1>1. RequestsInv => AnsweredIsOnMajority
  BY DEF RequestsInv, CallInv, OnMajority, Holds, AnsweredIsOnMajority
<1> QED
  BY <1>1, RequestsSafe, PTL

-----------------------------------------------------------------------------
(* Timers and members                                                      *)

\* A line of the log about a run, another about anything else.
LEMMA MembersLine ==
  ASSUME TypeOK, NEW n \in Nodes, NEW c \in Command, log'[n] = Append(log[n], c)
  PROVE  Ahead(n, Replay(elapsed', n, log'[n]), Replayed(n), c)
<1>1. log[n] \in Seq(Command)
  BY DEF TypeOK
<1>2. PICK past, lines : past = elapsed' /\ lines = log'[n]
  OBVIOUS
<1>3. PICK r : r = Replay(past, n, log[n])
  OBVIOUS
<1>4. r \in ClusterState /\ r.self = n /\ SameMembers(r, Replayed(n))
  <2>1. r \in Restored(n)
    BY <1>1, <1>3, ReplayIs
  <2>2. SameMembers(r, Replayed(n))
    BY <1>1, <1>3, ReplayTimeless DEF Replayed
  <2> QED
    BY <2>1, <2>2 DEF Restored
<1>5. Replay(past, n, lines) = Apply(past, r, c)
  BY <1>1, <1>2, <1>3, ReplayAppend
<1>6. /\ Apply(past, r, c).timers = TimersAfter(r.timers, c)
      /\ Apply(past, r, c).peers = PeersAfter(n, r.peers, c)
  BY <1>4, ApplyIs
<1> QED
  BY <1>2, <1>4, <1>5, <1>6 DEF SameMembers, Ahead

\* An unchanged log gives back the same members at any time.
LEMMA MembersSame ==
  ASSUME TypeOK, NEW n \in Nodes, log'[n] = log[n]
  PROVE  SameMembers(Replay(elapsed', n, log'[n]), Replayed(n))
<1>1. log[n] \in Seq(Command)
  BY DEF TypeOK
<1>2. PICK past, lines : past = elapsed' /\ lines = log'[n]
  OBVIOUS
<1> QED
  BY <1>1, <1>2, ReplayTimeless DEF Replayed

\* The steps that are about no timer and no member.
Unrelated ==
  /\ \A n \in Nodes : SameMembers(st'[n], st[n])
  /\ \A n \in Nodes : SameMembers(Replay(elapsed', n, log'[n]), Replayed(n))

\* A new state with the same members.
LEMMA PutMembers ==
  ASSUME TypeOK, NEW m \in Nodes, NEW s \in ClusterState, SameMembers(s, st[m]), Put(m, s)
  PROVE  \A n \in Nodes : SameMembers(st'[n], st[n])
<1>1. ASSUME NEW n \in Nodes PROVE SameMembers(st'[n], st[n])
  <2>1. st'[n] = IF n = m THEN s ELSE st[n]
    BY PutType
  <2> QED
    BY <2>1 DEF SameMembers
<1> QED
  BY <1>1

\* Claims and reports are about no timer and no member.
LEMMA RunLine ==
  ASSUME TypeOK, NEW k \in Claim, NEW op \in {"ClaimRun", "CompleteRun", "FailRun"},
         AppendCommand(Leader, [op |-> op, claim |-> k])
  PROVE  \A n \in Nodes : SameMembers(Replay(elapsed', n, log'[n]), Replayed(n))
<1>1. PICK c : c = [op |-> op, claim |-> k]
  OBVIOUS
<1>2. c \in Command /\ c.op = op
  BY <1>1 DEF Command
<1>3. Leader \in Nodes
  BY ClusterAssumption
<1>4. ASSUME NEW n \in Nodes PROVE SameMembers(Replay(elapsed', n, log'[n]), Replayed(n))
  <2>1. CASE n = Leader
    <3>1. log'[n] = Append(log[n], c)
      BY <1>1, <1>2, <1>3, <2>1, AppendType
    <3>2. Ahead(n, Replay(elapsed', n, log'[n]), Replayed(n), c)
      BY <1>2, <3>1, MembersLine
    <3> QED
      BY <1>2, <3>2 DEF Ahead, SameMembers, TimersAfter, PeersAfter
  <2>2. CASE n # Leader
    BY <1>1, <1>2, <1>3, <2>2, AppendType, MembersSame
  <2> QED
    BY <2>1, <2>2
<1> QED
  BY <1>4

\* Only requests, restarts and torn logs touch timers and members.
LEMMA UnrelatedSteps ==
  ASSUME TypeOK, CallShape, Next
  PROVE  \/ \E c \in Callers : CallStep(c)
         \/ \E n \in Nodes : Restart(n) \/ Torn(n)
         \/ Unrelated /\ UNCHANGED <<calls, dead, blurred>>
<1> USE DEF leaderv, history, bounds
<1>a. Leader \in Nodes
  BY ClusterAssumption
<1>b. \A n \in Nodes : st[n] \in ClusterState
  BY DEF TypeOK
<1>c. S \in ClusterState /\ S = st[Leader]
  BY <1>a, <1>b DEF S
<1>d. UNCHANGED log => \A n \in Nodes : SameMembers(Replay(elapsed', n, log'[n]), Replayed(n))
  BY MembersSame
<1>e. UNCHANGED st => \A n \in Nodes : SameMembers(st'[n], st[n])
  BY DEF SameMembers
<1>f. ASSUME NEW r, SameRuns(r, S) \/ SameFrame(r, S), Put(Leader, r)
      PROVE  \A n \in Nodes : SameMembers(st'[n], st[n])
  <2>1. r \in ClusterState /\ SameMembers(r, st[Leader])
    BY <1>c, <1>f DEF SameRuns, SameFrame, SameMembers
  <2> QED
    BY <1>a, <1>f, <2>1, PutMembers
<1>1. ASSUME NEW w \in Workers, HeartbeatWorker(w) \/ WorkerLeaseEnds(w)
      PROVE  Unrelated /\ UNCHANGED <<calls, dead, blurred>>
  <2>1. PICK v \in {"live", "lapsed"} : Put(Leader, [S EXCEPT !.workers[w] = v])
    BY <1>1 DEF HeartbeatWorker, WorkerLeaseEnds
  <2>2. PICK s \in ClusterState : s = S
    BY <1>c
  <2> DEFINE r == [s EXCEPT !.workers[w] = v]
  <2>3. SameRuns(r, s)
    BY WorkerChange
  <2>4. Put(Leader, r)
    BY <2>1, <2>2
  <2> HIDE DEF r
  <2>5. \A n \in Nodes : SameMembers(st'[n], st[n])
    BY <1>f, <2>2, <2>3, <2>4
  <2> QED
    BY <1>1, <1>d, <2>5 DEF HeartbeatWorker, WorkerLeaseEnds, Unrelated
<1>2. ASSUME NEW w \in Workers, ClaimPending(w) \/ ClaimUnsynced(w)
      PROVE  Unrelated /\ UNCHANGED <<calls, dead, blurred>>
  <2>1. PICK q \in S.pending : AppendCommand(Leader, [op |-> "ClaimRun", claim |-> ClaimFor(q, w)])
    BY <1>2 DEF ClaimPending, ClaimUnsynced, AppendUnsynced
  <2>2. \A n \in Nodes : SameMembers(Replay(elapsed', n, log'[n]), Replayed(n))
    <3>1. PICK k \in Claim : k = ClaimFor(q, w)
      BY ClaimLine
    <3> QED
      BY <2>1, <3>1, RunLine
  <2>3. CASE ClaimUnsynced(w)
    BY <1>e, <2>2, <2>3 DEF ClaimUnsynced, AppendUnsynced, Unrelated
  <2>4. CASE ClaimPending(w)
    <3>1. PICK p \in S.pending :
            Put(Leader, [S EXCEPT !.pending = @ \ {p}, !.active = @ \cup {ClaimFor(p, w)},
                                  !.states[p.timer] = "Running"])
      BY <2>4 DEF ClaimPending
    <3>2. PICK s \in ClusterState : s = S
      BY <1>c
    <3> DEFINE r == [s EXCEPT !.pending = @ \ {p}, !.active = @ \cup {ClaimFor(p, w)},
                              !.states[p.timer] = "Running"]
    <3>3. RunClaimed(r, s, p, ClaimFor(p, w)) /\ Put(Leader, r)
      BY <3>1, <3>2, ClaimChange
    <3> HIDE DEF r
    <3>4. SameFrame(r, S)
      BY <3>2, <3>3 DEF RunClaimed
    <3>5. \A n \in Nodes : SameMembers(st'[n], st[n])
      BY <1>f, <3>3, <3>4
    <3> QED
      BY <2>2, <2>4, <3>5 DEF ClaimPending, Unrelated
  <2> QED
    BY <1>2, <2>3, <2>4
<1>3. ASSUME NEW k \in handed, Report(k)
      PROVE  Unrelated /\ UNCHANGED <<calls, dead, blurred>>
  <2>1. k \in Claim /\ k \in S.active
    BY <1>3, ValidIs DEF Report, CompleteRun, FailRun, ReportUnsynced
  <2>2. PICK op \in {"CompleteRun", "FailRun"} : AppendCommand(Leader, [op |-> op, claim |-> k])
    BY <1>3 DEF Report, CompleteRun, FailRun, ReportUnsynced, AppendUnsynced
  <2>3. \A n \in Nodes : SameMembers(Replay(elapsed', n, log'[n]), Replayed(n))
    BY <2>1, <2>2, RunLine
  <2>4. CASE ReportUnsynced(k)
    BY <1>e, <2>3, <2>4 DEF ReportUnsynced, AppendUnsynced, Unrelated
  <2>5. CASE CompleteRun(k) \/ FailRun(k)
    <3>1. PICK s \in ClusterState : s = S
      BY <1>c
    <3>2. PICK v \in {"Scheduled", "Dead"} :
            \E r \in {EndRun(s, k, v), RescheduleTimer(elapsed, EndRun(s, k, v), k.timer)} :
              Put(Leader, r)
      BY <2>5, <3>1 DEF CompleteRun, FailRun
    <3>3. PICK r \in {EndRun(s, k, v), RescheduleTimer(elapsed, EndRun(s, k, v), k.timer)} :
            Put(Leader, r)
      BY <3>2
    <3>4. RunEnded(r, s, k)
      BY <2>1, <3>1, <3>3, EndChange
    <3>5. SameFrame(r, S)
      BY <3>1, <3>4 DEF RunEnded
    <3>6. \A n \in Nodes : SameMembers(st'[n], st[n])
      BY <1>f, <3>3, <3>5
    <3> QED
      BY <2>3, <2>5, <3>6 DEF CompleteRun, FailRun, Unrelated
  <2> QED
    BY <1>3, <2>4, <2>5 DEF Report
<1>4. ASSUME SchedulerPass PROVE Unrelated /\ UNCHANGED <<calls, dead, blurred>>
  <2>1. ASSUME EnqueueDueRuns \/ LeaderExpires PROVE \E r : SameFrame(r, S) /\ Put(Leader, r)
    <3>1. CASE EnqueueDueRuns
      BY <3>1, EnqueueChange DEF Put
    <3>2. CASE LeaderExpires
      BY <1>c, <3>2, ExpireChange DEF LeaderExpires
    <3> QED
      BY <2>1, <3>1, <3>2
  <2>2. \A n \in Nodes : SameMembers(st'[n], st[n])
    BY <1>4, <1>e, <1>f, <2>1 DEF SchedulerPass
  <2> QED
    BY <1>4, <1>d, <2>2 DEF SchedulerPass, EnqueueDueRuns, LeaderExpires, Unrelated
<1>5. ASSUME \/ \E t \in Timers : OccurrenceDue(t)
             \/ \E m \in Moments : MomentPasses(m)
      PROVE  Unrelated /\ UNCHANGED <<calls, dead, blurred>>
  <2>1. PICK ts, at : FallDue(ts, at)
    BY <1>5 DEF OccurrenceDue, MomentPasses
  <2>2. \A n \in Nodes : SameMembers(st'[n], st[n])
    BY <2>1, OccurrenceChange DEF TypeOK, SameRuns, SameMembers
  <2> QED
    BY <1>5, <1>d, <2>2 DEF OccurrenceDue, MomentPasses, Unrelated
<1>6. ASSUME NEW m \in Nodes, NEW w \in Workers, FollowerExpires(m, w)
      PROVE  Unrelated /\ UNCHANGED <<calls, dead, blurred>>
  <2>1. PICK s : s = [st[m] EXCEPT !.workers[w] = "lapsed"]
    OBVIOUS
  <2>2. SameRuns(s, st[m])
    BY <1>b, <2>1, WorkerChange
  <2>3. s \in ClusterState
    BY <2>2 DEF SameRuns
  <2>4. PICK r : r = ExpireWorkers(s)
    OBVIOUS
  <2>5. SameFrame(r, s) /\ Put(m, r)
    BY <1>6, <2>1, <2>3, <2>4, ExpireChange DEF FollowerExpires
  <2>6. r \in ClusterState /\ SameMembers(r, st[m])
    BY <2>2, <2>5 DEF SameFrame, SameRuns, SameMembers
  <2>7. \A n \in Nodes : SameMembers(st'[n], st[n])
    BY <2>5, <2>6, PutMembers
  <2> QED
    BY <1>6, <1>d, <2>7 DEF FollowerExpires, Unrelated
<1>7. ASSUME NEW a \in S.active, RunLeaseEnds(a)
      PROVE  Unrelated /\ UNCHANGED <<calls, dead, blurred>>
  BY <1>7, <1>d, <1>e DEF RunLeaseEnds, Unrelated
<1>8. ASSUME Shutdown PROVE Unrelated /\ UNCHANGED <<calls, dead, blurred>>
  BY <1>8, <1>d, <1>e DEF Shutdown, Unrelated
<1> QED
  BY <1>1, <1>2, <1>3, <1>4, <1>5, <1>6, <1>7, <1>8 DEF Next, WorkerStep

\* Nobody's call is at a line that node n has not applied yet.
Level(n, hs) == \A c \in Callers : ~Behind(n, hs[c])

\* While one request is under way, nothing is pending on a node its handler
\* is not at.
LEMMA LevelUnless ==
  ASSUME Alone(calls), NEW c \in Callers, NEW n \in Nodes, calls[c] # Idle, ~Behind(n, calls[c])
  PROVE  Level(n, calls)
<1>1. ASSUME NEW d \in Callers PROVE ~Behind(n, calls[d])
  <2>1. CASE d = c
    BY <2>1
  <2>2. CASE d # c
    <3>1. calls[d] = Idle
      BY <2>2 DEF Alone
    <3> QED
      BY <3>1, IdleIs DEF Behind
  <2> QED
    BY <2>1, <2>2
<1> QED
  BY <1>1 DEF Level

\* One call moves, the others are idle.
LEMMA OneMoves ==
  ASSUME NEW c \in Callers, \A d \in Callers \ {c} : calls[d] = Idle /\ calls'[d] = Idle
  PROVE  /\ Alone(calls')
         /\ \A n \in Nodes : ~Behind(n, calls'[c]) => Level(n, calls')
<1>1. Alone(calls')
  BY DEF Alone
<1>2. \A n \in Nodes : \A d \in Callers \ {c} : ~Behind(n, calls'[d])
  BY IdleIs DEF Behind
<1>3. \A n \in Nodes : ~Behind(n, calls'[c]) => Level(n, calls')
  BY <1>2 DEF Level
<1> QED
  BY <1>1, <1>3

\* The node the handler is at has one line more than its state.
LEMMA BehindInStep ==
  ASSUME NEW c \in Callers, \A d \in Callers \ {c} : calls'[d] = Idle,
         NEW n \in Nodes, NEW r, NEW s, Behind(n, calls'[c]), Ahead(n, r, s, calls'[c].cmd)
  PROVE  InStep(n, r, s, calls')
<1>1. \A d \in Callers \ {c} : ~Behind(n, calls'[d])
  BY IdleIs DEF Behind
<1> QED
  BY <1>1 DEF InStep

\* A level node is in step when its log and its state have the same members.
LEMMA LevelInStep ==
  ASSUME NEW n, NEW r, NEW s, NEW hs, Level(n, hs)
  PROVE  InStep(n, r, s, hs) <=> SameMembers(r, s)
BY DEF Level, InStep

\* Every step keeps each node at most one line behind its log.
LEMMA TimersInvStep ==
  TypeOK /\ NodeInv /\ CallShape /\ TimersInv /\ [Next]_vars => TimersInv'
<1> SUFFICES ASSUME TypeOK, NodeInv, CallShape, TimersInv, [Next]_vars, ~blurred'
             PROVE  /\ Alone(calls')
                    /\ \A n \in Nodes \ dead' : InStep(n, Replay(elapsed', n, log'[n]), st'[n], calls')
  BY DEF TimersInv, Replayed
<1> DEFINE New(n) == Replay(elapsed', n, log'[n])
           Goal == Alone(calls') /\ \A n \in Nodes \ dead' : InStep(n, New(n), st'[n], calls')
<1>a. Leader \in Nodes /\ Requests \subseteq Request /\ Requests \subseteq Command
  BY ClusterAssumption DEF Command
<1>b. \A n \in Nodes : st[n] \in ClusterState /\ st[n].self = n
  BY DEF TypeOK, NodeInv
<1>c. \A n \in Nodes : log'[n] = log[n] => SameMembers(New(n), Replayed(n))
  BY MembersSame
<1>d. \A n \in Nodes, c \in Command : log'[n] = Append(log[n], c) => Ahead(n, New(n), Replayed(n), c)
  BY MembersLine
<1>e. ~blurred => Alone(calls) /\ \A n \in Nodes \ dead : InStep(n, Replayed(n), st[n], calls)
  BY DEF TimersInv
<1>u. ASSUME Unrelated, UNCHANGED <<calls, dead, blurred>> PROVE Goal
  <2>1. Alone(calls) /\ \A n \in Nodes \ dead : InStep(n, Replayed(n), st[n], calls)
    BY <1>e, <1>u
  <2>2. ASSUME NEW n \in Nodes \ dead' PROVE InStep(n, New(n), st'[n], calls')
    <3>1. InStep(n, Replayed(n), st[n], calls)
      BY <1>u, <2>1
    <3>2. SameMembers(New(n), Replayed(n)) /\ SameMembers(st'[n], st[n]) /\ calls' = calls
      BY <1>u DEF Unrelated
    <3> HIDE DEF New
    <3> QED
      BY <3>1, <3>2 DEF InStep, SameMembers, Ahead
  <2>3. Alone(calls')
    BY <1>u, <2>1
  <2> QED
    BY <2>2, <2>3
<1>1. ASSUME UNCHANGED vars PROVE Goal
  <2>1. Unrelated /\ UNCHANGED <<calls, dead, blurred>>
    BY <1>1, <1>c DEF vars, Unrelated, SameMembers
  <2> QED
    BY <1>u, <2>1
<1>2. ASSUME NEW c \in Callers, CallStep(c) PROVE Goal
  <2> DEFINE x == calls[c]
             y == calls'[c]
  <2>0. UNCHANGED dead
    BY <1>2 DEF CallStep, BeginReplicated, BeginLocal, ReplicateSend, ReplicateApply,
                ReplicateUnreachable, QuorumFails, QuorumAppend, ApplyOwn, RequestUnsynced
  <2>1. ~blurred /\ ~RequestUnsynced(c)
    <3>1. ~RequestUnsynced(c)
      BY DEF RequestUnsynced
    <3>2. ASSUME NEW cmd \in Requests, BeginReplicated(c, cmd) \/ BeginLocal(c, cmd) PROVE ~blurred
      BY <3>2 DEF BeginReplicated, BeginLocal
    <3>3. CASE \/ ReplicateSend(c) \/ ReplicateApply(c) \/ ReplicateUnreachable(c)
               \/ QuorumFails(c) \/ QuorumAppend(c) \/ ApplyOwn(c)
      <4>1. UNCHANGED blurred
        BY <3>3 DEF ReplicateSend, ReplicateApply, ReplicateUnreachable, QuorumFails, QuorumAppend,
                    ApplyOwn, history
      <4> QED
        BY <3>1, <4>1
    <3> QED
      BY <1>2, <3>1, <3>2, <3>3 DEF CallStep
  <2>2. Alone(calls) /\ \A n \in Nodes \ dead : InStep(n, Replayed(n), st[n], calls)
    BY <1>e, <2>1
  \* A request begins while there is no other ...
  <2>3. ASSUME NEW cmd \in Requests, BeginReplicated(c, cmd) \/ BeginLocal(c, cmd) PROVE Goal
    <3>1. \A d \in Callers : calls[d] = Idle
      BY <2>3 DEF BeginReplicated, BeginLocal, Busy
    <3>2. \A n \in Nodes : Level(n, calls)
      BY <3>1, IdleIs DEF Level, Behind
    <3>3. UNCHANGED st
      BY <2>3 DEF BeginReplicated, BeginLocal
    <3>4. \A n \in Nodes \ dead : SameMembers(Replayed(n), st'[n])
      BY <2>2, <3>2, <3>3, LevelInStep
    <3>5. CASE BeginReplicated(c, cmd)
      <4>1. Moved(c, "replicate", cmd, S.peers, 1, {Leader} \cup ToSet(S.peers)) /\ UNCHANGED log
        BY <3>5, BeginReplicatedMoves DEF BeginReplicated
      <4>2. y.pc = "replicate" /\ \A d \in Callers \ {c} : calls[d] = Idle /\ calls'[d] = Idle
        BY <3>1, <4>1, MovedIs
      <4>3. Alone(calls') /\ \A n \in Nodes : Level(n, calls')
        BY <4>2, OneMoves DEF Behind
      <4>4. \A n \in Nodes \ dead : SameMembers(New(n), st'[n])
        BY <1>c, <3>4, <4>1 DEF SameMembers
      <4> HIDE DEF New
      <4> QED
        BY <2>0, <4>3, <4>4, LevelInStep
    <3>6. CASE BeginLocal(c, cmd)
      <4>1. Moved(c, "logged", cmd, << >>, 0, {}) /\ AppendCommand(Leader, cmd) /\ cmd \in Command
        BY <1>a, <3>6, BeginLocalMoves DEF BeginLocal
      <4>2. /\ y.pc = "logged" /\ y.cmd = cmd
            /\ \A d \in Callers \ {c} : calls[d] = Idle /\ calls'[d] = Idle
        BY <3>1, <4>1, MovedIs
      <4>3. Alone(calls') /\ (\A n \in Nodes \ {Leader} : Level(n, calls')) /\ Behind(Leader, y)
        BY <4>2, OneMoves DEF Behind
      <4>4. ASSUME NEW n \in Nodes \ dead PROVE InStep(n, New(n), st'[n], calls')
        <5>1. CASE n = Leader
          <6>1. Ahead(n, New(n), Replayed(n), cmd)
            BY <1>a, <1>d, <4>1, <5>1, AppendType
          <6>2. Ahead(n, New(n), st'[n], y.cmd)
            BY <3>4, <4>2, <6>1 DEF Ahead, SameMembers
          <6> HIDE DEF New
          <6> QED
            BY <4>2, <4>3, <5>1, <6>2, BehindInStep
        <5>2. CASE n # Leader
          <6>1. log'[n] = log[n]
            BY <1>a, <4>1, <5>2, AppendType
          <6>2. SameMembers(New(n), st'[n])
            BY <1>c, <3>4, <6>1 DEF SameMembers
          <6> HIDE DEF New
          <6> QED
            BY <4>3, <5>2, <6>2, LevelInStep
        <5> QED
          BY <5>1, <5>2
      <4> QED
        BY <2>0, <4>3, <4>4
    <3> QED
      BY <2>3, <3>5, <3>6
  \* ... is the only one until it ends ...
  <2>4. ASSUME x.pc # "idle" PROVE x # Idle /\ \A d \in Callers \ {c} : calls[d] = Idle
    BY <2>2, <2>4, IdleIs DEF Alone
  \* ... gets a line into a log ...
  <2>5. ASSUME NEW p \in Nodes, x.pc = "replicate", AppendCommand(p, x.cmd), UNCHANGED st,
               \A n \in Nodes : Behind(n, y) <=> n = p, y.cmd = x.cmd,
               \A d \in Callers \ {c} : calls'[d] = calls[d]
        PROVE  Goal
    <3>1. x # Idle /\ \A d \in Callers \ {c} : calls[d] = Idle /\ calls'[d] = Idle
      BY <2>4, <2>5
    <3>2. \A n \in Nodes : Level(n, calls)
      BY <2>2, <2>5, <3>1, LevelUnless DEF Behind
    <3>3. \A n \in Nodes \ dead : SameMembers(Replayed(n), st'[n])
      BY <2>2, <2>5, <3>2, LevelInStep
    <3>4. Alone(calls') /\ \A n \in Nodes \ {p} : Level(n, calls')
      BY <2>5, <3>1, OneMoves
    <3>5. x.cmd \in Command
      BY <2>5, UnderWay
    <3>6. ASSUME NEW n \in Nodes \ dead PROVE InStep(n, New(n), st'[n], calls')
      <4>1. CASE n = p
        <5>1. Ahead(n, New(n), Replayed(n), x.cmd)
          BY <1>d, <2>5, <3>5, <4>1, AppendType
        <5>2. Ahead(n, New(n), st'[n], y.cmd) /\ Behind(n, y)
          BY <2>5, <3>3, <4>1, <5>1 DEF Ahead, SameMembers
        <5> HIDE DEF New
        <5> QED
          BY <3>1, <5>2, BehindInStep
      <4>2. CASE n # p
        <5>1. log'[n] = log[n]
          BY <2>5, <3>5, <4>2, AppendType
        <5>2. SameMembers(New(n), st'[n])
          BY <1>c, <3>3, <5>1 DEF SameMembers
        <5> HIDE DEF New
        <5> QED
          BY <3>4, <4>2, <5>2, LevelInStep
      <4> QED
        BY <4>1, <4>2
    <3> QED
      BY <2>0, <3>4, <3>6
  \* ... and its change into that node's state.
  <2>6. ASSUME NEW p \in Nodes, x.pc # "idle", Behind(p, x), \A n \in Nodes \ {p} : ~Behind(n, x),
               Put(p, Apply(elapsed, st[p], x.cmd)), UNCHANGED log,
               \A n \in Nodes : ~Behind(n, y),
               \A d \in Callers \ {c} : calls'[d] = calls[d]
        PROVE  Goal
    <3>1. x # Idle /\ \A d \in Callers \ {c} : calls[d] = Idle /\ calls'[d] = Idle
      BY <2>4, <2>6
    <3>2. \A n \in Nodes \ {p} : Level(n, calls)
      BY <2>2, <2>6, <3>1, LevelUnless
    <3>3. Alone(calls') /\ \A n \in Nodes : Level(n, calls')
      BY <2>6, <3>1, OneMoves
    <3>4. x.cmd \in Command
      BY <2>6, UnderWay
    <3>5. PICK r : r = Apply(elapsed, st[p], x.cmd)
      OBVIOUS
    <3>6. r \in ClusterState /\ r.timers = TimersAfter(st[p].timers, x.cmd)
          /\ r.peers = PeersAfter(p, st[p].peers, x.cmd)
      BY <1>b, <3>4, <3>5, ApplyIs
    <3>7. \A n \in Nodes : st'[n] = IF n = p THEN r ELSE st[n]
      BY <2>6, <3>5, <3>6, PutType
    <3>8. ASSUME NEW n \in Nodes \ dead PROVE SameMembers(Replayed(n), st'[n])
      <4>1. CASE n = p
        <5>1. Ahead(n, Replayed(n), st[n], x.cmd)
          BY <2>2, <2>6, <4>1 DEF InStep
        <5> QED
          BY <3>6, <3>7, <4>1, <5>1 DEF Ahead, SameMembers
      <4>2. CASE n # p
        BY <2>2, <3>2, <3>7, <4>2, LevelInStep
      <4> QED
        BY <4>1, <4>2
    <3>9. \A n \in Nodes \ dead : SameMembers(New(n), st'[n])
      BY <1>c, <2>6, <3>8 DEF SameMembers
    <3> HIDE DEF New
    <3> QED
      BY <2>0, <3>3, <3>9, LevelInStep
  \* Or nothing of the kind happens.
  <2>7. ASSUME x.pc = "replicate", \A n \in Nodes : ~Behind(n, y), UNCHANGED <<st, log>>,
               \A d \in Callers \ {c} : calls'[d] = calls[d]
        PROVE  Goal
    <3>1. x # Idle /\ \A d \in Callers \ {c} : calls[d] = Idle /\ calls'[d] = Idle
      BY <2>4, <2>7
    <3>2. \A n \in Nodes : Level(n, calls)
      BY <2>2, <2>7, <3>1, LevelUnless DEF Behind
    <3>3. Alone(calls') /\ \A n \in Nodes : Level(n, calls')
      BY <2>7, <3>1, OneMoves
    <3>4. \A n \in Nodes \ dead : SameMembers(Replayed(n), st'[n])
      BY <2>2, <2>7, <3>2, LevelInStep
    <3>5. \A n \in Nodes \ dead : SameMembers(New(n), st'[n])
      BY <1>c, <2>7, <3>4 DEF SameMembers
    <3> HIDE DEF New
    <3> QED
      BY <2>0, <3>3, <3>5, LevelInStep
  <2>8. CASE ReplicateSend(c)
    <3>1. /\ x.pc = "replicate" /\ x.todo # << >> /\ AppendCommand(Head(x.todo), x.cmd)
          /\ UNCHANGED st
      BY <2>8 DEF ReplicateSend
    <3>2. Head(x.todo) \in Nodes
      BY <3>1, UnderWay
    <3>3. Moved(c, "sent", x.cmd, x.todo, x.acks, x.nodes)
      BY <2>8, StepMoves
    <3>4. /\ y.pc = "sent" /\ y.cmd = x.cmd /\ y.todo = x.todo
          /\ \A d \in Callers \ {c} : calls'[d] = calls[d]
      BY <3>3, MovedIs
    <3>5. \A n \in Nodes : Behind(n, y) <=> n = Head(x.todo)
      BY <3>4 DEF Behind
    <3> HIDE DEF Goal
    <3> QED
      BY <2>5, <3>1, <3>2, <3>4, <3>5
  <2>9. CASE QuorumAppend(c)
    <3>1. x.pc = "replicate" /\ AppendCommand(Leader, x.cmd) /\ UNCHANGED st
      BY <2>9 DEF QuorumAppend
    <3>2. Moved(c, "logged", x.cmd, x.todo, x.acks, x.nodes)
      BY <2>9, StepMoves
    <3>3. y.pc = "logged" /\ y.cmd = x.cmd /\ \A d \in Callers \ {c} : calls'[d] = calls[d]
      BY <3>2, MovedIs
    <3>4. \A n \in Nodes : Behind(n, y) <=> n = Leader
      BY <3>3 DEF Behind
    <3> HIDE DEF Goal
    <3> QED
      BY <1>a, <2>5, <3>1, <3>3, <3>4
  <2>10. CASE ReplicateApply(c)
    <3> DEFINE p == Head(x.todo)
    <3>1. x.pc = "sent" /\ Put(p, Apply(elapsed, st[p], x.cmd)) /\ UNCHANGED log
      BY <2>10 DEF ReplicateApply
    <3>2. p \in Nodes
      BY <3>1, UnderWay DEF CallShape
    <3>3. PICK ack \in {0, 1} : Moved(c, "replicate", x.cmd, Tail(x.todo), x.acks + ack, x.nodes)
      BY <2>10, ReplicateApplyMoves
    <3>4. y.pc = "replicate" /\ \A d \in Callers \ {c} : calls'[d] = calls[d]
      BY <3>3, MovedIs
    <3>5. /\ \A n \in Nodes : ~Behind(n, y)
          /\ Behind(p, x) /\ \A n \in Nodes \ {p} : ~Behind(n, x)
      BY <3>1, <3>4 DEF Behind
    <3> HIDE DEF Goal
    <3> QED
      BY <2>6, <3>1, <3>2, <3>4, <3>5
  <2>11. CASE ApplyOwn(c)
    <3>1. x.pc = "logged" /\ Put(Leader, Apply(elapsed, st[Leader], x.cmd)) /\ UNCHANGED log
      BY <2>11 DEF ApplyOwn, S
    <3>2. y = Idle /\ \A d \in Callers \ {c} : calls'[d] = calls[d]
      BY <2>11, StepMoves DEF Ends
    <3>3. /\ \A n \in Nodes : ~Behind(n, y)
          /\ Behind(Leader, x) /\ \A n \in Nodes \ {Leader} : ~Behind(n, x)
      BY <3>1, <3>2, IdleIs DEF Behind
    <3> HIDE DEF Goal
    <3> QED
      BY <1>a, <2>6, <3>1, <3>2, <3>3
  <2>12. CASE ReplicateUnreachable(c)
    <3>1. x.pc = "replicate" /\ UNCHANGED <<st, log>>
      BY <2>12 DEF ReplicateUnreachable
    <3>2. Moved(c, x.pc, x.cmd, Tail(x.todo), x.acks, x.nodes)
      BY <2>12, StepMoves
    <3>3. y.pc = x.pc /\ \A d \in Callers \ {c} : calls'[d] = calls[d]
      BY <3>2, MovedIs
    <3>4. \A n \in Nodes : ~Behind(n, y)
      BY <3>1, <3>3 DEF Behind
    <3> HIDE DEF Goal
    <3> QED
      BY <2>7, <3>1, <3>3, <3>4
  <2>13. CASE QuorumFails(c)
    <3>1. x.pc = "replicate" /\ UNCHANGED <<st, log>>
      BY <2>13 DEF QuorumFails
    <3>2. y = Idle /\ \A d \in Callers \ {c} : calls'[d] = calls[d]
      BY <2>13, StepMoves DEF Ends
    <3>3. \A n \in Nodes : ~Behind(n, y)
      BY <3>2, IdleIs DEF Behind
    <3> HIDE DEF Goal
    <3> QED
      BY <2>7, <3>1, <3>2, <3>3
  <2> HIDE DEF Goal
  <2> QED
    BY <1>2, <2>1, <2>3, <2>8, <2>9, <2>10, <2>11, <2>12, <2>13 DEF CallStep
<1>3. ASSUME NEW m \in Nodes, Restart(m) \/ Torn(m) PROVE Goal
  <2>1. ~blurred /\ UNCHANGED log /\ dead \subseteq dead' /\ \A c \in Callers : calls[c].pc # "sent"
    BY <1>3 DEF Restart, Torn, history
  <2>2. Alone(calls) /\ \A n \in Nodes \ dead : InStep(n, Replayed(n), st[n], calls)
    BY <1>e, <2>1
  <2>3. \A n \in Nodes \ {Leader} : Level(n, calls)
    BY <2>1 DEF Level, Behind
  <2>4. \A n \in Nodes \ (dead \cup {Leader}) : SameMembers(Replayed(n), st[n])
    BY <2>2, <2>3, LevelInStep
  <2>5. \A n \in Nodes : SameMembers(New(n), Replayed(n))
    BY <1>c, <2>1
  <2>6. \A n \in Nodes \ dead' : st'[n] = st[n] \/ st'[n] = Replayed(n)
    <3>1. CASE Torn(m)
      BY <3>1 DEF Torn
    <3>2. CASE Restart(m)
      BY <3>2 DEF Restart, Put, Replayed, TypeOK
    <3> QED
      BY <1>3, <3>1, <3>2
  <2>7. CASE m # Leader
    <3>1. UNCHANGED calls /\ (Leader \in dead' \/ st'[Leader] = st[Leader])
      <4>1. CASE Torn(m)
        <5>1. \A c \in Callers : calls'[c] = calls[c]
          BY <2>7, <4>1 DEF Torn
        <5>2. calls' = [c \in Callers |-> calls[c]]
          BY <2>7, <4>1 DEF Torn
        <5>3. UNCHANGED calls
          BY <5>2 DEF TypeOK
        <5> QED
          BY <4>1, <5>3 DEF Torn
      <4>2. CASE Restart(m)
        BY <1>a, <2>7, <4>2 DEF Restart, Put, TypeOK, leaderv
      <4> QED
        BY <1>3, <4>1, <4>2
    <3>2. ASSUME NEW n \in Nodes \ dead' PROVE InStep(n, New(n), st'[n], calls')
      <4>1. CASE n = Leader
        <5>1. InStep(n, Replayed(n), st[n], calls) /\ st'[n] = st[n] /\ calls' = calls
          BY <2>1, <2>2, <3>1, <4>1
        <5>2. SameMembers(New(n), Replayed(n))
          BY <2>5
        <5> HIDE DEF New
        <5> QED
          BY <5>1, <5>2 DEF InStep, SameMembers, Ahead
      <4>2. CASE n # Leader
        <5>1. Level(n, calls') /\ SameMembers(Replayed(n), st[n])
          BY <2>1, <2>3, <2>4, <3>1, <4>2
        <5>2. SameMembers(New(n), st'[n])
          BY <2>5, <2>6, <5>1 DEF SameMembers
        <5> HIDE DEF New
        <5> QED
          BY <5>1, <5>2, LevelInStep
      <4> QED
        BY <4>1, <4>2
    <3> QED
      BY <2>2, <3>1, <3>2
  <2>8. CASE m = Leader
    <3>1. \A c \in Callers : calls'[c] = Idle
      BY <1>3, <2>8 DEF Restart, Torn
    <3>2. Alone(calls') /\ \A n \in Nodes : Level(n, calls')
      BY <3>1, IdleIs DEF Alone, Level, Behind
    <3>3. Leader \in dead' \/ st'[Leader] = Replayed(Leader)
      BY <1>3, <1>a, <2>8 DEF Restart, Torn, Put, Replayed, TypeOK
    <3>4. ASSUME NEW n \in Nodes \ dead' PROVE SameMembers(New(n), st'[n])
      <4>1. st'[n] = Replayed(n) \/ SameMembers(Replayed(n), st'[n])
        BY <2>1, <2>4, <2>6, <3>3
      <4>2. SameMembers(New(n), Replayed(n))
        BY <2>5
      <4> HIDE DEF New
      <4> QED
        BY <4>1, <4>2 DEF SameMembers
    <3> HIDE DEF New
    <3> QED
      BY <3>2, <3>4, LevelInStep
  <2> QED
    BY <2>7, <2>8
<1> HIDE DEF Goal
<1>4. Goal
  BY <1>1, <1>2, <1>3, <1>u, UnrelatedSteps
<1> QED
  BY <1>4 DEF Goal

MembersInv == TypeOK /\ NodeInv /\ CallShape /\ TimersInv

\* Without requests that overlap or fail to sync, a node that restarts
\* between two requests comes back with the timers and peers it had.
THEOREM TimersReplayed == Spec => []ReplayKeepsTimers
<1>1. Init => TimersInv
  <2> SUFFICES ASSUME Init PROVE TimersInv
    OBVIOUS
  <2>1. \A c \in Callers : calls[c] = Idle
    BY DEF Init
  <2>2. Alone(calls) /\ \A n \in Nodes : Level(n, calls)
    BY <2>1, IdleIs DEF Alone, Level, Behind
  <2>3. \A n \in Nodes : SameMembers(Replayed(n), st[n])
    BY DEF Init, Replayed, SameMembers
  <2> QED
    BY <2>2, <2>3, LevelInStep DEF TimersInv
<1>2. Init => MembersInv
  BY <1>1, TypeInit DEF MembersInv
<1>3. MembersInv /\ [Next]_vars => MembersInv'
  BY TypeStep, TimersInvStep DEF MembersInv
<1>4. MembersInv => ReplayKeepsTimers
  <2> SUFFICES ASSUME MembersInv, ~blurred, ~Busy, NEW n \in Nodes \ dead
               PROVE  SameMembers(Replayed(n), st[n])
    BY DEF ReplayKeepsTimers, SameMembers, Replayed
  <2>1. \A c \in Callers : calls[c] = Idle
    BY DEF Busy
  <2>2. Level(n, calls)
    BY <2>1, IdleIs DEF Level, Behind
  <2>3. InStep(n, Replayed(n), st[n], calls)
    BY DEF MembersInv, TimersInv
  <2> QED
    BY <2>2, <2>3, LevelInStep
<1> QED
  BY <1>2, <1>3, <1>4, PTL DEF Spec
=============================================================================

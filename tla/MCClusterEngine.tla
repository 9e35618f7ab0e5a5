-------------------------- MODULE MCClusterEngine ---------------------------
(***************************************************************************)
(* ClusterEngine for TLC: a leader n1 whose log already names its peer n2  *)
(* and one worker.                                                          *)
(***************************************************************************)
EXTENDS ClusterEngine

Join(n)     == [op |-> "AddNode", node |-> n]
Leave(n)    == [op |-> "RemoveNode", node |-> n]
Reg(w)      == [op |-> "RegisterWorker", worker |-> w]
Create(t, k) == [op |-> "CreateTimer", timer |-> t, kind |-> k]

\* A peer has what was asked of the leader after it joined.
TwoNodes == [n \in Nodes |->
  CASE n = "n1" -> <<Reg("w1"), Join("n2"), Create("t1", "every")>>
    [] n = "n2" -> <<Create("t1", "every")>>]

\* The HTTP threads are alike, and so are the moments: the logs name none.
Alike == Permutations(Callers) \cup Permutations(Moments)

AnyRequest == {Create("t1", m) : m \in Moments} \cup {Reg("w1"), Join("n2"), Leave("n2")}
=============================================================================

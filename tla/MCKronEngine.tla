---------------------------- MODULE MCKronEngine ----------------------------
(* Instances of KronEngine for TLC. *)
EXTENDS KronEngine

Every(n) == [kind |-> "Every", n |-> n]
Cron(n)  == [kind |-> "Cron", n |-> n]
At(n)    == [kind |-> "At", n |-> n]
Never    == [kind |-> "Never", n |-> 1]
Ask(p, s) == [overlap |-> p, sched |-> s]

\* A timer that keeps one of the three policies, recurring or one-shot.
EachPolicy ==
  [t \in Timers |-> {Ask("Skip", Every(1)), Ask("Unset", Cron(1)),
                     Ask("Allow", Every(1)), Ask("Delay", At(1))}]
AllowTimer == [t \in Timers |-> {Ask("Allow", Every(1))}]
\* A timer whose callers change schedule and policy, also to a schedule
\* without a next time.
AnyPolicy ==
  [t \in Timers |-> {Ask("Skip", Every(2)), Ask("Allow", Never),
                     Ask("Unset", Cron(1))}]

Immediate == [kind |-> "Fixed", base |-> 0, step |-> 0, cap |-> 0]
Doubling == [kind |-> "Exponential", base |-> 1, step |-> 0, cap |-> 2]
Growing  == [kind |-> "Linear", base |-> 1, step |-> 1, cap |-> 2]
=============================================================================

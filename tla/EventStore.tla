----------------------------- MODULE EventStore -----------------------------
(***************************************************************************)
(* What the storage of kron-core promises the engine: a history that only   *)
(* grows.  An append that returns Ok adds its event at the end, and nothing *)
(* that is in the history leaves it, whatever restarts and compactions      *)
(* follow.  A restart may bring in what was written without an Ok: events   *)
(* whose append reported an error, and the one the process died in.         *)
(*                                                                         *)
(* The promise ends when the storage gives up its history (intact); the     *)
(* module that implements it says which of its steps do so.                 *)
(***************************************************************************)
EXTENDS Integers, SequencesExt

CONSTANT Events

VARIABLES
  history,      \* the events the engine's state is built from; between two
                \* processes, those that opening the store would replay
  confirmed,    \* the events whose append returned Ok
  rejected,     \* the events whose append returned an error
  intact        \* the promise still stands

Init == history = << >> /\ confirmed = {} /\ rejected = {} /\ intact = TRUE

Record(e) ==
  /\ e \notin ToSet(history)
  /\ history' = Append(history, e)
  /\ confirmed' = confirmed \cup {e}
  /\ UNCHANGED rejected

Reject(e) ==
  /\ e \notin ToSet(history)
  /\ rejected' = rejected \cup {e}
  /\ UNCHANGED <<history, confirmed>>

\* s is t without some of its elements.
PartOf(s, t) ==
  \E at \in [DOMAIN s -> DOMAIN t] :
    /\ \A i, j \in DOMAIN s : i < j => at[i] < at[j]
    /\ \A i \in DOMAIN s : s[i] = t[at[i]]

\* The process ends, and the next one may find what was written late.
Restart(late) ==
  /\ history' \in Seq(Events) /\ PartOf(history, history')
  /\ ToSet(history') \ ToSet(history) \subseteq late \ confirmed
  /\ UNCHANGED <<confirmed, rejected>>

GiveUp == ~intact'

\* The last form of Restart is the one in the append of e.
Next ==
  \/ /\ intact /\ intact'
     /\ \/ \E e \in Events : Record(e) \/ Reject(e) \/ Restart(rejected \cup {e})
        \/ Restart(rejected)
  \/ GiveUp

Spec == Init /\ [][Next]_<<history, confirmed, rejected, intact>>
=============================================================================

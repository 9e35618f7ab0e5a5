----------------------------- MODULE MCAofStore -----------------------------
(* Instances of AofStore for TLC. *)
EXTENDS AofStore

\* Lines of different length: a log created anew may grow to the length that an
\* interrupted compaction recorded, from one event or from two.
Varied == <<4, 3, 6, 2>>
\* Lines of similar length, as the engine writes them.
Similar == <<2, 2, 3>>
=============================================================================

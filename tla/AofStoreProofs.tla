--------------------------- MODULE AofStoreProofs ---------------------------
(***************************************************************************)
(* Theorems about AofStore: its type invariant, that nothing acknowledged   *)
(* is lost, and that it implements EventStore, for events of any sizes and  *)
(* any number of crashes, cut lines and errors.                             *)
(***************************************************************************)
EXTENDS AofStore, Recursions, SequenceTheorems, TLAPS

-----------------------------------------------------------------------------
(* The inductive invariants                                                *)

\* There is a file behind the handle and at every step of a compaction that
\* needs one, and no process writes to kron.aof.old once kron.aof has lines.
FileShape ==
  /\ pc = "up" /\ handle = "aof" => aof # NoFile
  /\ pc \in {"unlink", "rename", "reset", "reopen"} => aof # NoFile
  /\ pc = "create" => handle # "aof"
  /\ handle = "old" => old # NoFile /\ Contents(aof) = << >>

\* Only the last piece may be cut, and it is text.
Readable(f) ==
  /\ \A i \in 1 .. Len(f) - 1 : f[i].form = "line"
  /\ \A i \in 1 .. Len(f) : f[i].form # "garbled"

\* The rest of a file after its k-th piece.
Rest(f, k) == SubSeq(f, k + 1, Len(f))

\* The three ways of load_state: all of kron.aof, without a snapshot; the
\* snapshot, kron.aof.old after its j-th piece and all of kron.aof; the
\* snapshot and kron.aof after its k-th piece.
FromStart(a, s) == s = NoSnap /\ Readable(Contents(a))

FromOld(j, a, o, s) ==
  /\ s # NoSnap /\ s.offset > FileLen(a) /\ o # NoFile
  /\ j \in 0 .. Len(o) /\ Ends(o)[j] = s.offset
  /\ Readable(Rest(o, j)) /\ Readable(Contents(a))

FromOffset(k, a, s) ==
  /\ s # NoSnap
  /\ k \in 0 .. Len(Contents(a)) /\ Ends(Contents(a))[k] = s.offset
  /\ Readable(Rest(Contents(a), k))

\* A directory that load_state reads in one of these ways.
Directory(a, o, s) ==
  \/ FromStart(a, s)
  \/ \E j \in 0 .. Len(o) : FromOld(j, a, o, s)
  \/ \E k \in 0 .. Len(Contents(a)) : FromOffset(k, a, s)

\* What would be recovered is in order and has all that was acknowledged.
Recovered(h) ==
  /\ InOrder(h) /\ \A i \in DOMAIN h : h[i] <= issued
  /\ acked \subseteq ToSet(h)

\* A restart would find all that the process has, and events it was refused.
Agree(h) ==
  /\ ToSet(mem) \subseteq ToSet(h)
  /\ ToSet(h) \ ToSet(mem) \subseteq failed \ acked

Compacting == {"unlink", "rename", "create", "reset", "reopen"}

\* Where a compaction is with its files.
Compaction ==
  /\ offline => pc \in Compacting
  /\ pc \in Compacting => snap # NoSnap /\ snap.state = mem
  /\ pc \in {"unlink", "rename"} => aof # NoFile /\ snap.offset = FileLen(aof)
  /\ pc = "create" => aof = NoFile
  /\ pc \in {"reset", "reopen"} => aof = << >>
  /\ pc \in {"create", "reset"} =>
       snap.offset = 0 \/ (old # NoFile /\ FileLen(old) = snap.offset)
  /\ pc = "reopen" => snap.offset = 0

Running == pc \notin {"closed", "refused"}

StoreInv ==
  /\ Compaction
  /\ \A e \in acked \cup failed : e <= issued
  /\ harm = "none" => Directory(aof, old, snap) /\ Recovered(Loaded.events)
  /\ harm # "lost" /\ Running => Recovered(mem)
  /\ harm = "none" /\ Running => Agree(Loaded.events)
  /\ harm = "files" => pc = "up"
  /\ harm # "lost" => pc # "refused"

-----------------------------------------------------------------------------
(* Reading files                                                           *)

\* A piece has at least one byte.
LEMMA BytesPositive ==
  ASSUME NEW p \in Piece
  PROVE  Bytes(p) \in Nat \ {0}
<1>1. Size[p.event] \in Nat \ {0, 1}
  BY SizeAssumption DEF Piece, Events
<1>2. Size[p.event] \div 2 \in Nat \ {0}
  BY <1>1
<1> QED
  BY <1>1, <1>2 DEF Bytes

\* The ends of the pieces are running sums.
LEMMA EndsSum ==
  ASSUME NEW f \in Seq(Piece)
  PROVE  /\ Ends(f) \in [0 .. Len(f) -> Nat]
         /\ Ends(f)[0] = 0
         /\ \A i \in 1 .. Len(f) : Ends(f)[i] = Ends(f)[i - 1] + Bytes(f[i])
<1> DEFINE N == Len(f)
           Step(g) == [i \in 0 .. N |-> IF i = 0 THEN 0 ELSE g[i - 1] + Bytes(f[i])]
           end == CHOOSE g : g = Step(g)
           add == [x \in (1 .. N) \X Nat |-> x[2] + Bytes(f[x[1]])]
<1>1. N \in Nat /\ \A i \in 1 .. N : Bytes(f[i]) \in Nat
  BY BytesPositive
<1>2. add \in [(1 .. N) \X Nat -> Nat]
  BY <1>1
<1>3. PICK g \in [0 .. N -> Nat] : Iterates(g, add, 0, N)
  <2> HIDE DEF N, add
  <2> QED BY <1>1, <1>2, Recursion
<1>4. ASSUME NEW i \in 1 .. N PROVE g[i] = g[i - 1] + Bytes(f[i])
  <2>1. g[i - 1] \in Nat
    <3>1. i - 1 \in 0 .. N
      BY <1>1
    <3> HIDE DEF N
    <3> QED BY <1>3, <3>1
  <2>2. g[i] = add[<<i, g[i - 1]>>]
    BY <1>3 DEF Iterates
  <2> QED
    BY <2>1, <2>2
<1>5. g[0] = 0
  BY <1>3 DEF Iterates
<1>6. g = Step(g)
  BY <1>1, <1>3, <1>4, <1>5
<1>7. end = Step(end)
  <2> HIDE DEF Step
  <2> QED BY <1>6
<1>8. Ends(f) = end
  BY DEF Ends
<1> HIDE DEF end
<1>9. end = [i \in 0 .. N |-> end[i]] /\ end[0] = 0
  BY <1>1, <1>7
<1>10. \A i \in 1 .. N : end[i] = end[i - 1] + Bytes(f[i])
  BY <1>1, <1>7
<1>11. \A i \in 0 .. N : end[i] \in Nat
  <2> DEFINE T == {i \in 0 .. N : end[i] \notin Nat}
  <2>1. SUFFICES ASSUME T # {} PROVE FALSE
    OBVIOUS
  <2>2. T \in SUBSET Nat
    BY <1>1
  <2>3. PICK m \in T : \A k \in T : m <= k
    <3> HIDE DEF T
    <3> QED BY <2>1, <2>2, Least
  <2>4. m \in 1 .. N
    BY <1>1, <1>9, <2>3
  <2>5. m - 1 \in 0 .. N /\ ~(m <= m - 1)
    BY <1>1, <2>4
  <2>6. end[m - 1] \in Nat
    BY <2>3, <2>5
  <2> QED
    BY <1>1, <1>10, <2>3, <2>4, <2>6
<1> QED
  BY <1>8, <1>9, <1>10, <1>11

\* A longer part of a file has more bytes.
LEMMA EndsGrow ==
  ASSUME NEW f \in Seq(Piece), NEW i \in 0 .. Len(f), NEW j \in 0 .. Len(f), i < j
  PROVE  Ends(f)[i] < Ends(f)[j]
<1> DEFINE T == {k \in 0 .. Len(f) : i < k /\ ~(Ends(f)[i] < Ends(f)[k])}
<1>1. SUFFICES ASSUME T # {} PROVE FALSE
  OBVIOUS
<1>2. T \in SUBSET Nat
  OBVIOUS
<1>3. PICK m \in T : \A k \in T : m <= k
  <2> HIDE DEF T
  <2> QED BY <1>1, <1>2, Least
<1>4. m \in 1 .. Len(f) /\ f[m] \in Piece
  BY <1>3
<1>5. Ends(f)[m] = Ends(f)[m - 1] + Bytes(f[m]) /\ Bytes(f[m]) \in Nat \ {0}
  BY <1>4, EndsSum, BytesPositive
<1>6. Ends(f)[i] \in Nat /\ Ends(f)[m] \in Nat /\ Ends(f)[m - 1] \in Nat
  BY <1>4, EndsSum
<1>7. CASE i = m - 1
  BY <1>3, <1>5, <1>6, <1>7
<1>8. CASE i # m - 1
  <2>1. m - 1 \in 0 .. Len(f) /\ i < m - 1 /\ ~(m <= m - 1)
    BY <1>3, <1>4, <1>8
  <2>2. Ends(f)[i] < Ends(f)[m - 1]
    BY <1>3, <2>1
  <2> QED
    BY <1>3, <1>5, <1>6, <2>2
<1> QED
  BY <1>7, <1>8

\* Appending leaves the ends that were there.
LEMMA EndsAppend ==
  ASSUME NEW f \in Seq(Piece), NEW p \in Piece
  PROVE  /\ \A i \in 0 .. Len(f) : Ends(Append(f, p))[i] = Ends(f)[i]
         /\ Ends(Append(f, p))[Len(f) + 1] = Ends(f)[Len(f)] + Bytes(p)
<1> DEFINE g == Append(f, p)
           T == {k \in 0 .. Len(f) : Ends(g)[k] # Ends(f)[k]}
<1>1. g \in Seq(Piece) /\ Len(g) = Len(f) + 1 /\ g[Len(f) + 1] = p
  OBVIOUS
<1>2. \A i \in 1 .. Len(f) : g[i] = f[i]
  OBVIOUS
<1> HIDE DEF g
<1>3. T = {}
  <2>1. SUFFICES ASSUME T # {} PROVE FALSE
    OBVIOUS
  <2>2. T \in SUBSET Nat
    OBVIOUS
  <2>3. PICK m \in T : \A k \in T : m <= k
    <3> HIDE DEF T
    <3> QED BY <2>1, <2>2, Least
  <2>4. m \in 1 .. Len(f)
    BY <1>1, <2>3, EndsSum
  <2>5. m - 1 \in 0 .. Len(f) /\ ~(m <= m - 1)
    BY <2>4
  <2>6. Ends(g)[m - 1] = Ends(f)[m - 1]
    BY <2>3, <2>5
  <2>7. Ends(g)[m] = Ends(g)[m - 1] + Bytes(g[m])
    <3>1. m \in 1 .. Len(g)
      BY <1>1, <2>4
    <3> QED
      BY <1>1, <3>1, EndsSum
  <2>8. Ends(f)[m] = Ends(f)[m - 1] + Bytes(f[m])
    BY <2>4, EndsSum
  <2> QED
    BY <1>2, <2>3, <2>4, <2>6, <2>7, <2>8
<1>4. Ends(g)[Len(f) + 1] = Ends(g)[Len(f)] + Bytes(p)
  <2>1. Len(f) + 1 \in 1 .. Len(g) /\ (Len(f) + 1) - 1 = Len(f)
    BY <1>1
  <2> QED
    BY <1>1, <2>1, EndsSum
<1>5. Len(f) \in 0 .. Len(f)
  OBVIOUS
<1> QED
  BY <1>3, <1>4, <1>5 DEF g

\* No file is the absent one.
LEMMA FileIs ==
  ASSUME NEW f \in Seq(Piece)
  PROVE  /\ f # NoFile /\ Contents(f) = f
         /\ FileLen(f) = Ends(f)[Len(f)] /\ FileLen(f) \in Nat
<1>1. f # NoFile
  <2>1. SUFFICES ASSUME f = NoFile PROVE FALSE
    OBVIOUS
  <2>2. f[1].event = 0 /\ 1 \in 1 .. Len(f)
    BY <2>1 DEF NoFile
  <2>3. f[1] \in Piece
    BY <2>2
  <2>4. 0 \in 1 .. Len(Size) /\ Len(Size) \in Nat
    BY <2>2, <2>3, SizeAssumption DEF Piece, Events
  <2> QED
    BY <2>4
<1> QED
  BY <1>1, EndsSum DEF Contents, FileLen

\* A file that does not exist reads as an empty one.
LEMMA ContentsIs ==
  ASSUME NEW f \in Seq(Piece) \cup {NoFile}
  PROVE  /\ Contents(f) \in Seq(Piece) /\ Contents(f) # NoFile
         /\ FileLen(f) \in Nat /\ FileLen(Contents(f)) = FileLen(f)
         /\ FileLen(f) = Ends(Contents(f))[Len(Contents(f))]
<1>1. CASE f \in Seq(Piece)
  BY <1>1, FileIs
<1>2. CASE f = NoFile
  <2>1. << >> \in Seq(Piece) /\ Len(<< >>) = 0
    OBVIOUS
  <2>2. Ends(<< >>)[0] = 0
    BY <2>1, EndsSum
  <2>3. Contents(f) = << >> /\ FileLen(f) = 0
    BY <1>2 DEF Contents, FileLen
  <2>4. << >> # NoFile /\ FileLen(<< >>) = Ends(<< >>)[Len(<< >>)]
    BY <2>1, FileIs
  <2> QED
    BY <2>1, <2>2, <2>3, <2>4
<1> QED
  BY <1>1, <1>2

EventsOf(f) == [i \in 1 .. Len(f) |-> f[i].event]

AllLines(f) == \A i \in 1 .. Len(f) : f[i].form = "line"

\* The events of a file, one per piece.
LEMMA EventsOfType ==
  ASSUME NEW f \in Seq(Piece)
  PROVE  /\ EventsOf(f) \in Seq(Events) /\ Len(EventsOf(f)) = Len(f)
         /\ \A i \in 1 .. Len(f) : EventsOf(f)[i] = f[i].event
<1>1. ASSUME NEW i \in 1 .. Len(f) PROVE f[i].event \in Events
  <2>1. f[i] \in Piece
    OBVIOUS
  <2> QED
    BY <2>1 DEF Piece
<1>2. EventsOf(f) \in [1 .. Len(f) -> Events] /\ Len(f) \in Nat
  BY <1>1 DEF EventsOf
<1>3. EventsOf(f) \in Seq(Events)
  BY <1>2, SeqDef
<1> QED
  BY <1>2, <1>3, LenProperties DEF EventsOf

\* The pieces that replay_reader takes.
Whole(f) == IF f # << >> /\ Last(f).form = "fragment" THEN Front(f) ELSE f

\* They are a file again.
LEMMA WholeType ==
  ASSUME NEW f \in Seq(Piece)
  PROVE  Whole(f) \in Seq(Piece)
<1>1. CASE f # << >> /\ Last(f).form = "fragment"
  <2>1. Whole(f) = SubSeq(f, 1, Len(f) - 1)
    BY <1>1 DEF Whole, Front
  <2>2. \A i \in 1 .. Len(f) - 1 : f[i] \in Piece
    OBVIOUS
  <2>3. Len(f) - 1 \in Int /\ 1 \in Int
    OBVIOUS
  <2> QED
    BY <2>1, <2>2, <2>3, SubSeqProperties
<1>2. CASE ~(f # << >> /\ Last(f).form = "fragment")
  BY <1>2 DEF Whole
<1> QED
  BY <1>1, <1>2

\* replay_reader as a whole
LEMMA ReplayIs ==
  ASSUME NEW f \in Seq(Piece)
  PROVE  /\ Replay(f).events \in Seq(Events)
         /\ Readable(f) => Replay(f) = [ok |-> TRUE, events |-> EventsOf(Whole(f))]
         /\ AllLines(f) => Readable(f) /\ Replay(f) = [ok |-> TRUE, events |-> EventsOf(f)]
<1> DEFINE bad == \/ \E i \in 1 .. Len(f) - 1 : f[i].form # "line"
                  \/ f # << >> /\ Last(f).form = "garbled"
           good == [ok |-> TRUE, events |-> EventsOf(Whole(f))]
<1>1. Replay(f) = IF bad THEN Failure ELSE good
  BY DEF Replay, Whole, EventsOf
<1>2. EventsOf(Whole(f)) \in Seq(Events)
  BY WholeType, EventsOfType
<1>3. AllLines(f) => Readable(f) /\ Whole(f) = f
  BY DEF AllLines, Readable, Whole, Last
<1>4. << >> \in Seq(Events) /\ Failure.events = << >>
  BY DEF Failure
<1>5. Readable(f) => ~bad
  BY DEF Readable, Last
<1>6. good.events \in Seq(Events)
  BY <1>2
<1> HIDE DEF good, bad
<1>7. Replay(f) = Failure \/ Replay(f) = good
  BY <1>1
<1>8. Replay(f).events \in Seq(Events)
  BY <1>4, <1>6, <1>7, Zenon
<1>9. Readable(f) => Replay(f) = good
  BY <1>1, <1>5
<1> QED
  BY <1>3, <1>8, <1>9 DEF good

LEMMA ReplayEmpty == Replay(<< >>) = [ok |-> TRUE, events |-> << >>]
<1>1. << >> \in Seq(Piece) /\ AllLines(<< >>) /\ EventsOf(<< >>) = << >>
  BY DEF AllLines, EventsOf
<1> QED
  BY <1>1, ReplayIs

\* One more piece after whole lines: its event comes last, or it is ignored.
LEMMA ReplayAppend ==
  ASSUME NEW f \in Seq(Piece), NEW p \in Piece, AllLines(f), p.form # "garbled"
  PROVE  /\ Readable(Append(f, p))
         /\ Replay(Append(f, p)).events =
              IF p.form = "fragment" THEN Replay(f).events
              ELSE Append(Replay(f).events, p.event)
<1> DEFINE g == Append(f, p)
           N == Len(f)
<1>1. g \in Seq(Piece) /\ Len(g) = N + 1 /\ g[N + 1] = p /\ N \in Nat /\ g # << >>
  OBVIOUS
<1>2. \A i \in 1 .. N : g[i] = f[i]
  OBVIOUS
<1>3. Readable(g)
  BY <1>1, <1>2 DEF Readable, AllLines
<1>4. Replay(g).events = EventsOf(Whole(g)) /\ Replay(f).events = EventsOf(f)
  <2>1. Replay(g) = [ok |-> TRUE, events |-> EventsOf(Whole(g))]
    BY <1>1, <1>3, ReplayIs
  <2>2. Replay(f) = [ok |-> TRUE, events |-> EventsOf(f)]
    BY ReplayIs
  <2> QED
    BY <2>1, <2>2
<1>5. Last(g) = p
  BY <1>1 DEF Last
<1>6. CASE p.form = "fragment"
  <2>1. Whole(g) = SubSeq(g, 1, N)
    <3>1. (N + 1) - 1 = N
      BY <1>1
    <3> QED BY <1>1, <1>5, <1>6, <3>1 DEF Whole, Front
  <2>2. SubSeq(g, 1, N) = f
    OBVIOUS
  <2> QED
    BY <1>3, <1>4, <1>6, <2>1, <2>2
<1>7. CASE p.form # "fragment"
  <2>1. Whole(g) = g
    BY <1>5, <1>7 DEF Whole
  <2>2. EventsOf(g) \in Seq(Events) /\ Len(EventsOf(g)) = N + 1
    BY <1>1, EventsOfType
  <2>3. EventsOf(f) \in Seq(Events) /\ Len(EventsOf(f)) = N /\ p.event \in Events
    BY EventsOfType DEF Piece
  <2>4. \A i \in 1 .. N + 1 : EventsOf(g)[i] = Append(EventsOf(f), p.event)[i]
    <3> HIDE DEF g
    <3>1. \A i \in 1 .. N : EventsOf(g)[i] = f[i].event /\ EventsOf(f)[i] = f[i].event
      BY <1>1, <1>2, EventsOfType
    <3>2. EventsOf(g)[N + 1] = p.event
      BY <1>1, EventsOfType
    <3> QED
      BY <1>1, <2>2, <2>3, <3>1, <3>2
  <2>5. Append(EventsOf(f), p.event) \in Seq(Events) /\ Len(Append(EventsOf(f), p.event)) = N + 1
    BY <2>3
  <2>6. EventsOf(g) = Append(EventsOf(f), p.event)
    BY <2>2, <2>4, <2>5, SeqEqual
  <2> QED
    BY <1>3, <1>4, <1>7, <2>1, <2>6
<1> QED
  BY <1>6, <1>7

\* A file read from its k-th piece on.
LEMMA RestIs ==
  ASSUME NEW f \in Seq(Piece), NEW k \in 0 .. Len(f)
  PROVE  /\ Rest(f, k) \in Seq(Piece) /\ Len(Rest(f, k)) = Len(f) - k
         /\ \A i \in 1 .. Len(f) - k : Rest(f, k)[i] = f[k + i]
         /\ Readable(f) => Readable(Rest(f, k))
         /\ AllLines(f) => AllLines(Rest(f, k))
         /\ k = 0 => Rest(f, k) = f
         /\ k = Len(f) => Rest(f, k) = << >>
<1>1. k + 1 \in Int /\ Len(f) \in Nat /\ k \in Nat /\ k <= Len(f)
  OBVIOUS
<1>2. \A i \in (k + 1) .. Len(f) : f[i] \in Piece
  OBVIOUS
<1>3. /\ Rest(f, k) \in Seq(Piece)
      /\ Len(Rest(f, k)) = IF k + 1 <= Len(f) THEN Len(f) - (k + 1) + 1 ELSE 0
      /\ \A i \in 1 .. Len(f) - (k + 1) + 1 : Rest(f, k)[i] = f[k + 1 + i - 1]
  BY <1>1, <1>2, SubSeqProperties DEF Rest
<1>4. Len(Rest(f, k)) = Len(f) - k
  BY <1>1, <1>3
<1>5. ASSUME NEW i \in 1 .. Len(f) - k PROVE Rest(f, k)[i] = f[k + i]
  <2>1. i \in 1 .. Len(f) - (k + 1) + 1 /\ k + 1 + i - 1 = k + i
    BY <1>1
  <2> QED
    BY <1>3, <2>1
<1>6. Readable(f) => Readable(Rest(f, k))
  <2>1. \A i \in 1 .. (Len(f) - k) - 1 : i \in 1 .. Len(f) - k /\ k + i \in 1 .. Len(f) - 1
    BY <1>1
  <2>2. \A i \in 1 .. Len(f) - k : k + i \in 1 .. Len(f)
    BY <1>1
  <2> QED
    BY <1>4, <1>5, <2>1, <2>2 DEF Readable
<1>7. AllLines(f) => AllLines(Rest(f, k))
  <2>1. \A i \in 1 .. Len(f) - k : k + i \in 1 .. Len(f)
    BY <1>1
  <2> QED
    BY <1>4, <1>5, <2>1 DEF AllLines
<1>8. k = 0 => Rest(f, k) = f
  <2>1. SubSeq(f, 0 + 1, Len(f)) = f
    OBVIOUS
  <2> QED
    BY <2>1 DEF Rest
<1>9. k = Len(f) => Rest(f, k) = << >>
  BY <1>3, <1>4
<1> QED
  BY <1>3, <1>4, <1>5, <1>6, <1>7, <1>8, <1>9

\* What is appended shows in every such read.
LEMMA RestAppend ==
  ASSUME NEW f \in Seq(Piece), NEW p \in Piece, NEW k \in 0 .. Len(f)
  PROVE  Rest(Append(f, p), k) = Append(Rest(f, k), p)
<1> DEFINE g == Append(f, p)
           N == Len(f)
           r == Rest(f, k)
           q == Rest(g, k)
<1>1. g \in Seq(Piece) /\ Len(g) = N + 1 /\ g[N + 1] = p /\ N \in Nat /\ k \in Nat /\ k <= N
  OBVIOUS
<1>2. \A i \in 1 .. N : g[i] = f[i]
  OBVIOUS
<1> HIDE DEF g
<1>3. r \in Seq(Piece) /\ Len(r) = N - k /\ \A i \in 1 .. N - k : r[i] = f[k + i]
  BY RestIs
<1>4. q \in Seq(Piece) /\ Len(q) = N + 1 - k /\ \A i \in 1 .. N + 1 - k : q[i] = g[k + i]
  <2>1. k \in 0 .. Len(g)
    BY <1>1
  <2> QED
    BY <1>1, <2>1, RestIs
<1> HIDE DEF q, r, N
<1>5. Append(r, p) \in Seq(Piece) /\ Len(Append(r, p)) = N - k + 1
  BY <1>3
<1>6. ASSUME NEW i \in 1 .. N + 1 - k PROVE q[i] = Append(r, p)[i]
  <2>1. CASE i = N - k + 1
    <3>1. q[i] = p
      <4>1. k + i = N + 1
        BY <1>1, <2>1
      <4> QED BY <1>1, <1>4, <4>1
    <3>2. Append(r, p)[i] = p
      <4>1. i = Len(r) + 1
        BY <1>1, <1>3, <2>1
      <4> QED BY <1>3, <4>1, AppendProperties
    <3> QED BY <3>1, <3>2
  <2>2. CASE i # N - k + 1
    <3>1. i \in 1 .. N - k /\ k + i \in 1 .. N
      BY <1>1, <2>2
    <3>2. Append(r, p)[i] = r[i]
      BY <1>1, <1>3, <3>1
    <3> QED BY <1>2, <1>3, <1>4, <3>1, <3>2
  <2> QED
    BY <2>1, <2>2
<1>7. N + 1 - k = N - k + 1
  BY <1>1
<1>8. q = Append(r, p)
  BY <1>4, <1>5, <1>6, <1>7, SeqEqual
<1> QED
  BY <1>8 DEF q, r, g

\* replay_from delivers events, wherever it starts.
LEMMA ReplayFromType ==
  ASSUME NEW f \in Seq(Piece), NEW offset
  PROVE  ReplayFrom(f, offset).events \in Seq(Events)
<1> DEFINE starts == {i \in 0 .. Len(f) : Ends(f)[i] = offset}
           k == CHOOSE j \in starts : TRUE
           none == [ok |-> TRUE, events |-> << >>]
<1>1. ReplayFrom(f, offset) = IF offset >= FileLen(f) THEN none
                              ELSE IF starts = {} THEN Failure ELSE Replay(Rest(f, k))
  BY DEF ReplayFrom, Rest
<1>2. starts # {} => k \in 0 .. Len(f)
  OBVIOUS
<1>3. starts # {} => Replay(Rest(f, k)).events \in Seq(Events)
  <2> HIDE DEF k
  <2> QED BY <1>2, RestIs, ReplayIs
<1>4. << >> \in Seq(Events) /\ Failure.events = << >> /\ none.events = << >>
  BY DEF Failure
<1> HIDE DEF k, starts, none
<1>5. \/ ReplayFrom(f, offset) = none \/ ReplayFrom(f, offset) = Failure
      \/ starts # {} /\ ReplayFrom(f, offset) = Replay(Rest(f, k))
  BY <1>1
<1> QED
  BY <1>3, <1>4, <1>5, Zenon

\* An offset where a piece ends: what follows that piece is read.
LEMMA ReplayFromEnd ==
  ASSUME NEW f \in Seq(Piece), NEW k \in 0 .. Len(f), Readable(Rest(f, k))
  PROVE  /\ ReplayFrom(f, Ends(f)[k]).ok
         /\ ReplayFrom(f, Ends(f)[k]).events = Replay(Rest(f, k)).events
<1> DEFINE offset == Ends(f)[k]
           starts == {i \in 0 .. Len(f) : Ends(f)[i] = offset}
           none == [ok |-> TRUE, events |-> << >>]
           j == CHOOSE i \in starts : TRUE
<1>1. ReplayFrom(f, offset) = IF offset >= FileLen(f) THEN none
                              ELSE IF starts = {} THEN Failure ELSE Replay(Rest(f, j))
  BY DEF ReplayFrom, Rest
<1>2. k \in starts /\ Len(f) \in Nat
  OBVIOUS
<1>3. \A i \in 0 .. Len(f) : Ends(f)[i] \in Nat
  BY EndsSum
<1>4. FileLen(f) = Ends(f)[Len(f)]
  BY FileIs
<1>5. starts = {k}
  <2>1. ASSUME NEW i \in starts, i # k PROVE FALSE
    <3>1. i \in 0 .. Len(f) /\ Ends(f)[i] = Ends(f)[k]
      OBVIOUS
    <3>2. i < k \/ k < i
      BY <2>1, <3>1
    <3>3. Ends(f)[i] < Ends(f)[k] \/ Ends(f)[k] < Ends(f)[i]
      BY <3>1, <3>2, EndsGrow
    <3> QED
      BY <1>3, <3>1, <3>3
  <2> QED
    BY <1>2, <2>1
<1>6. CASE k = Len(f)
  <2>1. ReplayFrom(f, offset) = none
    BY <1>1, <1>3, <1>4, <1>6
  <2>2. Replay(Rest(f, k)) = none
    BY <1>6, RestIs, ReplayEmpty
  <2>3. none.ok
    OBVIOUS
  <2> HIDE DEF none, offset
  <2>4. ReplayFrom(f, offset).ok /\ ReplayFrom(f, offset).events = Replay(Rest(f, k)).events
    BY <2>1, <2>2, <2>3, Zenon
  <2> QED
    BY <2>4 DEF offset
<1>7. CASE k # Len(f)
  <2>1. k < Len(f) /\ Len(f) \in 0 .. Len(f)
    BY <1>7
  <2>2. Ends(f)[k] < Ends(f)[Len(f)]
    BY <2>1, EndsGrow
  <2>3. ~(offset >= FileLen(f))
    BY <1>2, <1>3, <1>4, <2>1, <2>2
  <2>4. j = k
    BY <1>5
  <2>5. ReplayFrom(f, offset) = Replay(Rest(f, k))
    BY <1>1, <1>2, <2>3, <2>4
  <2>6. Replay(Rest(f, k)) = [ok |-> TRUE, events |-> EventsOf(Whole(Rest(f, k)))]
    BY RestIs, ReplayIs
  <2>7. Replay(Rest(f, k)).ok
    BY <2>6
  <2> QED
    BY <2>5, <2>7
<1> QED
  BY <1>6, <1>7

Snapshots == [state: Seq(Events), offset: Nat] \cup {NoSnap}

Files == Seq(Piece) \cup {NoFile}

\* The fields of a snapshot, and of none.
LEMMA SnapIs ==
  ASSUME NEW s \in Snapshots
  PROVE  /\ s.state \in Seq(Events) /\ s.offset \in Int
         /\ s # NoSnap => s.offset \in Nat
         /\ s = NoSnap => s.state = << >> /\ s.offset = -1
<1>1. CASE s = NoSnap
  BY <1>1 DEF NoSnap
<1>2. CASE s # NoSnap
  BY <1>2 DEF Snapshots
<1> QED
  BY <1>1, <1>2

\* load_state delivers events.
LEMMA LoadType ==
  ASSUME NEW a \in Files, NEW o \in Files, NEW s \in Snapshots
  PROVE  LoadState(a, o, s).events \in Seq(Events)
<1> DEFINE tail == ReplayFrom(Contents(a), s.offset)
           rest == ReplayFrom(Contents(o), s.offset)
           new  == Replay(Contents(a))
           fromOld == [ok |-> TRUE, events |-> s.state \o rest.events \o new.events]
           fromNew == [ok |-> tail.ok, events |-> s.state \o tail.events]
<1>1. LoadState(a, o, s) \in {new, Failure, fromOld, fromNew}
  BY DEF LoadState
<1>2. Contents(a) \in Seq(Piece) /\ Contents(o) \in Seq(Piece)
  BY ContentsIs DEF Files
<1>3. tail.events \in Seq(Events) /\ rest.events \in Seq(Events) /\ new.events \in Seq(Events)
  BY <1>2, ReplayFromType, ReplayIs
<1>4. s.state \in Seq(Events)
  BY SnapIs
<1> HIDE DEF tail, rest, new
<1>5. fromOld.events \in Seq(Events) /\ fromNew.events \in Seq(Events)
  BY <1>3, <1>4
<1>6. Failure.events \in Seq(Events)
  BY DEF Failure
<1> HIDE DEF fromOld, fromNew
<1> QED
  BY <1>1, <1>3, <1>5, <1>6, Zenon

\* The offset lies in kron.aof exactly where a piece ends there.
LEMMA EndsInFile ==
  ASSUME NEW f \in Seq(Piece), NEW k \in 0 .. Len(f)
  PROVE  Ends(f)[k] <= FileLen(f) /\ (k # Len(f) => Ends(f)[k] < FileLen(f))
<1>1. k = Len(f) \/ k < Len(f)
  OBVIOUS
<1>2. Ends(f)[k] = Ends(f)[Len(f)] \/ Ends(f)[k] < Ends(f)[Len(f)]
  BY <1>1, EndsGrow
<1>3. Ends(f)[k] \in Nat /\ Ends(f)[Len(f)] \in Nat /\ FileLen(f) = Ends(f)[Len(f)]
  BY EndsSum, FileIs
<1>4. k # Len(f) => Ends(f)[k] < Ends(f)[Len(f)]
  BY <1>1, EndsGrow
<1> QED
  BY <1>2, <1>3, <1>4

\* load_state without a snapshot
LEMMA LoadFromStart ==
  ASSUME NEW a \in Files, NEW o \in Files, NEW s \in Snapshots, FromStart(a, s)
  PROVE  /\ LoadState(a, o, s).ok
         /\ LoadState(a, o, s).events = Replay(Contents(a)).events
<1> DEFINE c == Contents(a)
<1>1. c \in Seq(Piece)
  BY ContentsIs DEF Files
<1>2. Replay(c) = [ok |-> TRUE, events |-> EventsOf(Whole(c))]
  BY <1>1, ReplayIs DEF FromStart
<1>3. Replay(c).ok
  BY <1>2
<1>4. LoadState(a, o, s) = Replay(c)
  BY DEF LoadState, FromStart
<1> QED
  BY <1>3, <1>4

\* load_state on a snapshot whose offset kron.aof does not reach
LEMMA LoadFromOld ==
  ASSUME NEW a \in Files, NEW o \in Files, NEW s \in Snapshots, NEW j, FromOld(j, a, o, s)
  PROVE  /\ LoadState(a, o, s).ok
         /\ LoadState(a, o, s).events
              = (s.state \o Replay(Rest(o, j)).events) \o Replay(Contents(a)).events
<1> DEFINE c == Contents(a)
           rest == ReplayFrom(Contents(o), s.offset)
           new  == Replay(c)
           both == [ok |-> TRUE, events |-> s.state \o rest.events \o new.events]
<1>1. c \in Seq(Piece) /\ o \in Seq(Piece) /\ j \in 0 .. Len(o) /\ Contents(o) = o
  BY ContentsIs, FileIs DEF Files, FromOld
<1>2. new = [ok |-> TRUE, events |-> EventsOf(Whole(c))]
  BY <1>1, ReplayIs DEF FromOld
<1>3. new.ok
  BY <1>2
<1>4. rest.ok /\ rest.events = Replay(Rest(o, j)).events
  BY <1>1, ReplayFromEnd DEF FromOld
<1> HIDE DEF new, rest
<1>5. LoadState(a, o, s) = both
  BY <1>3, <1>4 DEF LoadState, FromOld, new, rest
<1>6. both.ok /\ both.events = s.state \o rest.events \o new.events
  OBVIOUS
<1> HIDE DEF both
<1>7. LoadState(a, o, s).ok /\ LoadState(a, o, s).events = s.state \o rest.events \o new.events
  BY <1>5, <1>6
<1> QED
  BY <1>4, <1>7 DEF new

\* load_state on a snapshot of the first k pieces of kron.aof
LEMMA LoadFromOffset ==
  ASSUME NEW a \in Files, NEW o \in Files, NEW s \in Snapshots, NEW k, FromOffset(k, a, s)
  PROVE  /\ LoadState(a, o, s).ok
         /\ LoadState(a, o, s).events = s.state \o Replay(Rest(Contents(a), k)).events
<1> DEFINE c == Contents(a)
           tail == ReplayFrom(c, s.offset)
           load == [ok |-> tail.ok, events |-> s.state \o tail.events]
<1>1. c \in Seq(Piece) /\ k \in 0 .. Len(c) /\ FileLen(c) = FileLen(a) /\ FileLen(a) \in Nat
  BY ContentsIs DEF Files, FromOffset
<1>2. ~(s.offset > FileLen(a))
  <2>1. s.offset <= FileLen(a)
    BY <1>1, EndsInFile DEF FromOffset
  <2>2. s.offset \in Int
    BY SnapIs
  <2> QED
    BY <1>1, <2>1, <2>2
<1>3. LoadState(a, o, s) = load
  BY <1>2 DEF LoadState, FromOffset
<1>4. tail.ok /\ tail.events = Replay(Rest(c, k)).events
  BY <1>1, ReplayFromEnd DEF FromOffset
<1> HIDE DEF tail
<1>5. load.ok /\ load.events = s.state \o Replay(Rest(c, k)).events
  BY <1>4
<1> HIDE DEF load
<1> QED
  BY <1>3, <1>5

\* A directory that is read in one of the three ways is never refused.
LEMMA DirectoryOpens ==
  ASSUME NEW a \in Files, NEW o \in Files, NEW s \in Snapshots, Directory(a, o, s)
  PROVE  LoadState(a, o, s).ok
BY LoadFromStart, LoadFromOld, LoadFromOffset DEF Directory

LEMMA AppendLast ==
  ASSUME NEW T, NEW u \in Seq(T), NEW q \in Seq(T), NEW e \in T
  PROVE  u \o Append(q, e) = Append(u \o q, e)
<1> DEFINE l == u \o Append(q, e)
           m == Append(u \o q, e)
           n == Len(u) + Len(q)
<1>1. Append(q, e) \in Seq(T) /\ Len(Append(q, e)) = Len(q) + 1 /\ u \o q \in Seq(T) /\ Len(u \o q) = n
  BY AppendProperties, ConcatProperties
<1>2. l \in Seq(T) /\ Len(l) = n + 1 /\ m \in Seq(T) /\ Len(m) = n + 1
  BY <1>1, AppendProperties, ConcatProperties
<1>3. ASSUME NEW i \in 1 .. n + 1 PROVE l[i] = m[i]
  OBVIOUS
<1> HIDE DEF l, m
<1>4. l = m
  BY <1>2, <1>3, SeqEqual
<1> QED
  BY <1>4 DEF l, m

\* What the last of several files adds comes last.
LEMMA AddedLast ==
  ASSUME NEW u \in Seq(Events), NEW f \in Seq(Piece), AllLines(f), NEW p \in Piece,
         p.form # "garbled"
  PROVE  u \o Replay(Append(f, p)).events =
           IF p.form = "fragment" THEN u \o Replay(f).events
           ELSE Append(u \o Replay(f).events, p.event)
<1> DEFINE q == Replay(f).events
<1>1. q \in Seq(Events) /\ p.event \in Events
  BY ReplayIs DEF Piece
<1>2. Replay(Append(f, p)).events = IF p.form = "fragment" THEN q ELSE Append(q, p.event)
  BY ReplayAppend
<1> HIDE DEF q
<1>3. u \o Append(q, p.event) = Append(u \o q, p.event)
  <2>1. \A v, w \in Seq(Events), e \in Events : v \o Append(w, e) = Append(v \o w, e)
    BY AppendLast
  <2> QED
    BY <1>1, <2>1, Zenon
<1> QED
  BY <1>2, <1>3 DEF q

\* A file whose last line is whole.
LEMMA Finished ==
  ASSUME NEW f \in Seq(Piece), NEW k \in 0 .. Len(f), Readable(Rest(f, k)),
         ~Unfinished(f) \/ k = Len(f)
  PROVE  AllLines(Rest(f, k))
<1> DEFINE r == Rest(f, k)
<1>1. r \in Seq(Piece) /\ Len(r) = Len(f) - k /\ \A i \in 1 .. Len(f) - k : r[i] = f[k + i]
  BY RestIs
<1>2. CASE k = Len(f)
  BY <1>1, <1>2 DEF AllLines
<1>3. CASE k # Len(f)
  <2>1. Len(f) - k \in 1 .. Len(f) - k /\ k + (Len(f) - k) = Len(f) /\ f # << >>
    BY <1>3
  <2>2. f[Len(f)].form = "line"
    BY <1>3, <2>1 DEF Unfinished, Last
  <2>3. r[Len(f) - k].form = "line"
    BY <1>1, <2>1, <2>2
  <2> HIDE DEF r
  <2>4. \A i \in 1 .. Len(r) : i = Len(r) \/ i \in 1 .. Len(r) - 1
    <3>1. Len(r) \in Nat
      BY <1>1
    <3> QED
      BY <3>1
  <2> QED
    BY <1>1, <2>3, <2>4 DEF AllLines, Readable, r
<1> QED
  BY <1>2, <1>3

\* The event of p is added to what is recovered, unless p is a fragment.
Adds(p, before, after) ==
  after.events = IF p.form = "fragment" THEN before.events ELSE Append(before.events, p.event)

\* An append to kron.aof that neither follows an unfinished line nor reaches
\* the offset shows in what is recovered.
LEMMA AppendedToAof ==
  ASSUME NEW a \in Seq(Piece), NEW o \in Files, NEW s \in Snapshots, NEW p \in Piece,
         Directory(a, o, s), p.form # "garbled",
         Unfinished(a) => FileLen(a) = s.offset,
         FileLen(a) < s.offset => FileLen(a) + Bytes(p) < s.offset
  PROVE  /\ Directory(Append(a, p), o, s)
         /\ Adds(p, LoadState(a, o, s), LoadState(Append(a, p), o, s))
<1> DEFINE b == Append(a, p)
<1>1. b \in Seq(Piece) /\ Len(b) = Len(a) + 1 /\ a \in Files /\ b \in Files
  BY DEF Files
<1>2. Contents(a) = a /\ Contents(b) = b
  BY <1>1, FileIs
<1>3. s.state \in Seq(Events) /\ s.offset \in Int /\ FileLen(a) \in Nat
  BY SnapIs, FileIs
<1>4. FileLen(b) = FileLen(a) + Bytes(p) /\ \A i \in 0 .. Len(a) : Ends(b)[i] = Ends(a)[i]
  BY <1>1, EndsAppend, FileIs
<1>5. 0 \in 0 .. Len(a) /\ Rest(a, 0) = a
  BY RestIs
<1> HIDE DEF b
<1>6. CASE FromStart(a, s)
  <2>1. ~Unfinished(a) /\ Readable(Rest(a, 0))
    BY <1>2, <1>3, <1>5, <1>6, SnapIs DEF FromStart
  <2>2. AllLines(a)
    BY <1>5, <2>1, Finished
  <2>3. Readable(b)
    BY <2>2, ReplayAppend DEF b
  <2>4. FromStart(b, s)
    BY <1>2, <1>6, <2>3 DEF FromStart
  <2>5. LoadState(a, o, s).events = Replay(a).events /\ LoadState(b, o, s).events = Replay(b).events
    BY <1>1, <1>2, <1>6, <2>4, LoadFromStart
  <2>6. Adds(p, LoadState(a, o, s), LoadState(b, o, s))
    BY <2>2, <2>5, ReplayAppend DEF Adds, b
  <2> QED
    BY <2>4, <2>6 DEF Directory, b
<1>7. CASE \E j \in 0 .. Len(o) : FromOld(j, a, o, s)
  <2>1. PICK j \in 0 .. Len(o) : FromOld(j, a, o, s)
    BY <1>7
  <2>2. ~Unfinished(a) /\ Readable(Rest(a, 0))
    BY <1>2, <1>3, <1>5, <2>1 DEF FromOld
  <2>3. AllLines(a)
    BY <1>5, <2>2, Finished
  <2>4. Readable(b)
    BY <2>3, ReplayAppend DEF b
  <2>5. FromOld(j, b, o, s)
    <3>1. FileLen(a) < s.offset
      BY <1>3, <2>1 DEF FromOld
    <3>2. FileLen(b) \in Nat
      BY <1>1, FileIs
    <3>3. s.offset > FileLen(b)
      BY <1>3, <1>4, <3>1, <3>2
    <3> QED
      BY <1>2, <2>1, <2>4, <3>3 DEF FromOld
  <2> DEFINE u == s.state \o Replay(Rest(o, j)).events
  <2>6. u \in Seq(Events)
    <3>1. o \in Seq(Piece) /\ j \in 0 .. Len(o)
      BY <2>1 DEF Files, FromOld
    <3>2. Replay(Rest(o, j)).events \in Seq(Events)
      BY <3>1, RestIs, ReplayIs
    <3> QED
      BY <1>3, <3>2
  <2>7. LoadState(a, o, s).events = u \o Replay(a).events
    BY <1>1, <1>2, <2>1, LoadFromOld
  <2>8. LoadState(b, o, s).events = u \o Replay(b).events
    BY <1>1, <1>2, <2>5, LoadFromOld
  <2> HIDE DEF u
  <2>9. Adds(p, LoadState(a, o, s), LoadState(b, o, s))
    BY <2>3, <2>6, <2>7, <2>8, AddedLast DEF Adds, b
  <2> QED
    BY <2>1, <2>5, <2>9 DEF Directory, b
<1>8. CASE \E k \in 0 .. Len(Contents(a)) : FromOffset(k, a, s)
  <2>1. PICK k \in 0 .. Len(a) : FromOffset(k, a, s)
    BY <1>2, <1>8
  <2>2. ~Unfinished(a) \/ k = Len(a)
    <3>1. k # Len(a) => Ends(a)[k] < FileLen(a)
      BY EndsInFile
    <3> QED
      BY <1>2, <1>3, <2>1, <3>1 DEF FromOffset
  <2>3. AllLines(Rest(a, k)) /\ Rest(a, k) \in Seq(Piece)
    BY <1>2, <2>1, <2>2, Finished, RestIs DEF FromOffset
  <2>4. Rest(b, k) = Append(Rest(a, k), p)
    BY RestAppend DEF b
  <2>5. Readable(Rest(b, k))
    BY <2>3, <2>4, ReplayAppend
  <2>6. k \in 0 .. Len(b)
    BY <1>1
  <2>7. FromOffset(k, b, s)
    BY <1>2, <1>4, <2>1, <2>5, <2>6 DEF FromOffset
  <2>8. /\ LoadState(a, o, s).events = s.state \o Replay(Rest(a, k)).events
        /\ LoadState(b, o, s).events = s.state \o Replay(Rest(b, k)).events
    <3>1. LoadState(a, o, s).events = s.state \o Replay(Rest(Contents(a), k)).events
      BY <1>1, <2>1, LoadFromOffset
    <3>2. LoadState(b, o, s).events = s.state \o Replay(Rest(Contents(b), k)).events
      BY <1>1, <2>7, LoadFromOffset
    <3> QED
      BY <1>2, <3>1, <3>2
  <2>9. Adds(p, LoadState(a, o, s), LoadState(b, o, s))
    BY <1>3, <2>3, <2>4, <2>8, AddedLast DEF Adds
  <2> QED
    BY <1>2, <2>6, <2>7, <2>9 DEF Directory, b
<1> QED
  BY <1>6, <1>7, <1>8 DEF Directory

\* So does an append to kron.aof.old while the offset points into that file
\* and kron.aof is empty.
LEMMA AppendedToOld ==
  ASSUME NEW a \in Files, NEW o \in Seq(Piece), NEW s \in Snapshots, NEW p \in Piece,
         Directory(a, o, s), p.form # "garbled",
         Unfinished(o) => FileLen(o) = s.offset,
         Contents(a) = << >>, FileLen(a) < s.offset
  PROVE  /\ Directory(a, Append(o, p), s)
         /\ Adds(p, LoadState(a, o, s), LoadState(a, Append(o, p), s))
<1> DEFINE b == Append(o, p)
<1>1. b \in Seq(Piece) /\ Len(b) = Len(o) + 1 /\ o \in Files /\ b \in Files
  BY DEF Files
<1>2. /\ s.state \in Seq(Events) /\ s.offset \in Int /\ FileLen(o) \in Nat
      /\ FileLen(a) \in Nat /\ FileLen(Contents(a)) = FileLen(a)
  BY SnapIs, FileIs, ContentsIs DEF Files
<1>3. PICK j \in 0 .. Len(o) : FromOld(j, a, o, s)
  <2>1. ~FromStart(a, s)
    BY <1>2, SnapIs DEF FromStart
  <2>2. ASSUME NEW k \in 0 .. Len(Contents(a)), FromOffset(k, a, s) PROVE FALSE
    <3>1. Contents(a) \in Seq(Piece)
      BY ContentsIs DEF Files
    <3>2. s.offset <= FileLen(a)
      BY <1>2, <2>2, <3>1, EndsInFile DEF FromOffset
    <3> QED
      BY <1>2, <3>2
  <2> QED
    BY <2>1, <2>2 DEF Directory
<1>4. ~Unfinished(o) \/ j = Len(o)
  <2>1. j # Len(o) => Ends(o)[j] < FileLen(o)
    BY EndsInFile
  <2> QED
    BY <1>2, <1>3, <2>1 DEF FromOld
<1>5. AllLines(Rest(o, j)) /\ Rest(o, j) \in Seq(Piece)
  BY <1>3, <1>4, Finished, RestIs DEF FromOld
<1>6. Rest(b, j) = Append(Rest(o, j), p)
  BY RestAppend
<1>7. Readable(Rest(b, j))
  BY <1>5, <1>6, ReplayAppend
<1>8. j \in 0 .. Len(b) /\ Ends(b)[j] = Ends(o)[j] /\ b # NoFile
  <2>1. Ends(b)[j] = Ends(o)[j]
    BY EndsAppend
  <2> HIDE DEF b
  <2> QED
    BY <1>1, <2>1, FileIs
<1> HIDE DEF b
<1>9. FromOld(j, a, b, s)
  BY <1>3, <1>7, <1>8 DEF FromOld
<1> DEFINE old1 == Replay(Rest(o, j)).events
           old2 == Replay(Rest(b, j)).events
<1>10. Replay(Contents(a)).events = << >>
  BY ReplayEmpty
<1>11. old1 \in Seq(Events) /\ old2 \in Seq(Events)
  BY <1>1, <1>5, <1>8, RestIs, ReplayIs
<1>12. /\ LoadState(a, o, s).events = (s.state \o old1) \o << >>
       /\ LoadState(a, b, s).events = (s.state \o old2) \o << >>
  BY <1>1, <1>3, <1>9, <1>10, LoadFromOld
<1>13. s.state \o old2 = IF p.form = "fragment" THEN s.state \o old1
                         ELSE Append(s.state \o old1, p.event)
  BY <1>2, <1>5, <1>6, AddedLast
<1> HIDE DEF old1, old2
<1>14. s.state \o old1 \in Seq(Events) /\ s.state \o old2 \in Seq(Events)
  BY <1>2, <1>11
<1>15. /\ (s.state \o old1) \o << >> = s.state \o old1
       /\ (s.state \o old2) \o << >> = s.state \o old2
  BY <1>14, ConcatEmptySeq
<1>16. Adds(p, LoadState(a, o, s), LoadState(a, b, s))
  BY <1>12, <1>13, <1>15 DEF Adds
<1> QED
  BY <1>8, <1>9, <1>16 DEF Directory, b

-----------------------------------------------------------------------------
(* Types                                                                   *)

LEMMA TypeInit == Init => TypeOK /\ FileShape
<1>1. << >> \in Seq(Events)
  OBVIOUS
<1>2. Init => TypeOK
  <2>1. Init => offline \in BOOLEAN
    BY DEF Init
  <2>2. Init => /\ aof = NoFile /\ old = NoFile /\ snap = NoSnap
                /\ handle = "aof" /\ mem = << >> /\ pc = "closed"
                /\ issued = 0 /\ acked = {} /\ failed = {} /\ harm = "none"
                /\ crashes = 0 /\ torn = 0 /\ errors = 0 /\ fails = 0
    BY DEF Init
  <2> QED
    BY <1>1, <2>1, <2>2 DEF TypeOK, Pcs
<1>3. Init => FileShape
  BY DEF Init, FileShape
<1> QED
  BY <1>2, <1>3

Forms == {"line", "bare", "fragment", "garbled"}

LEMMA CutsAreForms == {"line"} \cup Cuts \subseteq Forms /\ "line" \in Forms
BY BoundsAssumption DEF Forms

\* Both names keep files, whichever the handle is for.
LEMMA WriteType ==
  ASSUME TypeOK, FileShape, NEW e, NEW form \in Forms, Write(e, form)
  PROVE  /\ aof' \in Files /\ old' \in Files
         /\ handle = "aof" => aof' # NoFile
         /\ handle = "old" => old' # NoFile /\ aof' = aof
         /\ issued' \in Nat /\ e \in Events /\ snap' = snap /\ offline' = offline
         /\ pc = "up"
<1> DEFINE p == [event |-> e, form |-> form]
<1>1. e \in Events /\ pc = "up" /\ issued' = e /\ snap' = snap /\ offline' = offline
  BY DEF Write
<1>2. p \in Piece /\ e \in Nat
  BY <1>1, SizeAssumption DEF Piece, Events, Forms
<1>3. CASE handle = "aof"
  <2>1. aof \in Seq(Piece) /\ aof' = Append(aof, p) /\ old' = old
    BY <1>1, <1>3 DEF Write, TypeOK, FileShape
  <2>2. aof' \in Seq(Piece)
    BY <1>2, <2>1
  <2>3. aof' # NoFile
    BY <2>2, FileIs
  <2> QED
    BY <1>1, <1>2, <1>3, <2>1, <2>2, <2>3 DEF Files, TypeOK
<1>4. CASE handle = "old"
  <2>1. old \in Seq(Piece) /\ old' = Append(old, p) /\ aof' = aof
    BY <1>1, <1>4 DEF Write, TypeOK, FileShape
  <2>2. old' \in Seq(Piece)
    BY <1>2, <2>1
  <2>3. old' # NoFile
    BY <2>2, FileIs
  <2> QED
    BY <1>1, <1>2, <1>4, <2>1, <2>2, <2>3 DEF Files, TypeOK
<1>5. CASE handle = "unlinked"
  BY <1>1, <1>2, <1>5 DEF Write, TypeOK, Files
<1> QED
  BY <1>3, <1>4, <1>5 DEF TypeOK

\* What opening the store would replay.
LEMMA LoadedType ==
  ASSUME TypeOK
  PROVE  Loaded.events \in Seq(Events) /\ snap \in Snapshots /\ aof \in Files /\ old \in Files
BY LoadType DEF TypeOK, Loaded, Snapshots, Files

LEMMA TypeStep == TypeOK /\ FileShape /\ [Next]_vars => (TypeOK /\ FileShape)'
<1> SUFFICES ASSUME TypeOK, FileShape, [Next]_vars PROVE (TypeOK /\ FileShape)'
  OBVIOUS
<1> USE DEF answers, bounds
<1>f. Contents(aof) \in Seq(Piece) /\ Contents(aof) # NoFile /\ FileLen(aof) \in Nat
  BY ContentsIs DEF TypeOK
<1>e. << >> \in Seq(Piece) /\ << >> # NoFile /\ << >> \in Seq(Events)
  <2>1. << >> \in Seq(Piece) /\ << >> \in Seq(Events)
    OBVIOUS
  <2>2. << >> # NoFile
    BY DEF NoFile
  <2> QED BY <2>1, <2>2
<1>1. CASE Open
  BY <1>1, <1>f, LoadedType DEF Open, TypeOK, FileShape, Pcs
<1>2. CASE AppendEvent
  <2>1. Write(issued + 1, "line") /\ UNCHANGED <<handle, pc, failed, bounds>>
    BY <1>2 DEF AppendEvent
  <2>2. acked' = acked \cup {issued + 1} /\ mem' = Append(mem, issued + 1)
    BY <1>2 DEF AppendEvent
  <2>3. /\ aof' \in Files /\ old' \in Files /\ issued' \in Nat /\ issued + 1 \in Events
        /\ handle = "aof" => aof' # NoFile
        /\ handle = "old" => old' # NoFile /\ aof' = aof
        /\ snap' = snap /\ offline' = offline /\ pc = "up"
    BY <2>1, WriteType, CutsAreForms
  <2>4. mem' \in Seq(Events)
    BY <2>2, <2>3 DEF TypeOK
  <2>5. harm' \in {"none", "files", "lost"}
    BY <1>2 DEF AppendEvent, TypeOK
  <2> QED
    BY <2>1, <2>2, <2>3, <2>4, <2>5 DEF TypeOK, FileShape, Files
<1>3. CASE AppendCrash
  <2>1. PICK form \in Forms : Write(issued + 1, form)
    BY <1>3, CutsAreForms DEF AppendCrash
  <2>2. /\ aof' \in Files /\ old' \in Files /\ issued' \in Nat
        /\ snap' = snap /\ offline' = offline
    BY <2>1, WriteType, CutsAreForms
  <2>3. /\ pc' = "closed" /\ mem' = << >> /\ handle' = "aof"
        /\ UNCHANGED <<acked, failed, errors, fails>>
        /\ crashes' \in Nat /\ torn' \in Nat
    BY <1>3 DEF AppendCrash, TypeOK
  <2>4. harm' \in {"none", "files", "lost"}
    BY <1>3 DEF AppendCrash
  <2> QED
    BY <1>e, <2>2, <2>3, <2>4 DEF TypeOK, FileShape, Files, Pcs
<1>4. CASE AppendError
  <2>1. PICK form \in Forms : Write(issued + 1, form)
    BY <1>4, CutsAreForms DEF AppendError
  <2>2. /\ aof' \in Files /\ old' \in Files /\ issued' \in Nat /\ issued + 1 \in Events
        /\ handle = "aof" => aof' # NoFile
        /\ handle = "old" => old' # NoFile /\ aof' = aof
        /\ snap' = snap /\ offline' = offline /\ pc = "up"
    BY <2>1, WriteType, CutsAreForms
  <2>3. /\ UNCHANGED <<handle, mem, pc, acked, crashes, torn, fails>>
        /\ errors' \in Nat /\ failed' = failed \cup {issued + 1}
    BY <1>4 DEF AppendError, TypeOK
  <2>4. harm' \in {"none", "files", "lost"}
    BY <1>4 DEF AppendError, TypeOK
  <2> QED
    BY <2>2, <2>3, <2>4 DEF TypeOK, FileShape, Files
<1>5. CASE Crash
  <2>1. TypeOK'
    <3>1. offline' \in BOOLEAN
      BY <1>5 DEF Crash
    <3>2. /\ pc' = "closed" /\ mem' = << >> /\ handle' = "aof" /\ crashes' = crashes + 1
          /\ UNCHANGED <<aof, old, snap, answers, torn, errors, fails>>
      BY <1>5 DEF Crash
    <3>3. harm' \in {"none", "files", "lost"}
      BY <1>5 DEF Crash, TypeOK
    <3> QED
      BY <1>e, <3>1, <3>2, <3>3 DEF TypeOK, Pcs
  <2>2. FileShape'
    BY <1>5 DEF Crash, FileShape
  <2> QED
    BY <2>1, <2>2
<1>6. CASE OfflineCompact
  <2>1. snap' \in Snapshots
    BY <1>6, <1>f, LoadedType DEF OfflineCompact, SnapshotOf, Snapshots
  <2> QED
    <3>1. Contents(Contents(aof)) = Contents(aof)
      BY <1>f, FileIs
    <3> QED
      BY <1>6, <1>f, <2>1, <3>1, LoadedType DEF OfflineCompact, TypeOK, FileShape, Pcs, Snapshots
<1>7. CASE CompactSnapshot
  <2>1. snap' \in Snapshots
    BY <1>7, <1>f DEF CompactSnapshot, SnapshotOf, Snapshots, TypeOK
  <2> QED
    BY <1>7, <2>1 DEF CompactSnapshot, TypeOK, FileShape, Pcs, Snapshots
<1>8. CASE CompactUnlink
  BY <1>8 DEF CompactUnlink, TypeOK, FileShape, Pcs
<1>9. CASE CompactRename
  <2>1. Contents(NoFile) = << >>
    BY DEF Contents
  <2> QED
    BY <1>9, <2>1 DEF CompactRename, TypeOK, FileShape, Pcs
<1>10. CASE CompactCreate
  <2>1. Contents(<< >>) = << >>
    BY <1>e, FileIs
  <2> QED
    BY <1>10, <1>e, <2>1 DEF CompactCreate, TypeOK, FileShape, Pcs
<1>11. CASE CompactReset
  <2>1. snap' \in Snapshots
    BY <1>11 DEF CompactReset, SnapshotOf, Snapshots, TypeOK
  <2> QED
    BY <1>11, <2>1 DEF CompactReset, TypeOK, FileShape, Pcs, Snapshots
<1>12. CASE CompactReopen
  BY <1>12, <1>e DEF CompactReopen, TypeOK, FileShape, Pcs
<1>13. CASE CompactFails
  <2>1. TypeOK'
    <3>1. offline' \in BOOLEAN
      BY <1>13 DEF CompactFails
    <3>2. /\ pc' \in {"closed", "up"} /\ mem' \in {mem, << >>} /\ handle' \in {handle, "aof"}
          /\ fails' = fails + 1 /\ UNCHANGED <<aof, old, snap, answers, harm, crashes, torn, errors>>
      BY <1>13 DEF CompactFails
    <3>3. mem' \in Seq(Events) /\ handle' \in {"aof", "old", "unlinked"} /\ pc' \in Pcs
      BY <1>e, <3>2 DEF TypeOK, Pcs
    <3> QED
      BY <3>1, <3>2, <3>3 DEF TypeOK
  <2>2. FileShape'
    BY <1>13, BoundsAssumption DEF CompactFails, FileShape, TypeOK
  <2> QED
    BY <2>1, <2>2
<1>14. CASE UNCHANGED vars
  BY <1>14 DEF vars, TypeOK, FileShape
<1> QED
  BY <1>1, <1>2, <1>3, <1>4, <1>5, <1>6, <1>7, <1>8, <1>9, <1>10, <1>11, <1>12, <1>13,
     <1>14 DEF Next

\* Every state of the store is well typed, whatever fails: in particular the
\* process never writes to a file that is not there (AppendOnlyLog::append).
THEOREM TypeSafe == Spec => []TypeOK
<1> QED
  BY TypeInit, TypeStep, PTL DEF Spec

-----------------------------------------------------------------------------
(* What the steps do to the directory                                      *)

\* A directory in this shape is never refused.
LEMMA Opens ==
  ASSUME TypeOK, Directory(aof, old, snap)
  PROVE  Loaded.ok
BY LoadedType, DirectoryOpens DEF Loaded

\* Creating the file that AppendOnlyLog::open finds missing changes nothing.
LEMMA LoadCreated ==
  ASSUME NEW a \in Files, NEW o \in Files, NEW s \in Snapshots
  PROVE  /\ LoadState(Contents(a), o, s) = LoadState(a, o, s)
         /\ Directory(Contents(a), o, s) <=> Directory(a, o, s)
<1>1. Contents(a) \in Seq(Piece) /\ FileLen(Contents(a)) = FileLen(a)
  BY ContentsIs DEF Files
<1>2. Contents(Contents(a)) = Contents(a)
  BY <1>1, FileIs
<1> QED
  BY <1>1, <1>2 DEF LoadState, Directory, FromStart, FromOld, FromOffset

\* A snapshot that covers kron.aof, or kron.aof.old while kron.aof is empty,
\* is all there is to recover.
LEMMA SnapshotAlone ==
  ASSUME NEW a \in Files, NEW o \in Files, NEW s \in Snapshots, s # NoSnap,
         \/ s.offset = FileLen(a)
         \/ Contents(a) = << >> /\ o # NoFile /\ FileLen(o) = s.offset
  PROVE  Directory(a, o, s) /\ LoadState(a, o, s).events = s.state
<1> DEFINE c == Contents(a)
           n == Len(c)
<1>1. c \in Seq(Piece) /\ FileLen(a) = Ends(c)[n] /\ FileLen(a) \in Nat /\ n \in 0 .. Len(c)
  BY ContentsIs DEF Files
<1>2. s.state \in Seq(Events) /\ s.offset \in Nat /\ s.state \o << >> = s.state
  BY SnapIs, ConcatEmptySeq
<1>3. Readable(<< >>) /\ << >> \in Seq(Piece) /\ Len(<< >>) = 0
  BY DEF Readable
<1>4. CASE s.offset = FileLen(a)
  <2>1. Rest(c, n) = << >>
    BY <1>1, RestIs
  <2>2. FromOffset(n, a, s)
    BY <1>1, <1>3, <1>4, <2>1 DEF FromOffset
  <2>3. LoadState(a, o, s).events = s.state \o << >>
    <3>1. Replay(Rest(c, n)).events = << >>
      BY <2>1, ReplayEmpty
    <3>2. LoadState(a, o, s).events = s.state \o Replay(Rest(c, n)).events
      BY <2>2, LoadFromOffset
    <3> QED
      BY <3>1, <3>2
  <2> QED
    BY <1>1, <1>2, <2>2, <2>3 DEF Directory
<1>5. CASE c = << >> /\ o # NoFile /\ FileLen(o) = s.offset /\ s.offset # FileLen(a)
  <2>1. FileLen(a) = 0
    BY <1>1, <1>3, <1>5, EndsSum
  <2>2. s.offset > FileLen(a)
    BY <1>2, <1>5, <2>1
  <2>3. o \in Seq(Piece) /\ Ends(o)[Len(o)] = s.offset /\ Len(o) \in 0 .. Len(o)
    BY <1>5, FileIs DEF Files
  <2>4. Rest(o, Len(o)) = << >>
    BY <2>3, RestIs
  <2>5. FromOld(Len(o), a, o, s)
    BY <1>3, <1>5, <2>2, <2>3, <2>4 DEF FromOld
  <2>6. Replay(Rest(o, Len(o))).events = << >> /\ Replay(c).events = << >>
    BY <1>5, <2>4, ReplayEmpty
  <2>7. LoadState(a, o, s).events = (s.state \o << >>) \o << >>
    BY <2>5, <2>6, LoadFromOld
  <2> QED
    BY <1>2, <2>3, <2>5, <2>7 DEF Directory
<1> QED
  BY <1>4, <1>5

LEMMA ToSetAppend ==
  ASSUME NEW T, NEW q \in Seq(T), NEW e \in T
  PROVE  ToSet(Append(q, e)) = ToSet(q) \cup {e}
<1> DEFINE r == Append(q, e)
<1>1. /\ r \in Seq(T) /\ Len(r) = Len(q) + 1 /\ r[Len(q) + 1] = e
      /\ \A i \in 1 .. Len(q) : r[i] = q[i]
  BY AppendProperties
<1>2. DOMAIN r = 1 .. Len(q) + 1 /\ DOMAIN q = 1 .. Len(q) /\ Len(q) \in Nat
  BY <1>1, LenProperties
<1> HIDE DEF r
<1>3. \A i \in 1 .. Len(q) + 1 : r[i] \in ToSet(q) \cup {e}
  BY <1>1, <1>2 DEF ToSet
<1>4. \A i \in 1 .. Len(q) : q[i] \in ToSet(r)
  BY <1>1, <1>2 DEF ToSet
<1>5. e \in ToSet(r)
  BY <1>1, <1>2 DEF ToSet
<1>6. ToSet(r) = ToSet(q) \cup {e}
  BY <1>2, <1>3, <1>4, <1>5 DEF ToSet
<1> QED
  BY <1>6 DEF r

\* A later event keeps a history in order.
LEMMA InOrderAppend ==
  ASSUME NEW q \in Seq(Events), NEW n \in Nat, n + 1 \in Events, InOrder(q),
         \A i \in DOMAIN q : q[i] <= n
  PROVE  /\ InOrder(Append(q, n + 1))
         /\ \A i \in DOMAIN Append(q, n + 1) : Append(q, n + 1)[i] <= n + 1
         /\ n + 1 \notin ToSet(q)
<1> DEFINE e == n + 1
           r == Append(q, e)
<1>1. /\ r \in Seq(Events) /\ Len(r) = Len(q) + 1 /\ r[Len(q) + 1] = e
      /\ \A i \in 1 .. Len(q) : r[i] = q[i]
  BY AppendProperties
<1>2. DOMAIN r = 1 .. Len(q) + 1 /\ DOMAIN q = 1 .. Len(q) /\ Len(q) \in Nat
  BY <1>1, LenProperties
<1>3. \A i \in DOMAIN q : q[i] \in Nat
  BY <1>2, SizeAssumption DEF Events
<1> HIDE DEF r
<1>4. \A i \in DOMAIN r : r[i] <= n + 1
  BY <1>1, <1>2, <1>3
<1>5. InOrder(r)
  BY <1>1, <1>2, <1>3 DEF InOrder
<1>6. e \notin ToSet(q)
  BY <1>3 DEF ToSet
<1> QED
  BY <1>4, <1>5, <1>6 DEF r

LEMMA PieceIs ==
  ASSUME NEW e \in Events, NEW form \in Forms
  PROVE  [event |-> e, form |-> form] \in Piece
BY DEF Piece, Forms

\* append() writes one piece where load_state will read it.
LEMMA WriteLoads ==
  ASSUME TypeOK, FileShape, Directory(aof, old, snap), NEW e, NEW form \in Forms,
         Write(e, form), ~Harms(e, form)
  PROVE  /\ Directory(aof', old', snap')
         /\ Loaded'.events = IF form = "fragment" THEN Loaded.events
                             ELSE Append(Loaded.events, e)
<1> DEFINE p == [event |-> e, form |-> form]
<1>1. e \in Events /\ pc = "up" /\ snap' = snap
  BY DEF Write
<1>2. p \in Piece /\ p.form = form /\ p.event = e
  BY <1>1, PieceIs
<1>3. old \in Files /\ aof \in Files /\ snap \in Snapshots /\ snap.offset \in Int
      /\ FileLen(aof) \in Nat /\ FileLen(old) \in Nat
  BY LoadedType, SnapIs, ContentsIs DEF Files
<1>4. Bytes(p) \in Nat
  BY <1>2, BytesPositive
<1>5. p.form # "garbled" /\ handle # "unlinked"
  BY DEF Harms
<1>6. CASE handle = "aof"
  <2>1. aof' = Append(aof, p) /\ old' = old /\ aof \in Seq(Piece)
    BY <1>1, <1>6 DEF Write, FileShape, TypeOK
  <2>2. Unfinished(aof) => FileLen(aof) = snap.offset
    BY <1>6 DEF Harms
  <2>3. FileLen(aof) < snap.offset => FileLen(aof) + Bytes(p) < snap.offset
    <3>1. ~(FileLen(aof) < snap.offset /\ snap.offset <= FileLen(aof) + Bytes(p))
      BY <1>6 DEF Harms
    <3> HIDE DEF p
    <3> QED
      BY <1>3, <1>4, <3>1
  <2> HIDE DEF p
  <2>4. /\ Directory(Append(aof, p), old, snap)
        /\ Adds(p, LoadState(aof, old, snap), LoadState(Append(aof, p), old, snap))
    BY <1>2, <1>3, <1>5, <2>1, <2>2, <2>3, AppendedToAof
  <2> QED
    BY <1>1, <1>2, <2>1, <2>4 DEF Adds, Loaded
<1>7. CASE handle = "old"
  <2>1. old' = Append(old, p) /\ aof' = aof /\ old \in Seq(Piece) /\ Contents(aof) = << >>
    BY <1>1, <1>7 DEF Write, FileShape, TypeOK
  <2>2. Unfinished(old) => FileLen(old) = snap.offset
    BY <1>7 DEF Harms
  <2>3. FileLen(aof) < snap.offset
    BY <1>3, <1>7 DEF Harms
  <2> HIDE DEF p
  <2>4. /\ Directory(aof, Append(old, p), snap)
        /\ Adds(p, LoadState(aof, old, snap), LoadState(aof, Append(old, p), snap))
    BY <1>2, <1>3, <1>5, <2>1, <2>2, <2>3, AppendedToOld
  <2> QED
    BY <1>1, <1>2, <2>1, <2>4 DEF Adds, Loaded
<1> QED
  BY <1>5, <1>6, <1>7 DEF TypeOK

\* An ordered part of an ordered history has its order.
LEMMA PartInOrder ==
  ASSUME NEW r \in Seq(Events), NEW q \in Seq(Events), InOrder(r), InOrder(q),
         ToSet(r) \subseteq ToSet(q)
  PROVE  History!PartOf(r, q)
<1> DEFINE at == [i \in DOMAIN r |-> CHOOSE k \in DOMAIN q : q[k] = r[i]]
<1>1. ASSUME NEW i \in DOMAIN r PROVE at[i] \in DOMAIN q /\ q[at[i]] = r[i]
  <2>1. \E k \in DOMAIN q : q[k] = r[i]
    BY DEF ToSet
  <2> QED
    BY <2>1
<1>2. at \in [DOMAIN r -> DOMAIN q]
  BY <1>1
<1> HIDE DEF at
<1>3. DOMAIN r \subseteq Nat /\ DOMAIN q \subseteq Nat
  OBVIOUS
<1>4. \A k \in DOMAIN q : q[k] \in Nat
  BY SizeAssumption DEF Events
<1>5. ASSUME NEW i \in DOMAIN r, NEW j \in DOMAIN r, i < j PROVE at[i] < at[j]
  <2>1. SUFFICES ASSUME ~(at[i] < at[j]) PROVE FALSE
    OBVIOUS
  <2>2. at[i] \in DOMAIN q /\ at[j] \in DOMAIN q /\ at[i] \in Nat /\ at[j] \in Nat
    BY <1>1, <1>3
  <2>3. q[at[i]] < q[at[j]]
    BY <1>1, <1>5 DEF InOrder
  <2>4. at[j] = at[i] \/ at[j] < at[i]
    BY <2>1, <2>2
  <2>5. q[at[j]] = q[at[i]] \/ q[at[j]] < q[at[i]]
    BY <2>2, <2>4 DEF InOrder
  <2> QED
    BY <1>4, <2>2, <2>3, <2>5
<1> QED
  BY <1>1, <1>2, <1>5 DEF History!PartOf

-----------------------------------------------------------------------------
(* The steps: each keeps StoreInv and is one of EventStore, or none         *)

Recall == IF pc \in {"closed", "refused"} THEN Loaded.events ELSE mem

abstract == <<Recall, acked, failed, harm # "lost">>

\* What the steps of append() have in common: where the new event goes in the
\* files, the bounds on what was issued, and no compaction.
LEMMA AppendedStep ==
  ASSUME TypeOK, FileShape, StoreInv, NEW form \in Forms, Write(issued + 1, form),
         acked' \subseteq acked \cup {issued + 1}, failed' \subseteq failed \cup {issued + 1},
         form = "fragment" => acked' = acked
  PROVE  /\ issued + 1 \in Events /\ issued' = issued + 1 /\ pc = "up" /\ ~offline
         /\ issued + 1 \notin acked
         /\ \A x \in acked' \cup failed' : x <= issued'
         /\ harm = "none" /\ ~Harms(issued + 1, form) /\ acked \subseteq acked' =>
              /\ Directory(aof', old', snap') /\ Recovered(Loaded.events)'
              /\ ToSet(Loaded.events) \subseteq ToSet(Loaded'.events)
              /\ ToSet(Loaded'.events) \subseteq ToSet(Loaded.events) \cup {issued + 1}
              /\ form # "fragment" => issued + 1 \in ToSet(Loaded'.events)
<1> DEFINE e == issued + 1
           h == Loaded.events
<1>1. e \in Events /\ issued' = e /\ pc = "up" /\ issued \in Nat
  BY DEF Write, TypeOK
<1>2. ~offline
  BY <1>1 DEF StoreInv, Compaction, Compacting, TypeOK
<1>3. acked \subseteq Nat /\ failed \subseteq Nat /\ \A x \in acked \cup failed : x <= issued
  BY SizeAssumption DEF TypeOK, Events, StoreInv
<1>4. e \notin acked /\ \A x \in acked' \cup failed' : x <= e
  BY <1>1, <1>3
<1>5. ASSUME harm = "none", ~Harms(e, form), acked \subseteq acked'
      PROVE  /\ Directory(aof', old', snap') /\ Recovered(Loaded.events)'
             /\ ToSet(h) \subseteq ToSet(Loaded'.events)
             /\ ToSet(Loaded'.events) \subseteq ToSet(h) \cup {e}
             /\ form # "fragment" => e \in ToSet(Loaded'.events)
  <2>1. /\ Directory(aof', old', snap')
        /\ Loaded'.events = IF form = "fragment" THEN h ELSE Append(h, e)
    BY <1>5, WriteLoads DEF StoreInv
  <2>2. h \in Seq(Events)
    BY LoadedType
  <2>3. InOrder(h) /\ (\A i \in DOMAIN h : h[i] <= issued) /\ acked \subseteq ToSet(h)
    BY <1>5 DEF StoreInv, Recovered
  <2> DEFINE g == Loaded'.events
  <2> HIDE DEF h, g
  <2>4. /\ InOrder(Append(h, e)) /\ \A i \in DOMAIN Append(h, e) : Append(h, e)[i] <= e
    BY <1>1, <2>2, <2>3, InOrderAppend
  <2>5. ToSet(Append(h, e)) = ToSet(h) \cup {e}
    BY <1>1, <2>2, ToSetAppend
  <2>6. \A i \in DOMAIN h : h[i] <= e
    <3>1. \A i \in DOMAIN h : h[i] \in Nat
      BY <2>2, SizeAssumption DEF Events
    <3> QED BY <1>1, <2>3, <3>1
  <2>7. CASE form = "fragment"
    <3>1. g = h
      BY <2>1, <2>7 DEF g
    <3>2. Recovered(Loaded.events)'
      BY <1>1, <2>3, <2>6, <2>7, <3>1 DEF Recovered, g
    <3> QED
      BY <2>1, <2>7, <3>1, <3>2 DEF g
  <2>8. CASE form # "fragment"
    <3>1. g = Append(h, e)
      BY <2>1, <2>8 DEF g
    <3>2. Recovered(Loaded.events)'
      BY <1>1, <2>3, <2>4, <2>5, <3>1 DEF Recovered, g
    <3> QED
      BY <2>1, <2>5, <3>1, <3>2 DEF g
  <2> QED
    BY <2>7, <2>8
<1> QED
  BY <1>1, <1>2, <1>3, <1>4, <1>5

\* An append that returns Ok is the Record of the history.
LEMMA AppendEventStep ==
  ASSUME TypeOK, FileShape, StoreInv, AppendEvent
  PROVE  StoreInv' /\ [History!Next]_abstract
<1> DEFINE e == issued + 1
<1>1. /\ Write(e, "line") /\ acked' = acked \cup {e} /\ mem' = Append(mem, e)
      /\ harm' = (IF harm = "none" /\ Harms(e, "line") THEN "files" ELSE harm)
      /\ UNCHANGED <<handle, pc, failed>>
  BY DEF AppendEvent
<1>2. /\ e \in Events /\ issued' = e /\ pc = "up" /\ ~offline /\ e \notin acked
      /\ \A x \in acked' \cup failed' : x <= issued'
      /\ harm = "none" /\ ~Harms(e, "line") =>
           /\ Directory(aof', old', snap') /\ Recovered(Loaded.events)'
           /\ ToSet(Loaded.events) \subseteq ToSet(Loaded'.events)
           /\ ToSet(Loaded'.events) \subseteq ToSet(Loaded.events) \cup {e}
           /\ e \in ToSet(Loaded'.events)
  BY <1>1, AppendedStep, CutsAreForms
<1>3. offline' = offline
  BY <1>1 DEF Write
<1>4. Compaction'
  BY <1>1, <1>2, <1>3 DEF Compaction, Compacting
<1>5. mem \in Seq(Events) /\ issued \in Nat /\ harm \in {"none", "files", "lost"}
  BY DEF TypeOK
<1>6. ToSet(mem') = ToSet(mem) \cup {e}
  BY <1>1, <1>2, <1>5, ToSetAppend
<1>7. ASSUME harm # "lost" PROVE Recovered(mem)' /\ e \notin ToSet(mem)
  <2>1. InOrder(mem) /\ (\A i \in DOMAIN mem : mem[i] <= issued) /\ acked \subseteq ToSet(mem)
    BY <1>2, <1>7 DEF StoreInv, Running, Recovered
  <2>2. InOrder(mem') /\ (\A i \in DOMAIN mem' : mem'[i] <= e) /\ e \notin ToSet(mem)
    BY <1>1, <1>2, <1>5, <2>1, InOrderAppend
  <2> QED
    BY <1>1, <1>2, <1>6, <2>1, <2>2 DEF Recovered
<1>8. ASSUME harm' = "none" PROVE harm = "none" /\ ~Harms(e, "line")
  BY <1>1, <1>8
<1>9. harm' = "none" => Agree(Loaded.events)'
  <2>1. harm' = "none" => Agree(Loaded.events)
    BY <1>2, <1>8 DEF StoreInv, Running
  <2> QED
    BY <1>1, <1>2, <1>6, <1>8, <2>1 DEF Agree
<1>10. StoreInv'
  BY <1>1, <1>2, <1>4, <1>7, <1>8, <1>9 DEF StoreInv, Running
<1>11. harm' = "lost" <=> harm = "lost"
  BY <1>1
<1>12. CASE harm = "lost"
  BY <1>10, <1>11, <1>12 DEF History!Next, History!GiveUp
<1>13. CASE harm # "lost"
  <2>1. History!Record(e)
    BY <1>1, <1>2, <1>7, <1>13 DEF History!Record, History!ToSet, ToSet
  <2> QED
    BY <1>2, <1>10, <1>11, <1>13, <2>1 DEF History!Next
<1> QED
  BY <1>10, <1>12, <1>13

\* One that dies is a Restart: its event is in the files or is not.
LEMMA AppendCrashStep ==
  ASSUME TypeOK, TypeOK', FileShape, StoreInv, AppendCrash
  PROVE  StoreInv' /\ [History!Next]_abstract
<1> DEFINE e == issued + 1
<1>1. PICK form \in Forms :
        /\ Write(e, form)
        /\ harm' = IF harm = "none" /\ ~Harms(e, form) THEN "none" ELSE "lost"
  BY CutsAreForms DEF AppendCrash
<1>2. pc' = "closed" /\ UNCHANGED <<acked, failed>>
  BY DEF AppendCrash
<1>3. /\ e \in Events /\ issued' = e /\ pc = "up" /\ ~offline /\ e \notin acked
      /\ \A x \in acked' \cup failed' : x <= issued'
      /\ harm = "none" /\ ~Harms(e, form) =>
           /\ Directory(aof', old', snap') /\ Recovered(Loaded.events)'
           /\ ToSet(Loaded.events) \subseteq ToSet(Loaded'.events)
           /\ ToSet(Loaded'.events) \subseteq ToSet(Loaded.events) \cup {e}
  BY <1>1, <1>2, AppendedStep
<1>4. offline' = offline
  BY <1>1 DEF Write
<1>5. Compaction'
  BY <1>2, <1>3, <1>4 DEF Compaction, Compacting
<1>6. StoreInv'
  BY <1>1, <1>2, <1>3, <1>5 DEF StoreInv, Running
<1>7. CASE harm' = "lost"
  BY <1>6, <1>7 DEF History!Next, History!GiveUp
<1>8. CASE harm' # "lost"
  <2>1. harm = "none" /\ ~Harms(e, form) /\ harm' = "none"
    BY <1>1, <1>8
  <2> DEFINE h == Loaded.events
             g == Loaded'.events
  <2>2. InOrder(g) /\ ToSet(h) \subseteq ToSet(g) /\ ToSet(g) \subseteq ToSet(h) \cup {e}
    BY <1>3, <2>1 DEF Recovered
  <2>3. /\ InOrder(mem) /\ ToSet(mem) \subseteq ToSet(h)
        /\ ToSet(h) \ ToSet(mem) \subseteq failed \ acked
    BY <1>3, <2>1 DEF StoreInv, Running, Recovered, Agree
  <2>4. mem \in Seq(Events) /\ g \in Seq(Events)
    <3>1. mem \in Seq(Events)
      BY DEF TypeOK
    <3>2. (TypeOK => Loaded.events \in Seq(Events))'
      BY LoadedType, PTL
    <3> QED
      BY <3>1, <3>2
  <2> HIDE DEF h, g
  <2>5. History!PartOf(mem, g)
    BY <2>2, <2>3, <2>4, PartInOrder
  <2>6. ToSet(g) \ ToSet(mem) \subseteq (failed \cup {e}) \ acked
    BY <1>3, <2>2, <2>3
  <2>7. Recall = mem /\ Recall' = g
    BY <1>2, <1>3 DEF Recall, g
  <2>8. History!Restart(failed \cup {e})
    BY <1>2, <1>3, <2>4, <2>5, <2>6 DEF History!Restart, History!ToSet, ToSet, g
  <2> QED
    BY <1>3, <1>6, <2>1, <2>8 DEF History!Next
<1> QED
  BY <1>6, <1>7, <1>8

\* One that reports an error is a Reject: the process goes on without it.
LEMMA AppendErrorStep ==
  ASSUME TypeOK, FileShape, StoreInv, AppendError
  PROVE  StoreInv' /\ [History!Next]_abstract
<1> DEFINE e == issued + 1
<1>1. PICK form \in Forms :
        /\ Write(e, form)
        /\ harm' = IF harm = "none" /\ Harms(e, form) THEN "files" ELSE harm
  BY CutsAreForms DEF AppendError
<1>2. failed' = failed \cup {e} /\ UNCHANGED <<handle, mem, pc, acked>>
  BY DEF AppendError
<1>3. /\ e \in Events /\ issued' = e /\ pc = "up" /\ ~offline /\ e \notin acked
      /\ \A x \in acked' \cup failed' : x <= issued'
      /\ harm = "none" /\ ~Harms(e, form) =>
           /\ Directory(aof', old', snap') /\ Recovered(Loaded.events)'
           /\ ToSet(Loaded.events) \subseteq ToSet(Loaded'.events)
           /\ ToSet(Loaded'.events) \subseteq ToSet(Loaded.events) \cup {e}
  BY <1>1, <1>2, AppendedStep
<1>4. offline' = offline
  BY <1>1 DEF Write
<1>5. Compaction'
  BY <1>2, <1>3, <1>4 DEF Compaction, Compacting
<1>6. mem \in Seq(Events) /\ issued \in Nat /\ harm \in {"none", "files", "lost"}
  BY DEF TypeOK
<1>7. ASSUME harm # "lost" PROVE Recovered(mem)' /\ e \notin ToSet(mem)
  <2>1. InOrder(mem) /\ (\A i \in DOMAIN mem : mem[i] <= issued) /\ acked \subseteq ToSet(mem)
    BY <1>3, <1>7 DEF StoreInv, Running, Recovered
  <2>2. \A i \in DOMAIN mem : mem[i] \in Nat
    BY <1>6, SizeAssumption DEF Events
  <2>3. \A i \in DOMAIN mem : mem[i] <= e /\ mem[i] # e
    BY <1>6, <2>1, <2>2
  <2> QED
    BY <1>2, <1>3, <2>1, <2>3 DEF Recovered, ToSet
<1>8. ASSUME harm' = "none" PROVE harm = "none" /\ ~Harms(e, form)
  BY <1>1, <1>8
<1>9. harm' = "none" => Agree(Loaded.events)'
  <2>1. harm' = "none" => Agree(Loaded.events)
    BY <1>3, <1>8 DEF StoreInv, Running
  <2> QED
    BY <1>2, <1>3, <1>8, <2>1 DEF Agree
<1>10. StoreInv'
  BY <1>1, <1>2, <1>3, <1>5, <1>7, <1>8, <1>9 DEF StoreInv, Running
<1>11. harm' = "lost" <=> harm = "lost"
  BY <1>1
<1>12. CASE harm = "lost"
  BY <1>10, <1>11, <1>12 DEF History!Next, History!GiveUp
<1>13. CASE harm # "lost"
  <2>1. History!Reject(e)
    BY <1>2, <1>3, <1>7, <1>13 DEF History!Reject, History!ToSet, ToSet
  <2> QED
    BY <1>3, <1>10, <1>11, <1>13, <2>1 DEF History!Next
<1> QED
  BY <1>10, <1>12, <1>13

\* Opening the store changes nothing that a later opening would replay.
LEMMA OpenStep ==
  ASSUME TypeOK, StoreInv, Open
  PROVE  StoreInv' /\ [History!Next]_abstract
<1>1. /\ pc = "closed" /\ aof' = Contents(aof)
      /\ pc' = (IF Loaded.ok THEN "up" ELSE "refused") /\ mem' = Loaded.events
      /\ UNCHANGED <<old, snap, offline, issued, acked, failed, harm>>
  BY DEF Open, answers
<1>2. aof \in Files /\ old \in Files /\ snap \in Snapshots /\ harm \in {"none", "files", "lost"}
  BY LoadedType DEF TypeOK
<1>3. Loaded' = Loaded /\ (Directory(aof, old, snap) => Directory(aof', old', snap'))
  BY <1>1, <1>2, LoadCreated DEF Loaded
<1>4. ~offline
  BY <1>1 DEF StoreInv, Compaction, Compacting, TypeOK
<1>5. Compaction'
  BY <1>1, <1>4 DEF Compaction, Compacting
<1>6. harm # "files"
  BY <1>1 DEF StoreInv
<1>7. harm = "none" => Recovered(Loaded.events) /\ Directory(aof, old, snap)
  BY DEF StoreInv
<1>8. harm = "none" => pc' = "up"
  BY <1>1, <1>7, Opens
<1>9. harm = "none" => Recovered(mem)' /\ Agree(Loaded.events)'
  BY <1>1, <1>3, <1>7 DEF Recovered, Agree
<1>10. harm = "none" => Recovered(Loaded.events)'
  BY <1>1, <1>3, <1>7 DEF Recovered
<1>11. StoreInv'
  <2>1. \A x \in acked' \cup failed' : x <= issued'
    BY <1>1 DEF StoreInv
  <2> QED
    BY <1>1, <1>2, <1>3, <1>5, <1>6, <1>7, <1>8, <1>9, <1>10, <2>1 DEF StoreInv, Running
<1>12. CASE harm = "lost"
  BY <1>1, <1>11, <1>12 DEF History!Next, History!GiveUp
<1>13. CASE harm # "lost"
  <2>1. Recall' = Recall
    BY <1>1, <1>2, <1>6, <1>8, <1>13 DEF Recall
  <2> QED
    BY <1>1, <1>11, <2>1 DEF abstract
<1> QED
  BY <1>11, <1>12, <1>13

\* A crash brings in what the process was refused, or loses what it wrote
\* where no restart looks.
LEMMA CrashStep ==
  ASSUME TypeOK, StoreInv, Crash
  PROVE  StoreInv' /\ [History!Next]_abstract
<1>1. /\ pc \notin {"closed", "refused"} /\ pc' = "closed" /\ offline' = FALSE
      /\ harm' = (IF harm = "files" THEN "lost" ELSE harm)
      /\ UNCHANGED <<aof, old, snap, issued, acked, failed>>
  BY DEF Crash, answers
<1>2. Loaded' = Loaded
  BY <1>1 DEF Loaded
<1>3. Compaction'
  BY <1>1 DEF Compaction, Compacting
<1>4. harm \in {"none", "files", "lost"}
  BY DEF TypeOK
<1>5. harm' = "none" => harm = "none" /\ Directory(aof', old', snap') /\ Recovered(Loaded.events)'
  BY <1>1, <1>2, <1>4 DEF StoreInv, Recovered
<1>6. \A x \in acked' \cup failed' : x <= issued'
  BY <1>1 DEF StoreInv
<1>7. StoreInv'
  BY <1>1, <1>3, <1>4, <1>5, <1>6 DEF StoreInv, Running
<1>8. CASE harm' = "lost"
  BY <1>7, <1>8 DEF History!Next, History!GiveUp
<1>9. CASE harm' # "lost"
  <2>1. harm = "none" /\ harm' = "none"
    BY <1>1, <1>4, <1>9
  <2> DEFINE h == Loaded.events
  <2>2. /\ InOrder(h) /\ InOrder(mem) /\ ToSet(mem) \subseteq ToSet(h)
        /\ ToSet(h) \ ToSet(mem) \subseteq failed \ acked
    BY <1>1, <2>1 DEF StoreInv, Running, Recovered, Agree
  <2>3. mem \in Seq(Events) /\ h \in Seq(Events)
    BY LoadedType DEF TypeOK
  <2>4. Loaded'.events = h
    BY <1>2
  <2> HIDE DEF h
  <2>5. History!PartOf(mem, h)
    BY <2>2, <2>3, PartInOrder
  <2>6. History!Restart(failed)
    BY <1>1, <2>2, <2>3, <2>4, <2>5 DEF History!Restart, History!ToSet, ToSet
  <2> QED
    BY <1>7, <2>1, <2>6 DEF History!Next
<1> QED
  BY <1>7, <1>8, <1>9

\* During a compaction the snapshot is all there is to recover.
LEMMA CompactingLoads ==
  ASSUME TypeOK, Compaction, pc \in Compacting
  PROVE  Directory(aof, old, snap) /\ Loaded.events = mem
<1>1. aof \in Files /\ old \in Files /\ snap \in Snapshots
  BY LoadedType
<1>2. snap # NoSnap /\ snap.state = mem
  BY DEF Compaction
<1>3. Contents(NoFile) = << >> /\ Contents(<< >>) = << >> /\ FileLen(<< >>) = 0
      /\ FileLen(NoFile) = 0
  <2>1. << >> \in Seq(Piece) /\ Len(<< >>) = 0
    OBVIOUS
  <2> QED
    BY <2>1, FileIs, EndsSum DEF Contents, FileLen
<1>4. \/ snap.offset = FileLen(aof)
      \/ Contents(aof) = << >> /\ old # NoFile /\ FileLen(old) = snap.offset
  BY <1>3 DEF Compaction, Compacting
<1> QED
  BY <1>1, <1>2, <1>4, SnapshotAlone DEF Loaded

\* A step into or inside a compaction recovers what the process has.
LEMMA CompactingStep ==
  ASSUME TypeOK', StoreInv, pc' \in Compacting, Compaction',
         UNCHANGED <<issued, acked, failed>>,
         harm' # "files", harm' # "lost" => Recovered(mem')
  PROVE  StoreInv'
<1>1. Directory(aof', old', snap') /\ Loaded'.events = mem'
  <2>1. (TypeOK /\ Compaction /\ pc \in Compacting => Directory(aof, old, snap) /\ Loaded.events = mem)'
    BY CompactingLoads, PTL
  <2> QED
    BY <2>1
<1>2. harm' \in {"none", "lost"}
  BY DEF TypeOK
<1>3. harm' # "lost" => Recovered(mem)' /\ Recovered(Loaded.events)'
  BY <1>1 DEF Recovered
<1>4. Agree(Loaded.events)'
  BY <1>1 DEF Agree
<1>5. \A x \in acked' \cup failed' : x <= issued'
  BY DEF StoreInv
<1>6. pc' \notin {"refused"}
  BY DEF Compacting
<1> QED
  BY <1>1, <1>2, <1>3, <1>4, <1>5, <1>6 DEF StoreInv

\* The snapshot of an offline compaction holds what would be replayed without it.
LEMMA OfflineCompactStep ==
  ASSUME TypeOK, TypeOK', StoreInv, OfflineCompact
  PROVE  StoreInv' /\ [History!Next]_abstract
<1>1. /\ pc = "closed" /\ pc' = "unlink" /\ offline' = TRUE /\ mem' = Loaded.events
      /\ snap' = SnapshotOf(mem', FileLen(aof)) /\ aof' = Contents(aof)
      /\ UNCHANGED <<issued, acked, failed, harm>>
  BY DEF OfflineCompact, answers
<1>2. aof \in Files /\ FileLen(aof) \in Nat /\ harm \in {"none", "files", "lost"}
  BY LoadedType, ContentsIs DEF Files, TypeOK
<1>3. aof' # NoFile /\ FileLen(aof') = FileLen(aof)
  BY <1>1, <1>2, ContentsIs DEF Files
<1>4. snap'.state = mem' /\ snap'.offset = FileLen(aof') /\ snap' # NoSnap
  BY <1>1, <1>2, <1>3 DEF SnapshotOf, NoSnap
<1>5. Compaction' /\ pc' \in Compacting
  BY <1>1, <1>3, <1>4 DEF Compaction, Compacting
<1>6. harm # "files"
  BY <1>1 DEF StoreInv
<1>7. harm' # "lost" => Recovered(mem')
  BY <1>1, <1>2, <1>6 DEF StoreInv, Recovered
<1>8. StoreInv'
  BY <1>1, <1>5, <1>6, <1>7, CompactingStep
<1>9. Recall' = Recall
  BY <1>1 DEF Recall
<1> QED
  BY <1>1, <1>8, <1>9 DEF abstract

\* The snapshot has all that the process has, and mends what was harmed.
LEMMA CompactSnapshotStep ==
  ASSUME TypeOK, TypeOK', StoreInv, CompactSnapshot
  PROVE  StoreInv' /\ [History!Next]_abstract
<1>1. /\ pc = "up" /\ snap' = SnapshotOf(mem, FileLen(aof))
      /\ pc' = (IF aof = NoFile THEN "create" ELSE "unlink")
      /\ harm' = (IF harm = "files" THEN "none" ELSE harm)
      /\ UNCHANGED <<aof, old, handle, mem, offline, issued, acked, failed>>
  BY DEF CompactSnapshot, answers
<1>2. aof \in Files /\ FileLen(aof) \in Nat /\ harm \in {"none", "files", "lost"}
  BY LoadedType, ContentsIs DEF Files, TypeOK
<1>3. snap'.state = mem' /\ snap'.offset = FileLen(aof') /\ snap' # NoSnap
  BY <1>1, <1>2 DEF SnapshotOf, NoSnap
<1>4. aof = NoFile => FileLen(aof) = 0
  BY DEF FileLen
<1>5. Compaction' /\ pc' \in Compacting
  BY <1>1, <1>3, <1>4 DEF Compaction, Compacting
<1>6. harm' # "files" /\ (harm' = "lost" <=> harm = "lost")
  BY <1>1, <1>2
<1>7. harm' # "lost" => Recovered(mem')
  BY <1>1, <1>6 DEF StoreInv, Running, Recovered
<1>8. StoreInv'
  BY <1>1, <1>5, <1>6, <1>7, CompactingStep
<1>9. Recall' = Recall
  BY <1>1 DEF Recall
<1> QED
  BY <1>1, <1>6, <1>8, <1>9 DEF abstract

\* The other steps of a compaction move files that say the same.
LEMMA CompactStep ==
  ASSUME TypeOK, TypeOK', StoreInv,
         CompactUnlink \/ CompactRename \/ CompactCreate \/ CompactReset
  PROVE  StoreInv' /\ [History!Next]_abstract
<1> USE DEF answers
<1>1. /\ pc \in Compacting /\ pc' \in Compacting
      /\ UNCHANGED <<mem, offline, issued, acked, failed, harm>>
  BY DEF CompactUnlink, CompactRename, CompactCreate, CompactReset, Compacting
<1>2. << >> # NoFile
  BY DEF NoFile
<1>3. Compaction'
  <2>1. CASE CompactUnlink
    BY <2>1 DEF CompactUnlink, Compaction, StoreInv, Compacting
  <2>2. CASE CompactRename
    BY <2>2 DEF CompactRename, Compaction, StoreInv, Compacting
  <2>3. CASE CompactCreate
    BY <1>2, <2>3 DEF CompactCreate, Compaction, StoreInv, Compacting
  <2>4. CASE CompactReset
    BY <2>4 DEF CompactReset, Compaction, StoreInv, SnapshotOf, NoSnap, Compacting
  <2> QED
    BY <2>1, <2>2, <2>3, <2>4
<1>4. harm' # "files" /\ (harm' # "lost" => Recovered(mem'))
  BY <1>1 DEF StoreInv, Running, Compacting, Recovered
<1>5. StoreInv'
  BY <1>1, <1>3, <1>4, CompactingStep
<1>6. Recall' = Recall
  BY <1>1 DEF Recall, Compacting
<1> QED
  BY <1>1, <1>5, <1>6 DEF abstract

\* The end of a compaction and its failure at any step: nothing of what was
\* recovered is given up; the process may be left with a handle whose file
\* load_state does not read, which its next write tells.
LEMMA CompactEndStep ==
  ASSUME TypeOK, StoreInv, CompactReopen \/ CompactFails
  PROVE  StoreInv' /\ [History!Next]_abstract
<1> USE DEF answers
<1>1. /\ UNCHANGED <<aof, old, snap, issued, acked, failed, harm>>
      /\ pc' = (IF offline THEN "closed" ELSE "up")
      /\ mem' = (IF offline THEN << >> ELSE mem) /\ offline' = FALSE
  BY DEF CompactReopen, CompactFails
<1>2. pc \in Compacting
  BY BoundsAssumption DEF CompactReopen, CompactFails, Compacting
<1>3. Loaded' = Loaded
  BY <1>1 DEF Loaded
<1>4. Compaction'
  BY <1>1 DEF Compaction, Compacting
<1>5. harm # "files"
  BY <1>2 DEF StoreInv, Compacting
<1>6. harm = "none" => /\ Directory(aof', old', snap') /\ Recovered(Loaded.events)'
                       /\ ~offline => Recovered(mem)' /\ Agree(Loaded.events)'
  BY <1>1, <1>2, <1>3 DEF StoreInv, Running, Compacting, Recovered, Agree
<1>7. \A x \in acked' \cup failed' : x <= issued'
  BY <1>1 DEF StoreInv
<1>8. harm \in {"none", "lost"}
  BY <1>5 DEF TypeOK
<1>9. StoreInv'
  BY <1>1, <1>4, <1>6, <1>7, <1>8 DEF StoreInv, Running
<1>10. Loaded.events = mem
  BY <1>2, CompactingLoads DEF StoreInv
<1>11. Recall' = Recall
  BY <1>1, <1>2, <1>3, <1>10 DEF Recall, Compacting
<1> QED
  BY <1>1, <1>9, <1>11 DEF abstract

LEMMA StoreInit == Init => StoreInv /\ Loaded.events = << >>
<1> SUFFICES ASSUME Init PROVE StoreInv /\ Loaded.events = << >>
  OBVIOUS
<1>1. Contents(NoFile) = << >> /\ << >> \in Seq(Piece) /\ Readable(<< >>)
  BY DEF Contents, Readable
<1>2. Loaded.events = << >>
  BY <1>1, ReplayEmpty DEF Init, Loaded, LoadState
<1>3. Directory(aof, old, snap)
  BY <1>1 DEF Init, Directory, FromStart
<1>4. Recovered(Loaded.events)
  BY <1>2 DEF Init, Recovered, InOrder
<1>5. Compaction
  BY DEF Init, Compaction, Compacting
<1> QED
  BY <1>2, <1>3, <1>4, <1>5 DEF Init, StoreInv, Running

\* Every step keeps the invariant and is a step of the history, or none.
LEMMA StoreStep ==
  TypeOK /\ FileShape /\ StoreInv /\ [Next]_vars => StoreInv' /\ [History!Next]_abstract
<1> SUFFICES ASSUME TypeOK, FileShape, StoreInv, [Next]_vars
             PROVE  StoreInv' /\ [History!Next]_abstract
  OBVIOUS
<1>t. TypeOK'
  BY TypeStep
<1>1. CASE AppendEvent \/ AppendCrash \/ AppendError
  BY <1>t, <1>1, AppendEventStep, AppendCrashStep, AppendErrorStep
<1>2. CASE Open \/ Crash
  BY <1>2, OpenStep, CrashStep
<1>3. CASE OfflineCompact
  BY <1>t, <1>3, OfflineCompactStep
<1>4. CASE CompactSnapshot
  BY <1>t, <1>4, CompactSnapshotStep
<1>5. CASE CompactUnlink \/ CompactRename \/ CompactCreate \/ CompactReset
  BY <1>t, <1>5, CompactStep
<1>6. CASE CompactReopen \/ CompactFails
  BY <1>6, CompactEndStep
<1>7. CASE UNCHANGED vars
  <2>1. Loaded' = Loaded /\ UNCHANGED <<aof, old, snap, pc, mem, offline, issued, acked, failed, harm>>
    BY <1>7 DEF vars, answers, Loaded
  <2>2. StoreInv'
    BY <2>1 DEF StoreInv, Recovered, Agree, Compaction, Running
  <2> QED
    BY <2>1, <2>2 DEF abstract, Recall
<1> QED
  BY <1>1, <1>2, <1>3, <1>4, <1>5, <1>6, <1>7 DEF Next

\* Nothing acknowledged is lost, repeated or reordered, and the directory
\* always opens: at every instant of any number of crashes, cut lines, failing
\* appends and compactions that end or fail at any step (append, load_state,
\* snapshot::compact), until a write of the kinds in Harms; and until the
\* process ends a compaction still mends that.
THEOREM RecoverableSafe == Spec => []AckedRecoverable
<1>1. Init => TypeOK /\ FileShape /\ StoreInv
  BY TypeInit, StoreInit
<1>2. TypeOK /\ FileShape /\ StoreInv /\ [Next]_vars => (TypeOK /\ FileShape /\ StoreInv)'
  BY TypeStep, StoreStep
<1>3. TypeOK /\ FileShape /\ StoreInv => AckedRecoverable
  BY Opens DEF StoreInv, Recovered, Running, AckedRecoverable
<1> QED
  BY <1>1, <1>2, <1>3, PTL DEF Spec

\* The store implements EventStore: a step of the log, of a crash or of a
\* compaction adds one event at the end, brings in at a restart what was
\* written without an Ok, or changes nothing; the history is given up only
\* when a process ends whose writes were of the kinds in Harms.
THEOREM Refinement == Spec => IsAppendOnlyHistory
<1>1. Init => TypeOK /\ FileShape /\ StoreInv /\ History!Init
  BY TypeInit, StoreInit DEF Init, History!Init
<1>2. TypeOK /\ FileShape /\ StoreInv /\ [Next]_vars => (TypeOK /\ FileShape /\ StoreInv)'
  BY TypeStep, StoreStep
<1>3. TypeOK /\ FileShape /\ StoreInv /\ [Next]_vars => [History!Next]_abstract
  BY StoreStep
<1> QED
  BY <1>1, <1>2, <1>3, PTL DEF Spec, IsAppendOnlyHistory, History!Spec, abstract, Recall
=============================================================================

------------------------ MODULE RaftFileStoreProofs -------------------------
(***************************************************************************)
(* Theorems about the file store of a server node, for logs of any length, *)
(* segments of any size, any number of terms and any number of crashes.    *)
(***************************************************************************)
EXTENDS RaftFileStore, FiniteSetTheorems, WellFoundedInduction, TLAPS

-----------------------------------------------------------------------------
(* Operators                                                               *)

\* A nonempty set of indices has a greatest one.
LEMMA GreatestIndex ==
  ASSUME NEW T \in SUBSET Index, T # {}
  PROVE  \E x \in T : \A y \in T : y <= x
<1> DEFINE U == {MaxIndex - y : y \in T}
<1>1. T \in SUBSET (1 .. MaxIndex) /\ MaxIndex \in Nat
  BY StoreAssumption DEF Index
<1>2. U \in SUBSET Nat /\ U # {}
  <2>1. \A y \in T : MaxIndex - y \in Nat
    BY <1>1
  <2>2. U \in SUBSET Nat
    BY <2>1
  <2>3. PICK y \in T : TRUE
    OBVIOUS
  <2>4. MaxIndex - y \in U
    BY <2>3
  <2> QED
    BY <2>2, <2>4
<1> HIDE DEF U
<1>3. PICK u \in U : \A v \in U : ~(<<v, u>> \in OpToRel(<, Nat))
  BY <1>2, NatLessThanWellFounded, WFMin, Zenon
<1>4. \A v \in U : ~(v < u)
  BY <1>2, <1>3 DEF OpToRel
<1>5. PICK x \in T : u = MaxIndex - x
  BY <1>3 DEF U
<1>6. ASSUME NEW y \in T PROVE y <= x
  <2>1. MaxIndex - y \in U
    BY DEF U
  <2>2. ~(MaxIndex - y < MaxIndex - x)
    BY <1>4, <1>5, <2>1
  <2> QED
    BY <1>1, <2>2
<1> QED
  BY <1>6

\* get_log_state: the greatest index of the log, or what was purged last.
LEMMA LastIndexIs ==
  ASSUME mem \in Store
  PROVE  /\ LastIndex \in 0 .. MaxIndex
         /\ mem.log = {} => LastIndex = mem.purged
         /\ mem.log # {} => LastIndex \in Indices(mem.log)
         /\ \A j \in Indices(mem.log) : j <= LastIndex
<1>1. Indices(mem.log) \in SUBSET Index /\ mem.purged \in 0 .. MaxIndex
  BY DEF Store, Indices, Entry
<1>2. CASE mem.log = {}
  BY <1>1, <1>2 DEF LastIndex, Indices
<1>3. CASE mem.log # {}
  <2>1. Indices(mem.log) # {}
    BY <1>3 DEF Indices
  <2>2. \E x \in Indices(mem.log) : \A y \in Indices(mem.log) : y <= x
    BY <1>1, <2>1, GreatestIndex
  <2>3. LastIndex \in Indices(mem.log) /\ \A y \in Indices(mem.log) : y <= LastIndex
    BY <1>3, <2>2 DEF LastIndex
  <2> QED
    BY <1>1, <1>3, <2>3, StoreAssumption DEF Index
<1> QED
  BY <1>2, <1>3

\* The commands up to i, after those up to a.
LEMMA CountUp ==
  ASSUME NEW a \in Nat, NEW i \in Nat, a < i
  PROVE  [k \in 1 .. a |-> k] \o [k \in 1 .. (i - a) |-> a + k] = [k \in 1 .. i |-> k]
<1> DEFINE s == [k \in 1 .. a |-> k]
           t == [k \in 1 .. (i - a) |-> a + k]
<1>1. s \in Seq(Nat) /\ Len(s) = a
  OBVIOUS
<1>2. t \in Seq(Nat) /\ Len(t) = i - a
  OBVIOUS
<1>3. s \o t \in Seq(Nat) /\ Len(s \o t) = i
  BY <1>1, <1>2
<1>4. \A k \in 1 .. i : (s \o t)[k] = k
  BY <1>1, <1>2
<1> QED
  BY <1>3, <1>4

\* A machine that holds its commands in order is a machine.
LEMMA MachineType ==
  ASSUME NEW i \in 0 .. MaxIndex
  PROVE  [applied |-> i, cmds |-> [k \in 1 .. i |-> k]] \in Machine
<1>1. [k \in 1 .. i |-> k] \in Seq(Index)
  BY StoreAssumption DEF Index
<1> QED
  BY <1>1 DEF Machine

-----------------------------------------------------------------------------
(* Types.  While the segments are written again, a record is in the open    *)
(* one only if its last index is not below its first, and no sealed segment *)
(* has the name of the open one.                                            *)

WriteShape ==
  pc = "write" =>
    /\ \A f \in files : f.name \in rw.segs \/ f.name = OpenName
    /\ \A f \in Current : f.recs # {} => rw.first <= rw.last
    /\ \A n \in rw.segs : n[2] <= rw.last
    /\ rw.first # 0 => /\ rw.first \in Indices(mem.log)
                       /\ \A e \in Unwritten : rw.first <= e.index

TypeInv == TypeOK /\ WriteShape

\* An operation leaves a store in memory, and everything else to persist.
LEMMA OperationType ==
  ASSUME TypeOK, Operation
  PROVE  /\ mem' \in Store /\ pc = "idle" /\ pc' = "vote"
         /\ UNCHANGED <<json, manifest, files, rw, done, crashes>>
<1>1. LastIndex \in 0 .. MaxIndex /\ mem \in Store
  BY LastIndexIs DEF TypeOK
<1> USE StoreAssumption DEF Persist, disk
<1>2. ASSUME NEW t \in Term, SaveVote(t) PROVE mem' \in Store
  BY <1>1, <1>2 DEF SaveVote, Store, Term
<1>3. ASSUME NEW i \in Index, SaveCommitted(i) PROVE mem' \in Store
  BY <1>1, <1>3 DEF SaveCommitted, Store, Index
<1>4. ASSUME NEW i \in Index, AppendEntries(i) PROVE mem' \in Store
  <2>1. {[index |-> j, term |-> mem.vote] : j \in (LastIndex + 1) .. i} \in SUBSET Entry
    BY <1>1, <1>4 DEF AppendEntries, Store, Entry, Index, Term
  <2> QED
    BY <1>1, <1>4, <2>1 DEF AppendEntries, Store
<1>5. ASSUME NEW i \in Index, Truncate(i) PROVE mem' \in Store
  BY <1>1, <1>5 DEF Truncate, Store
<1>6. ASSUME NEW i \in Index, Purge(i) PROVE mem' \in Store
  <2> DEFINE kept == {e \in mem.log : e.index > i}
  <2>1. kept \in SUBSET Entry /\ i \in 0 .. MaxIndex
    BY <1>1 DEF Store, Index
  <2>2. mem' = [mem EXCEPT !.log = kept, !.purged = i]
    BY <1>6 DEF Purge
  <2> HIDE DEF kept
  <2> QED
    BY <1>1, <2>1, <2>2 DEF Store
<1>7. ASSUME NEW i \in Index, Apply(i) PROVE mem' \in Store
  <2> DEFINE a == mem.sm.applied
             t == [k \in 1 .. (i - a) |-> a + k]
  <2>1. a \in 0 .. MaxIndex /\ a < i /\ i <= MaxIndex /\ i \in Nat
    BY <1>1, <1>7 DEF Apply, Store, Machine, Index
  <2>2. t \in Seq(Index)
    <3>1. \A k \in 1 .. (i - a) : a + k \in Index
      BY <2>1 DEF Index
    <3>2. i - a \in Nat
      BY <2>1
    <3> HIDE DEF a
    <3> QED
      BY <3>1, <3>2
  <2>3. mem.sm.cmds \o t \in Seq(Index)
    BY <1>1, <2>2 DEF Store, Machine
  <2>4. [applied |-> i, cmds |-> mem.sm.cmds \o t] \in Machine
    BY <2>1, <2>3 DEF Machine
  <2>5. mem' = [mem EXCEPT !.sm = [applied |-> i, cmds |-> mem.sm.cmds \o t]]
    BY <1>7 DEF Apply
  <2> QED
    BY <1>1, <2>4, <2>5 DEF Store
<1>8. ASSUME NEW i \in Index, InstallSnapshot(i) PROVE mem' \in Store
  <2>1. [applied |-> i, cmds |-> [k \in 1 .. i |-> k]] \in Machine
    BY MachineType DEF Index
  <2> QED
    BY <1>1, <1>8, <2>1 DEF InstallSnapshot, Store
<1>9. pc = "idle" /\ pc' = "vote" /\ UNCHANGED <<json, manifest, files, rw, done, crashes>>
  BY DEF Operation, SaveVote, SaveCommitted, AppendEntries, Truncate, Purge, Apply,
         InstallSnapshot
<1> QED
  BY <1>2, <1>3, <1>4, <1>5, <1>6, <1>7, <1>8, <1>9 DEF Operation

\* A full segment has a record.
LEMMA FullHasRecord ==
  ASSUME Full
  PROVE  \E f \in Current : f.recs # {}
<1>1. PICK f \in Current : Cardinality(f.recs) >= SegmentMax
  BY DEF Full
<1>2. Cardinality({}) = 0
  BY FS_EmptySet
<1> QED
  BY <1>1, <1>2, StoreAssumption

\* The name a segment is sealed under, and what sealing leaves.
LEMMA SealType ==
  ASSUME TypeOK, SealSegment, rw.first <= rw.last
  PROVE  /\ <<rw.first, rw.last>> \in Name
         /\ files' \subseteq Segment
         /\ rw' \in [first: 0 .. MaxIndex, last: 0 .. MaxIndex, segs: SUBSET Name]
<1>1. rw.first \in Index /\ rw.last \in Index
  BY StoreAssumption DEF TypeOK, SealSegment, Index
<1>2. <<rw.first, rw.last>> \in Name
  BY <1>1 DEF Name
<1>3. files' \subseteq Segment
  BY <1>2 DEF TypeOK, SealSegment, Segment
<1>4. rw' \in [first: 0 .. MaxIndex, last: 0 .. MaxIndex, segs: SUBSET Name]
  <2> DEFINE named == rw.segs \cup {<<rw.first, rw.last>>}
  <2>1. named \in SUBSET Name
    BY <1>2 DEF TypeOK
  <2> DEFINE sealed == [rw EXCEPT !.segs = named]
  <2>2. rw' = [sealed EXCEPT !.first = 0]
    BY DEF SealSegment
  <2>3. sealed \in [first: 0 .. MaxIndex, last: 0 .. MaxIndex, segs: SUBSET Name]
    <3> HIDE DEF named
    <3> QED
      BY <2>1 DEF TypeOK
  <2> HIDE DEF sealed
  <2> QED
    BY <2>2, <2>3, StoreAssumption
<1> QED
  BY <1>2, <1>3, <1>4

\* Open, the steps of persist and a crash keep the types.
LEMMA StepType ==
  ASSUME TypeInv, [Next]_vars
  PROVE  TypeOK'
<1> USE StoreAssumption DEF TypeInv, disk, Steps
<1>n. NoRewrite \in [first: 0 .. MaxIndex, last: 0 .. MaxIndex, segs: SUBSET Name]
  BY DEF NoRewrite
<1>1. CASE Open
  <2>1. Loaded \in Store
    <3>1. (UNION {f.recs : f \in Listed}) \in SUBSET Entry
      BY DEF TypeOK, Listed, Segment
    <3> QED
      BY <3>1 DEF TypeOK, Loaded, Store
  <2> QED
    BY <1>1, <2>1 DEF Open, TypeOK
<1>2. CASE Operation
  <2>1. TypeOK
    OBVIOUS
  <2> QED
    BY <1>2, <2>1, OperationType DEF TypeOK
<1>3. CASE WriteVote
  BY <1>3 DEF WriteVote, TypeOK, Store
<1>4. CASE WriteCommitted
  BY <1>4 DEF WriteCommitted, TypeOK, Store
<1>5. CASE WriteState
  BY <1>5 DEF WriteState, TypeOK, Store
<1>6. CASE \E f \in files : RemoveSegment(f)
  BY <1>6 DEF RemoveSegment, TypeOK
<1>7. CASE RemovedAll
  BY <1>7, <1>n DEF RemovedAll, TypeOK
<1>8. ASSUME NEW e \in mem.log, CreateSegment(e) PROVE TypeOK'
  <2>1. e \in Entry /\ e.index \in Index /\ <<e.index, e.index>> \in Name
    BY DEF TypeOK, Store, Entry, Name, Index
  <2>2. [name |-> <<e.index, e.index>>, recs |-> {}, torn |-> FALSE] \in Segment
    BY <2>1 DEF Segment
  <2>3. files' \subseteq Segment
    BY <1>8, <2>2 DEF CreateSegment, TypeOK
  <2>4. rw' \in [first: 0 .. MaxIndex, last: 0 .. MaxIndex, segs: SUBSET Name]
    BY <1>8, <2>1 DEF CreateSegment, TypeOK, Index
  <2> QED
    BY <1>8, <2>3, <2>4 DEF CreateSegment, TypeOK
<1>9. ASSUME NEW e \in mem.log, WriteRecord(e) PROVE TypeOK'
  <2>1. e \in Entry /\ e.index \in Index
    BY DEF TypeOK, Store, Entry
  <2>2. files' \subseteq Segment
    BY <1>9, <2>1 DEF WriteRecord, TypeOK, Segment
  <2> QED
    BY <1>9, <2>1, <2>2 DEF WriteRecord, TypeOK, Index
<1>10. CASE RotateSegment
  <2>1. rw.first <= rw.last
    BY <1>10, FullHasRecord DEF RotateSegment, WriteShape
  <2>2. TypeOK /\ SealSegment
    BY <1>10 DEF RotateSegment
  <2> QED
    BY <1>10, <2>1, <2>2, SealType DEF RotateSegment, TypeOK
<1>11. CASE FinishSegments
  <2>1. CASE SealSegment
    <3>1. rw.first # 0 /\ pc = "write" /\ Unwritten = {}
      BY <1>11, <2>1 DEF FinishSegments, SealSegment
    <3>2. PICK e \in mem.log : e.index = rw.first
      BY <3>1 DEF WriteShape, Indices
    <3>3. ~(e.index > rw.last)
      BY <3>1, <3>2 DEF Unwritten
    <3>4. rw.first <= rw.last
      BY <3>2, <3>3 DEF TypeOK
    <3>5. TypeOK
      OBVIOUS
    <3> QED
      BY <1>11, <2>1, <3>4, <3>5, SealType DEF FinishSegments, TypeOK
  <2>2. CASE UNCHANGED <<files, rw>>
    BY <1>11, <2>2 DEF FinishSegments, TypeOK
  <2> QED
    BY <1>11, <2>1, <2>2 DEF FinishSegments
<1>12. CASE WriteManifest
  BY <1>12, <1>n DEF WriteManifest, TypeOK, Store
<1>13. CASE Crash
  <2>1. files' \subseteq Segment
    <3>1. CASE files' = {IF f \in Current THEN [f EXCEPT !.torn = TRUE] ELSE f : f \in files}
      BY <3>1 DEF TypeOK, Segment
    <3> QED
      BY <1>13, <3>1 DEF Crash, TypeOK
  <2> QED
    BY <1>13, <1>n, <2>1 DEF Crash, TypeOK
<1>14. CASE UNCHANGED vars
  BY <1>14 DEF vars, TypeOK
<1> QED
  BY <1>1, <1>2, <1>3, <1>4, <1>5, <1>6, <1>7, <1>8, <1>9, <1>10, <1>11, <1>12, <1>13,
     <1>14 DEF Next, PersistStep

\* ... and the shape of the rewrite.
LEMMA StepShape ==
  ASSUME TypeInv, TypeOK', [Next]_vars
  PROVE  WriteShape'
<1> SUFFICES ASSUME pc' = "write" PROVE WriteShape'
  BY DEF WriteShape
<1> USE DEF TypeInv, disk
<1>1. CASE RemovedAll
  <2>1. files' = {} /\ rw' = NoRewrite
    BY <1>1 DEF RemovedAll
  <2> QED
    BY <2>1 DEF WriteShape, Current, NoRewrite
<1>2. ASSUME NEW e \in mem.log, CreateSegment(e) PROVE WriteShape'
  <2>1. rw'.first = e.index /\ rw'.last = rw.last /\ rw'.segs = rw.segs
    BY <1>2 DEF CreateSegment, TypeOK
  <2>2. pc = "write" /\ rw.first = 0 /\ mem' = mem /\ e \in Unwritten
    BY <1>2 DEF CreateSegment
  <2>3. e.index > rw.last /\ e.index \in Index /\ rw.last \in 0 .. MaxIndex
    BY <2>2 DEF Unwritten, TypeOK, Store, Entry
  <2>4. OpenName' = <<e.index, e.index>> /\ Unwritten' = Unwritten
    BY <2>1, <2>2 DEF OpenName, Unwritten
  <2>5. \A f \in files : f.name \in rw.segs
    BY <2>2 DEF WriteShape, TypeOK, Segment, Name, Index, OpenName
  <2>6. \A f \in files' : f \in files \/ (f.recs = {} /\ f.name = OpenName')
    BY <1>2, <2>4 DEF CreateSegment
  <2>7. \A f \in files : f.name # OpenName'
    <3> SUFFICES ASSUME NEW f \in files, f.name = <<e.index, e.index>> PROVE FALSE
      BY <2>4
    <3>1. f.name[2] <= rw.last
      BY <2>2, <2>5 DEF WriteShape
    <3> QED
      BY <2>3, <3>1, StoreAssumption DEF Index
  <2>8. \A f \in Current' : f.recs = {}
    BY <2>6, <2>7 DEF Current
  <2>9. e.index \in Indices(mem.log)
    BY DEF Indices
  <2>10. \A d \in Unwritten : e.index <= d.index
    BY <1>2 DEF CreateSegment
  <2>11. \A f \in files' : f.name \in rw'.segs \/ f.name = OpenName'
    BY <2>1, <2>5, <2>6
  <2>12. \A n \in rw'.segs : n[2] <= rw'.last
    BY <2>1, <2>2 DEF WriteShape
  <2> QED
    BY <2>1, <2>2, <2>4, <2>8, <2>9, <2>10, <2>11, <2>12 DEF WriteShape
<1>3. ASSUME NEW e \in mem.log, WriteRecord(e) PROVE WriteShape'
  <2>1. rw'.first = rw.first /\ rw'.last = e.index /\ rw'.segs = rw.segs
    BY <1>3 DEF WriteRecord, TypeOK
  <2>2. pc = "write" /\ rw.first # 0 /\ mem' = mem /\ e \in Unwritten
    BY <1>3 DEF WriteRecord
  <2>3. e.index > rw.last /\ e.index \in Index /\ rw.last \in 0 .. MaxIndex
    BY <2>2 DEF Unwritten, TypeOK, Store, Entry
  <2>4. OpenName' = OpenName /\ rw.first <= e.index
    BY <2>1, <2>2 DEF OpenName, WriteShape
  <2>5. \A f \in files' : \E g \in files : f.name = g.name
    BY <1>3 DEF WriteRecord, TypeOK, Segment
  <2>6. \A f \in files' : f.name \in rw'.segs \/ f.name = OpenName'
    BY <2>1, <2>2, <2>4, <2>5 DEF WriteShape
  <2>7. \A n \in rw'.segs : n[2] <= rw'.last
    <3> SUFFICES ASSUME NEW n \in rw.segs PROVE n[2] <= e.index
      BY <2>1
    <3>1. n[2] <= rw.last /\ n[2] \in Index
      BY <2>2 DEF WriteShape, TypeOK, Name
    <3> QED
      BY <2>3, <3>1, StoreAssumption DEF Index
  <2>8. \A d \in mem.log : d.index > e.index => d.index > rw.last
    BY <2>3, StoreAssumption DEF TypeOK, Store, Entry, Index
  <2>9. \A d \in Unwritten' : d \in Unwritten
    BY <2>1, <2>2, <2>8 DEF Unwritten
  <2> QED
    BY <2>1, <2>2, <2>4, <2>6, <2>7, <2>9 DEF WriteShape
<1>4. CASE RotateSegment
  <2>1. rw.first <= rw.last /\ pc = "write" /\ mem' = mem
    BY <1>4, FullHasRecord DEF RotateSegment, WriteShape
  <2>2. rw'.first = 0 /\ rw'.last = rw.last /\ rw'.segs = rw.segs \cup {<<rw.first, rw.last>>}
    BY <1>4 DEF RotateSegment, SealSegment, TypeOK
  <2>3. ASSUME NEW f \in files' PROVE f.name \in rw'.segs
    <3>1. PICK g \in files : f = IF g \in Current
                                   THEN [g EXCEPT !.name = <<rw.first, rw.last>>] ELSE g
      BY <1>4 DEF RotateSegment, SealSegment
    <3>2. CASE g \in Current
      BY <2>2, <3>1, <3>2 DEF TypeOK, Segment
    <3>3. CASE g \notin Current
      BY <2>1, <2>2, <3>1, <3>3 DEF WriteShape, Current
    <3> QED
      BY <3>2, <3>3
  <2>4. \A n \in rw'.segs : n[2] <= rw'.last
    BY <2>1, <2>2 DEF WriteShape, TypeOK
  <2>5. \A f \in Current' : FALSE
    <3> SUFFICES ASSUME NEW f \in files', f.name = OpenName' PROVE FALSE
      BY DEF Current
    <3>1. f.name \in Name
      BY DEF TypeOK, Segment
    <3>2. f.name = <<0, 0>>
      BY <2>2 DEF OpenName
    <3> QED
      BY <3>1, <3>2, StoreAssumption DEF Name, Index
  <2> QED
    BY <2>2, <2>3, <2>4, <2>5 DEF WriteShape
<1>5. CASE UNCHANGED vars
  BY <1>5 DEF vars, WriteShape, OpenName, Current, Unwritten
<1>6. \/ RemovedAll \/ (\E e \in mem.log : CreateSegment(e) \/ WriteRecord(e))
      \/ RotateSegment \/ UNCHANGED vars
  BY DEF Next, Open, Operation, Persist, SaveVote, SaveCommitted, AppendEntries, Truncate,
         Purge, Apply, InstallSnapshot, PersistStep, WriteVote, WriteCommitted, WriteState,
         RemoveSegment, FinishSegments, WriteManifest, Crash
<1> QED
  BY <1>1, <1>2, <1>3, <1>4, <1>5, <1>6

\* An empty directory and a node that is not open.
LEMMA InitType == ASSUME Init PROVE TypeInv
<1>1. [applied |-> 0, cmds |-> << >>] \in Machine
  BY StoreAssumption DEF Machine
<1>2. mem \in Store
  BY <1>1, StoreAssumption DEF Init, Store
<1>3. rw \in [first: 0 .. MaxIndex, last: 0 .. MaxIndex, segs: SUBSET Name]
  BY StoreAssumption DEF Init, NoRewrite
<1> QED
  BY <1>1, <1>2, <1>3, StoreAssumption DEF Init, TypeInv, TypeOK, WriteShape, Steps

\* Every state of the file store is well formed: the names of the segments,
\* what the manifest lists and what is loaded from them after a crash too.
THEOREM TypeSafe == Spec => []TypeOK
<1>1. Init => TypeInv
  BY InitType
<1>2. TypeInv /\ [Next]_vars => TypeInv'
  BY StepType, StepShape DEF TypeInv
<1>3. TypeInv => TypeOK
  BY DEF TypeInv
<1> QED
  BY <1>1, <1>2, <1>3, PTL DEF Spec

-----------------------------------------------------------------------------
(* The state of Raft on disk.  Between operations the copy in memory is the *)
(* one of the last operation; each of the files holds the new value from    *)
(* its rename on, and until then the old one.                               *)

Kept ==
  /\ pc = "idle" => mem = done
  /\ json.vote \in {done.vote, mem.vote}
  /\ json.committed \in {done.committed, mem.committed}
  /\ json.sm \in {done.sm, mem.sm}
  /\ manifest.purged \in {done.purged, mem.purged}
  /\ pc \in Steps \ {"vote"} => json.vote = mem.vote
  /\ pc \in Steps \ {"vote", "committed"} => json.committed = mem.committed
  /\ pc \in Steps \ {"vote", "committed", "state"} => json.sm = mem.sm

\* What an operation makes of the machine and of the purge point.
LEMMA OperationMachine ==
  ASSUME TypeOK, Operation
  PROVE  /\ \/ mem'.sm = mem.sm
            \/ \E i \in Index : /\ mem.sm.applied < i
                                /\ mem'.sm.applied = i
                                /\ mem.sm.cmds = [k \in 1 .. mem.sm.applied |-> k]
                                     => mem'.sm.cmds = [k \in 1 .. i |-> k]
         /\ \/ mem'.purged = mem.purged
            \/ mem'.purged <= mem.sm.applied /\ mem'.sm = mem.sm
<1> USE DEF Persist
<1>1. mem \in Store /\ mem.sm.applied \in Nat
  <2>1. mem \in Store /\ mem.sm \in Machine
    BY DEF TypeOK, Store
  <2> QED
    BY <2>1, StoreAssumption DEF Machine
<1>2. ASSUME NEW t \in Term, SaveVote(t)
      PROVE  mem'.sm = mem.sm /\ mem'.purged = mem.purged
  BY <1>1, <1>2 DEF SaveVote, Store
<1>3. ASSUME NEW i \in Index, SaveCommitted(i) \/ AppendEntries(i) \/ Truncate(i)
      PROVE  mem'.sm = mem.sm /\ mem'.purged = mem.purged
  BY <1>1, <1>3 DEF SaveCommitted, AppendEntries, Truncate, Store
<1>4. ASSUME NEW i \in Index, Purge(i)
      PROVE  mem'.sm = mem.sm /\ mem'.purged <= mem.sm.applied
  <2> DEFINE kept == {e \in mem.log : e.index > i}
  <2>1. mem' = [mem EXCEPT !.log = kept, !.purged = i]
    BY <1>4 DEF Purge
  <2> HIDE DEF kept
  <2>2. mem'.sm = mem.sm /\ mem'.purged = i
    BY <1>1, <2>1 DEF Store
  <2> QED
    BY <1>4, <2>2 DEF Purge
<1>5. ASSUME NEW i \in Index, Apply(i)
      PROVE  /\ mem.sm.applied < i /\ mem'.sm.applied = i /\ mem'.purged = mem.purged
             /\ mem.sm.cmds = [k \in 1 .. mem.sm.applied |-> k]
                  => mem'.sm.cmds = [k \in 1 .. i |-> k]
  <2> DEFINE a == mem.sm.applied
             more == [k \in 1 .. (i - a) |-> a + k]
  <2>1. mem' = [mem EXCEPT !.sm = [applied |-> i, cmds |-> mem.sm.cmds \o more]]
    BY <1>5 DEF Apply
  <2>2. a < i /\ i \in Nat /\ a \in Nat
    BY <1>1, <1>5 DEF Apply, Index
  <2>3. [k \in 1 .. a |-> k] \o more = [k \in 1 .. i |-> k]
    BY <2>2, CountUp
  <2>4. mem'.sm = [applied |-> i, cmds |-> mem.sm.cmds \o more] /\ mem'.purged = mem.purged
    <3> HIDE DEF more
    <3> QED
      BY <1>1, <2>1 DEF Store
  <2>5. mem'.sm.applied = i /\ mem'.sm.cmds = mem.sm.cmds \o more
    <3> HIDE DEF more
    <3> QED
      BY <2>4
  <2> QED
    BY <2>2, <2>3, <2>4, <2>5, Zenon
<1>6. ASSUME NEW i \in Index, InstallSnapshot(i)
      PROVE  /\ mem.sm.applied < i /\ mem'.sm.applied = i /\ mem'.purged = mem.purged
             /\ mem'.sm.cmds = [k \in 1 .. i |-> k]
  <2> DEFINE whole == [k \in 1 .. i |-> k]
  <2>1. mem' = [mem EXCEPT !.sm = [applied |-> i, cmds |-> whole]] /\ mem.sm.applied < i
    BY <1>6 DEF InstallSnapshot
  <2> HIDE DEF whole
  <2>2. mem'.sm = [applied |-> i, cmds |-> whole] /\ mem'.purged = mem.purged
    BY <1>1, <2>1 DEF Store
  <2>3. mem'.sm.applied = i /\ mem'.sm.cmds = whole
    BY <2>2
  <2> QED
    BY <2>1, <2>2, <2>3, Zenon DEF whole
<1> QED
  BY <1>2, <1>3, <1>4, <1>5, <1>6 DEF Operation

\* Every step keeps each file at the value before or after the operation.
LEMMA StepKept ==
  ASSUME TypeOK, Kept, [Next]_vars
  PROVE  Kept'
<1> USE DEF disk, Steps
<1>1. CASE Open
  <2>1. CASE mem' = Loaded /\ done' = Loaded /\ pc' = "idle"
    <3>1. json' = json /\ manifest' = manifest
      BY <1>1 DEF Open
    <3>2. /\ mem'.vote = json.vote /\ mem'.committed = json.committed
          /\ mem'.sm = json.sm /\ mem'.purged = manifest.purged
      BY <2>1 DEF Loaded
    <3> QED
      BY <2>1, <3>1, <3>2 DEF Kept
  <2>2. CASE pc' = "refused" /\ UNCHANGED <<mem, done>>
    BY <1>1, <2>2 DEF Open, Kept
  <2> QED
    BY <1>1, <2>1, <2>2 DEF Open
<1>2. CASE Operation
  BY <1>2, OperationType DEF Kept
<1>3. CASE WriteVote
  BY <1>3 DEF WriteVote, Kept, TypeOK
<1>4. CASE WriteCommitted
  BY <1>4 DEF WriteCommitted, Kept, TypeOK
<1>5. CASE WriteState
  BY <1>5 DEF WriteState, Kept, TypeOK
<1>6. CASE \/ (\E f \in files : RemoveSegment(f)) \/ RemovedAll
           \/ (\E e \in mem.log : CreateSegment(e) \/ WriteRecord(e))
           \/ RotateSegment \/ FinishSegments
  <2>1. /\ pc \in {"remove", "write"} /\ pc' \in {"remove", "write", "manifest"}
        /\ UNCHANGED <<mem, json, manifest, done>>
    BY <1>6 DEF RemoveSegment, RemovedAll, CreateSegment, WriteRecord, RotateSegment,
                FinishSegments
  <2> QED
    BY <2>1 DEF Kept
<1>7. CASE WriteManifest
  BY <1>7 DEF WriteManifest, Kept
<1>8. CASE Crash
  BY <1>8 DEF Crash, Kept
<1>9. CASE UNCHANGED vars
  BY <1>9 DEF vars, Kept
<1> QED
  BY <1>1, <1>2, <1>3, <1>4, <1>5, <1>6, <1>7, <1>8, <1>9 DEF Next, PersistStep

\* Nothing was promised before the first open.
LEMMA InitKept == ASSUME Init PROVE Kept
  BY DEF Init, Kept, Steps

\* The only step from closed to idle is an open that reads its segments.
LEMMA OpensLoaded ==
  ASSUME [Next]_vars, pc = "closed", pc' = "idle"
  PROVE  mem' = Loaded
BY DEF Next, Open, Operation, Persist, SaveVote, SaveCommitted, AppendEntries, Truncate,
       Purge, Apply, InstallSnapshot, PersistStep, WriteVote, WriteCommitted, WriteState,
       RemoveSegment, RemovedAll, CreateSegment, WriteRecord, RotateSegment,
       FinishSegments, WriteManifest, Crash, vars

\* Whatever step of persist a crash interrupts, open brings back the vote, the
\* committed index, the machine and the purge point of the operation that last
\* returned or of the one that was interrupted.
THEOREM KeptSafe == Spec => RaftStateKept
<1> DEFINE Recovers ==
      pc = "closed" /\ pc' = "idle" =>
        \A field \in {"vote", "committed", "sm", "purged"} :
          mem'[field] \in {done[field], mem[field]}
<1>1. Init => TypeInv /\ Kept
  BY InitType, InitKept
<1>2. TypeInv /\ Kept /\ [Next]_vars => (TypeInv /\ Kept)'
  BY StepType, StepShape, StepKept DEF TypeInv
<1>3. TypeInv /\ Kept /\ [Next]_vars => [Recovers]_vars
  <2> SUFFICES ASSUME Kept, Next, pc = "closed", pc' = "idle"
               PROVE  \A field \in {"vote", "committed", "sm", "purged"} :
                        mem'[field] \in {done[field], mem[field]}
    OBVIOUS
  <2>1. mem' = Loaded
    BY OpensLoaded
  <2> QED
    BY <2>1 DEF Kept, Loaded
<1> QED
  BY <1>1, <1>2, <1>3, PTL DEF Spec, RaftStateKept

\* The machine, in memory and on disk, holds the commands up to the id it
\* records, each once and in order: no crash makes apply skip or repeat one.
THEOREM AppliedSafe == Spec => []AppliedOnce
<1>1. Init => TypeInv /\ AppliedOnce
  <2> SUFFICES ASSUME Init PROVE AppliedOnce
    BY InitType
  <2>1. mem.sm.applied = 0 /\ mem.sm.cmds = << >> /\ json.sm = mem.sm
    BY DEF Init
  <2>2. << >> = [k \in 1 .. 0 |-> k]
    OBVIOUS
  <2> QED
    BY <2>1, <2>2 DEF AppliedOnce
<1>2. TypeInv /\ AppliedOnce /\ [Next]_vars => (TypeInv /\ AppliedOnce)'
  <2> SUFFICES ASSUME TypeInv, AppliedOnce, [Next]_vars PROVE AppliedOnce'
    BY StepType, StepShape DEF TypeInv
  <2>1. TypeOK
    BY DEF TypeInv
  <2>2. CASE Operation
    <3>1. json' = json
      BY <2>1, <2>2, OperationType
    <3>2. mem'.sm.cmds = [k \in 1 .. mem'.sm.applied |-> k]
      BY <2>1, <2>2, OperationMachine DEF AppliedOnce
    <3> QED
      BY <3>1, <3>2 DEF AppliedOnce
  <2>3. CASE ~Operation
    <3>1. mem'.sm \in {mem.sm, json.sm} /\ json'.sm \in {mem.sm, json.sm}
      BY <2>1, <2>3 DEF TypeOK, Next, Open, Loaded, PersistStep, WriteVote, WriteCommitted,
         WriteState, RemoveSegment, RemovedAll, CreateSegment, WriteRecord, RotateSegment,
         FinishSegments, WriteManifest, Crash, disk, vars
    <3> QED
      BY <3>1 DEF AppliedOnce
  <2> QED
    BY <2>2, <2>3
<1> QED
  BY <1>1, <1>2, PTL DEF Spec

\* What has left the log, in memory or on disk, is in the machine.
Purged ==
  /\ PurgedIsApplied
  /\ pc \notin {"closed", "refused"} =>
       mem.purged <= mem.sm.applied /\ manifest.purged <= mem.sm.applied

\* Entries leave the log only once the machine on disk contains them, also
\* when the process dies between the file of the machine and the manifest.
THEOREM PurgedSafe == Spec => []PurgedIsApplied
<1>1. Init => TypeInv /\ Kept /\ Purged
  <2> SUFFICES ASSUME Init PROVE Purged
    BY InitType, InitKept
  <2> QED
    BY DEF Init, Purged, PurgedIsApplied
<1>2. TypeInv /\ Kept /\ Purged /\ [Next]_vars => (TypeInv /\ Kept /\ Purged)'
  <2> SUFFICES ASSUME TypeInv, Kept, Purged, [Next]_vars PROVE Purged'
    BY StepType, StepShape, StepKept DEF TypeInv
  <2> USE DEF Purged, PurgedIsApplied, disk
  <2>1. TypeOK
    BY DEF TypeInv
  <2>2. /\ mem.purged \in Nat /\ manifest.purged \in Nat /\ mem.sm.applied \in Nat
        /\ json.sm.applied \in Nat
    BY <2>1, StoreAssumption DEF TypeOK, Store, Machine
  <2>3. CASE Open
    BY <2>3 DEF Open, Loaded
  <2>4. CASE Operation
    <3>1. pc = "idle" /\ pc' = "vote" /\ json' = json /\ manifest' = manifest
      BY <2>1, <2>4, OperationType
    <3>2. \/ mem'.sm = mem.sm
          \/ mem'.sm.applied \in Nat /\ mem.sm.applied < mem'.sm.applied
      <4>1. \/ mem'.sm = mem.sm
            \/ \E i \in Index : mem.sm.applied < i /\ mem'.sm.applied = i
        BY <2>1, <2>4, OperationMachine
      <4> QED
        BY <4>1, StoreAssumption DEF Index
    <3>3. \/ mem'.purged = mem.purged
          \/ mem'.purged <= mem.sm.applied /\ mem'.sm = mem.sm
      BY <2>1, <2>4, OperationMachine
    <3> QED
      BY <2>2, <3>1, <3>2, <3>3
  <2>5. CASE WriteState
    BY <2>1, <2>5 DEF WriteState, TypeOK
  <2>6. CASE WriteManifest
    BY <2>6 DEF WriteManifest, Kept, Steps
  <2>7. CASE Crash \/ UNCHANGED vars
    BY <2>7 DEF Crash, vars
  <2>8. CASE \/ WriteVote \/ WriteCommitted \/ (\E f \in files : RemoveSegment(f)) \/ RemovedAll
             \/ (\E e \in mem.log : CreateSegment(e) \/ WriteRecord(e))
             \/ RotateSegment \/ FinishSegments
    <3>1. pc \notin {"closed", "refused"} /\ json'.sm = json.sm /\ UNCHANGED <<mem, manifest>>
      BY <2>1, <2>8 DEF TypeOK, WriteVote, WriteCommitted, RemoveSegment, RemovedAll,
         CreateSegment, WriteRecord, RotateSegment, FinishSegments
    <3> QED
      BY <3>1
  <2> QED
    BY <2>3, <2>4, <2>5, <2>6, <2>7, <2>8 DEF Next, PersistStep
<1>3. Purged => PurgedIsApplied
  BY DEF Purged
<1> QED
  BY <1>1, <1>2, <1>3, PTL DEF Spec

-----------------------------------------------------------------------------
(* The log on disk.  Outside of a rewrite a segment file holds exactly the  *)
(* indices of its name, or it is the one that a crash left open: named      *)
(* after its first index, above every other file, and with any number of    *)
(* records.  Segments that a manifest names cover the indices after its     *)
(* purge point up to some last one.                                         *)

\* The indices of the log are those after p, each in one entry.
Contiguous(log, p) ==
  /\ \E last \in p .. MaxIndex : Indices(log) = (p + 1) .. last
  /\ \A d, e \in log : d.index = e.index => d = e

Whole(f) == Indices(f.recs) = f.name[1] .. f.name[2]

LeftOpen(f, segments) ==
  /\ f.name[1] = f.name[2]
  /\ \E x \in (f.name[1] - 1) .. MaxIndex : Indices(f.recs) = f.name[1] .. x
  /\ \A g \in segments : g.name # f.name => g.name[2] < f.name[1]

Tidy(segments) ==
  /\ \A f \in segments : Whole(f) \/ LeftOpen(f, segments)
  /\ \A f, g \in segments : f.name = g.name => f.recs = g.recs
  /\ \A f, g \in segments : \A d \in f.recs, e \in g.recs : d.index = e.index => d = e

Tiled(m) ==
  \E last \in 0 .. MaxIndex : \A i \in Index :
    (\E n \in m.segs : n[1] <= i /\ i <= n[2]) <=> (m.purged < i /\ i <= last)

Between(log, a, b) == {e \in log : a <= e.index /\ e.index <= b}

\* What the rewrite has done: the sealed segments and the open one hold the
\* entries of their ranges, and cover those up to the last one written.
Written ==
  /\ \A f \in files :
       \/ f.name \in rw.segs /\ f.recs = Between(mem.log, f.name[1], f.name[2])
       \/ rw.first # 0 /\ f.name = OpenName /\ f.recs = Between(mem.log, rw.first, rw.last)
  /\ \A n \in rw.segs : /\ n[2] <= rw.last
                        /\ rw.first # 0 => n[2] < rw.first
                        /\ n[1] .. n[2] \subseteq Indices(mem.log)
  /\ rw.first # 0 => /\ rw.first \in Indices(mem.log)
                     /\ \A e \in Unwritten : rw.first <= e.index
  /\ rw.last # 0 => rw.last \in Indices(mem.log)
  /\ \A e \in mem.log : e.index <= rw.last =>
       \/ \E n \in rw.segs : n[1] <= e.index /\ e.index <= n[2]
       \/ rw.first # 0 /\ rw.first <= e.index
  /\ pc = "manifest" => rw.first = 0 /\ Unwritten = {}

LogInv ==
  /\ Tiled(manifest)
  /\ pc \notin {"closed", "refused"} => Contiguous(mem.log, mem.purged)
  /\ pc \in {"write", "manifest"} => Written
  /\ pc \notin {"write", "manifest"} => Tidy(files)

\* Where the entries in the segments come from.
Sourced ==
  /\ pc \in {"write", "manifest"} => \A f \in files : f.recs \subseteq mem.log
  /\ pc \in {"idle", "vote", "committed", "state", "remove"} =>
       \A f \in Listed : f.recs \subseteq done.log
  /\ pc \in {"closed", "refused"} => \A f \in Listed : f.recs \subseteq done.log \cup mem.log

\* Every step keeps the records of the segments among the entries of the store
\* before or after the operation: a rewrite only adds records of mem.log.
LEMMA StepSourced ==
  ASSUME TypeOK, Kept, Sourced, [Next]_vars
  PROVE  Sourced'
<1> USE DEF disk
<1>1. CASE Open
  <2>1. CASE mem' = Loaded /\ done' = Loaded /\ pc' = "idle"
    <3>1. Listed' = Listed
      BY <1>1 DEF Open, Listed
    <3>2. done'.log = UNION {f.recs : f \in Listed}
      BY <2>1 DEF Loaded
    <3>3. \A f \in Listed : f.recs \subseteq done'.log
      BY <3>2
    <3> QED
      BY <2>1, <3>1, <3>3 DEF Sourced
  <2>2. CASE pc' = "refused" /\ UNCHANGED <<mem, done>>
    BY <1>1, <2>2 DEF Open, Sourced, Listed
  <2> QED
    BY <1>1, <2>1, <2>2 DEF Open
<1>2. CASE Operation
  BY <1>2, OperationType DEF Sourced, Listed
<1>3. CASE WriteVote \/ WriteCommitted \/ WriteState
  BY <1>3 DEF WriteVote, WriteCommitted, WriteState, Sourced, Listed
<1>4. CASE \E f \in files : RemoveSegment(f)
  BY <1>4 DEF RemoveSegment, Sourced, Listed
<1>5. CASE RemovedAll
  BY <1>5 DEF RemovedAll, Sourced
<1>6. ASSUME NEW e \in mem.log, CreateSegment(e) PROVE Sourced'
  BY <1>6 DEF CreateSegment, Sourced
<1>7. ASSUME NEW e \in mem.log, WriteRecord(e) PROVE Sourced'
  <2>1. pc = "write" /\ pc' = "write" /\ mem' = mem
    BY <1>7 DEF WriteRecord
  <2>2. \A f \in files' : f.recs \subseteq mem.log
    BY <1>7, <2>1 DEF WriteRecord, Sourced, TypeOK, Segment
  <2> QED
    BY <2>1, <2>2 DEF Sourced
<1>8. CASE RotateSegment \/ FinishSegments
  <2>1. pc = "write" /\ pc' \in {"write", "manifest"} /\ mem' = mem
    BY <1>8 DEF RotateSegment, FinishSegments
  <2>2. CASE SealSegment
    <3>1. \A f \in files' : f.recs \subseteq mem.log
      BY <2>1, <2>2 DEF SealSegment, Sourced, TypeOK, Segment
    <3> QED
      BY <2>1, <3>1 DEF Sourced
  <2>3. CASE UNCHANGED files
    BY <2>1, <2>3 DEF Sourced
  <2> QED
    BY <1>8, <2>2, <2>3 DEF RotateSegment, FinishSegments
<1>9. CASE WriteManifest
  BY <1>9 DEF WriteManifest, Sourced, Listed
<1>10. CASE Crash
  <2>1. pc' = "closed" /\ UNCHANGED <<mem, manifest, done>> /\ pc \notin {"closed", "refused"}
    BY <1>10 DEF Crash
  <2>2. CASE files' = files
    <3>1. pc \in {"idle", "vote", "committed", "state", "remove", "write", "manifest"}
      BY <2>1 DEF TypeOK, Steps
    <3> QED
      BY <2>1, <2>2, <3>1 DEF Sourced, Listed
  <2>3. CASE /\ pc = "write"
             /\ files' = {IF f \in Current THEN [f EXCEPT !.torn = TRUE] ELSE f : f \in files}
    <3>1. \A f \in files' : f.recs \subseteq mem.log
      BY <2>3 DEF Sourced, TypeOK, Segment
    <3> QED
      BY <2>1, <3>1 DEF Sourced, Listed
  <2> QED
    BY <1>10, <2>2, <2>3 DEF Crash
<1>11. CASE UNCHANGED vars
  BY <1>11 DEF vars, Sourced, Listed
<1> QED
  BY <1>1, <1>2, <1>3, <1>4, <1>5, <1>6, <1>7, <1>8, <1>9, <1>10, <1>11
     DEF Next, PersistStep

\* Recovery brings back no entry that an operation which returned had removed,
\* whatever mixture of old and new segments the crash left.
THEOREM ResurrectedSafe == Spec => NothingResurrected
<1> DEFINE I == TypeInv /\ Kept /\ Sourced
<1>1. Init => I
  BY InitType, InitKept DEF Init, Sourced, Listed
<1>2. I /\ [Next]_vars => I'
  BY StepType, StepShape, StepKept, StepSourced DEF TypeInv
<1>3. I /\ [Next]_vars =>
        [pc = "closed" /\ pc' = "idle" => mem'.log \subseteq done.log \cup mem.log]_vars
  <2> SUFFICES ASSUME Sourced, [Next]_vars, pc = "closed", pc' = "idle"
               PROVE  mem'.log \subseteq done.log \cup mem.log
    OBVIOUS
  <2>1. mem'.log = UNION {f.recs : f \in Listed}
    BY OpensLoaded DEF Loaded
  <2> QED
    BY <2>1 DEF Sourced
<1> QED
  BY <1>1, <1>2, <1>3, PTL DEF Spec, NothingResurrected

-----------------------------------------------------------------------------
(* The log has no gap                                                      *)

\* The entries of a range that the log covers have exactly its indices.
LEMMA BetweenIs ==
  ASSUME NEW log \in SUBSET Entry, NEW a \in Nat, NEW b \in Nat,
         a .. b \subseteq Indices(log)
  PROVE  Indices(Between(log, a, b)) = a .. b
<1>1. \A e \in log : e.index \in Nat
  BY StoreAssumption DEF Entry, Index
<1>2. ASSUME NEW i \in a .. b PROVE i \in Indices(Between(log, a, b))
  <2>1. PICK e \in log : e.index = i
    BY DEF Indices
  <2>2. e \in Between(log, a, b)
    BY <2>1 DEF Between
  <2> QED
    BY <2>1, <2>2 DEF Indices
<1>3. ASSUME NEW e \in Between(log, a, b) PROVE e.index \in a .. b
  BY <1>1, <1>3 DEF Between
<1> QED
  BY <1>2, <1>3 DEF Indices

\* Files that were there before, with their names and records, stay tidy.
LEMMA TidyPart ==
  ASSUME NEW old, NEW new, Tidy(old),
         \A f \in new : \E g \in old : f.name = g.name /\ f.recs = g.recs
  PROVE  Tidy(new)
<1>1. ASSUME NEW f \in new PROVE Whole(f) \/ LeftOpen(f, new)
  <2>1. PICK g \in old : f.name = g.name /\ f.recs = g.recs
    BY <1>1
  <2>2. CASE Whole(g)
    BY <2>1, <2>2 DEF Whole
  <2>3. CASE LeftOpen(g, old)
    <3>1. \A h \in new : h.name # f.name => h.name[2] < f.name[1]
      BY <2>1, <2>3 DEF LeftOpen
    <3> QED
      BY <2>1, <2>3, <3>1 DEF LeftOpen
  <2> QED
    BY <2>1, <2>2, <2>3 DEF Tidy
<1>2. \A f, g \in new : f.name = g.name => f.recs = g.recs
  BY DEF Tidy
<1>3. ASSUME NEW f \in new, NEW g \in new, NEW d \in f.recs, NEW e \in g.recs,
             d.index = e.index
      PROVE  d = e
  <2>1. PICK f1 \in old : f.name = f1.name /\ f.recs = f1.recs
    BY <1>3
  <2>2. PICK g1 \in old : g.name = g1.name /\ g.recs = g1.recs
    BY <1>3
  <2> QED
    BY <1>3, <2>1, <2>2 DEF Tidy
<1> QED
  BY <1>1, <1>2, <1>3 DEF Tidy

\* The tiles of a manifest, whole or the last one cut short, are a contiguous
\* log: what open loads starts after the purge point and has no gap.
LEMMA LoadedIsContiguous ==
  ASSUME TypeOK, Tiled(manifest), Tidy(files), Readable
  PROVE  Contiguous(Loaded.log, Loaded.purged)
<1> DEFINE log == UNION {f.recs : f \in Listed}
           p == manifest.purged
<1>1. Loaded.log = log /\ Loaded.purged = p /\ p \in 0 .. MaxIndex /\ MaxIndex \in Nat
  BY StoreAssumption DEF Loaded, TypeOK
<1>2. \A d, e \in log : d.index = e.index => d = e
  BY DEF Tidy, Listed
<1>3. PICK last \in 0 .. MaxIndex : \A i \in Index :
        (\E n \in manifest.segs : n[1] <= i /\ i <= n[2]) <=> (p < i /\ i <= last)
  BY DEF Tiled
<1>4. \A f \in files : /\ f.name[1] \in Index /\ f.name[2] \in Index
                       /\ f.name[1] <= f.name[2]
  BY DEF TypeOK, Segment, Name
<1>5. \A n \in manifest.segs : \E f \in Listed : f.name = n
  BY DEF Readable, Listed
<1>6. \A i : i \in Indices(log) <=> \E f \in Listed : i \in Indices(f.recs)
  BY DEF Indices
<1>7. CASE \A f \in Listed : Whole(f)
  <2>1. ASSUME NEW i \in Indices(log) PROVE p < i /\ i <= last /\ i \in Index
    <3>1. PICK f \in Listed : i \in Indices(f.recs)
      BY <1>6
    <3>2. i \in f.name[1] .. f.name[2] /\ f \in files /\ f.name \in manifest.segs
      BY <1>7, <3>1 DEF Whole, Listed
    <3>3. i \in Index /\ f.name[1] <= i /\ i <= f.name[2]
      BY <1>1, <1>4, <3>2 DEF Index
    <3> QED
      BY <1>3, <3>2, <3>3
  <2>2. ASSUME NEW i \in Index, p < i, i <= last PROVE i \in Indices(log)
    <3>1. PICK n \in manifest.segs : n[1] <= i /\ i <= n[2]
      BY <1>3, <2>2
    <3>2. PICK f \in Listed : f.name = n
      BY <1>5
    <3>3. i \in f.name[1] .. f.name[2]
      BY <1>1, <1>4, <3>1, <3>2 DEF Index, Listed
    <3> QED
      BY <1>6, <1>7, <3>3 DEF Whole
  <2> HIDE DEF log, p
  <2>3. CASE p <= last
    <3>1. \A i \in Indices(log) : i \in (p + 1) .. last
      BY <1>1, <2>1 DEF Index
    <3>2. \A i \in (p + 1) .. last : i \in Index /\ p < i /\ i <= last
      BY <1>1 DEF Index
    <3>3. \A i \in (p + 1) .. last : i \in Indices(log)
      BY <2>2, <3>2
    <3>4. Indices(log) = (p + 1) .. last
      BY <3>1, <3>3
    <3>5. last \in p .. MaxIndex
      BY <1>1, <2>3
    <3> QED
      BY <1>1, <1>2, <3>4, <3>5 DEF Contiguous
  <2>4. CASE last < p
    <3>1. \A i \in Indices(log) : FALSE
      BY <1>1, <2>1, <2>4 DEF Index
    <3>2. (p + 1) .. p = {} /\ p \in p .. MaxIndex
      BY <1>1
    <3>3. Indices(log) = (p + 1) .. p
      BY <3>1, <3>2
    <3> QED
      BY <1>1, <1>2, <3>2, <3>3 DEF Contiguous
  <2> QED
    BY <1>1, <2>3, <2>4
<1>8. CASE \E f \in Listed : ~Whole(f)
  <2>1. PICK t \in Listed : ~Whole(t)
    BY <1>8
  <2>2. LeftOpen(t, files) /\ t \in files /\ t.name \in manifest.segs
    BY <2>1 DEF Tidy, Listed
  <2> DEFINE k == t.name[1]
  <2>3. PICK x \in (k - 1) .. MaxIndex : Indices(t.recs) = k .. x
    BY <2>2 DEF LeftOpen
  <2>4. t.name[2] = k /\ k \in Index
    BY <1>4, <2>2 DEF LeftOpen
  <2>5. \A g \in files : g.name # t.name => g.name[2] < k
    BY <2>2 DEF LeftOpen
  <2>6. p < k
    BY <1>1, <1>3, <2>2, <2>4 DEF Index
  <2>7. ASSUME NEW f \in Listed, f.name # t.name PROVE Whole(f)
    <3>1. f \in files /\ (Whole(f) \/ LeftOpen(f, files))
      BY DEF Tidy, Listed
    <3>2. CASE LeftOpen(f, files)
      <4>1. t.name[2] < f.name[1] /\ f.name[1] = f.name[2] /\ f.name[2] < k
        BY <2>2, <2>5, <2>7, <3>1, <3>2 DEF LeftOpen
      <4> QED
        BY <1>1, <1>4, <2>4, <3>1, <4>1 DEF Index
    <3> QED
      BY <3>1, <3>2
  <2>8. \A f \in Listed : f.name = t.name => f.recs = t.recs
    BY <2>2 DEF Tidy, Listed
  <2> HIDE DEF k
  <2>9. ASSUME NEW i \in Indices(log) PROVE i \in (p + 1) .. x
    <3>1. PICK f \in Listed : i \in Indices(f.recs)
      BY <1>6
    <3>2. CASE f.name = t.name
      BY <1>1, <2>3, <2>4, <2>6, <2>8, <3>1, <3>2 DEF Index
    <3>3. CASE f.name # t.name
      <4>1. i \in f.name[1] .. f.name[2] /\ f \in files /\ f.name \in manifest.segs
        BY <2>7, <3>1, <3>3 DEF Whole, Listed
      <4>2. i \in Index /\ f.name[1] <= i /\ i <= f.name[2] /\ f.name[2] < k
        BY <1>1, <1>4, <2>5, <3>3, <4>1 DEF Index
      <4>3. p < i
        BY <1>3, <4>1, <4>2
      <4>4. f.name[2] \in Index
        BY <1>4, <4>1
      <4> QED
        BY <1>1, <2>3, <2>4, <4>2, <4>3, <4>4 DEF Index
    <3> QED
      BY <3>2, <3>3
  <2>10. ASSUME NEW i \in (p + 1) .. x PROVE i \in Indices(log)
    <3>1. CASE k <= i
      <4>1. i \in Indices(t.recs)
        BY <1>1, <2>3, <2>4, <3>1 DEF Index
      <4> QED
        BY <1>6, <2>1, <4>1
    <3>2. CASE i < k
      <4>1. i \in Index /\ p < i
        BY <1>1, <2>3, <2>4 DEF Index
      <4>2. k <= last
        BY <1>1, <1>3, <2>2, <2>4 DEF Index, k
      <4>3. PICK n \in manifest.segs : n[1] <= i /\ i <= n[2]
        BY <1>1, <1>3, <2>4, <3>2, <4>1, <4>2 DEF Index
      <4>4. PICK f \in Listed : f.name = n
        BY <1>5
      <4>5. f.name # t.name
        BY <1>1, <2>4, <3>2, <4>1, <4>3, <4>4 DEF Index, k
      <4>6. i \in f.name[1] .. f.name[2]
        BY <1>1, <1>4, <4>1, <4>3, <4>4 DEF Index, Listed
      <4> QED
        BY <1>6, <2>7, <4>5, <4>6 DEF Whole
    <3> QED
      BY <1>1, <2>3, <2>4, <3>1, <3>2 DEF Index
  <2>11. Indices(log) = (p + 1) .. x
    BY <2>9, <2>10
  <2>12. x \in p .. MaxIndex
    BY <1>1, <2>3, <2>4, <2>6 DEF Index
  <2> HIDE DEF log, p
  <2> QED
    BY <1>1, <1>2, <2>11, <2>12 DEF Contiguous
<1> QED
  BY <1>7, <1>8

\* The last index of a contiguous log.
LEMMA LastOfContiguous ==
  ASSUME mem \in Store, NEW last \in mem.purged .. MaxIndex,
         Indices(mem.log) = (mem.purged + 1) .. last
  PROVE  LastIndex = last
<1>1. mem.purged \in 0 .. MaxIndex /\ MaxIndex \in Nat
  BY StoreAssumption DEF Store
<1>2. CASE mem.log = {}
  <2>1. Indices(mem.log) = {}
    BY <1>2 DEF Indices
  <2>2. last = mem.purged
    <3>1. last \notin (mem.purged + 1) .. last
      BY <2>1
    <3> QED
      BY <1>1, <3>1
  <2> QED
    BY <1>2, <2>2, LastIndexIs
<1>3. CASE mem.log # {}
  <2>1. LastIndex \in Indices(mem.log) /\ \A j \in Indices(mem.log) : j <= LastIndex
    BY <1>3, LastIndexIs
  <2>2. last \in Indices(mem.log)
    BY <1>1, <2>1
  <2> QED
    BY <1>1, <2>1, <2>2
<1> QED
  BY <1>2, <1>3

\* Append, truncate and purge keep the log contiguous.
LEMMA OperationLog ==
  ASSUME TypeOK, Operation, Contiguous(mem.log, mem.purged)
  PROVE  Contiguous(mem'.log, mem'.purged)
<1> USE DEF Persist
<1> DEFINE p == mem.purged
<1>1. /\ mem \in Store /\ p \in 0 .. MaxIndex /\ MaxIndex \in Nat
      /\ \A e \in mem.log : e.index \in Index
  BY StoreAssumption DEF TypeOK, Store, Entry
<1>2. PICK last \in p .. MaxIndex : Indices(mem.log) = (p + 1) .. last
  BY DEF Contiguous
<1>3. \A d, e \in mem.log : d.index = e.index => d = e
  BY DEF Contiguous
<1>4. LastIndex = last
  BY <1>1, <1>2, LastOfContiguous
<1>5. CASE UNCHANGED <<mem.log, mem.purged>>
  BY <1>5
<1>6. ASSUME NEW i \in Index, AppendEntries(i) PROVE Contiguous(mem'.log, mem'.purged)
  <2> DEFINE new == {[index |-> j, term |-> mem.vote] : j \in (last + 1) .. i}
  <2>1. mem'.log = mem.log \cup new /\ mem'.purged = p /\ last < i
    BY <1>1, <1>4, <1>6 DEF AppendEntries, Store
  <2>2. Indices(new) = (last + 1) .. i
    <3>1. \A e \in new : e.index \in (last + 1) .. i
      OBVIOUS
    <3>2. ASSUME NEW j \in (last + 1) .. i PROVE \E e \in new : e.index = j
      <4>1. [index |-> j, term |-> mem.vote] \in new
        OBVIOUS
      <4> HIDE DEF new
      <4> QED
        BY <4>1
    <3> HIDE DEF new
    <3> QED
      BY <3>1, <3>2 DEF Indices
  <2>3. Indices(mem'.log) = Indices(mem.log) \cup Indices(new)
    BY <2>1 DEF Indices
  <2>4. Indices(mem'.log) = (p + 1) .. i
    <3>1. ((p + 1) .. last) \cup ((last + 1) .. i) = (p + 1) .. i
      BY <1>1, <1>2, <2>1 DEF Index
    <3> QED
      BY <1>2, <2>2, <2>3, <3>1
  <2>5. i \in p .. MaxIndex
    BY <1>1, <1>2, <2>1 DEF Index
  <2>6. \A d \in mem.log : d.index <= last
    BY <1>1, <1>2 DEF Indices
  <2>7. \A d \in new : d.index > last
    BY <1>1, <1>2
  <2>8. \A d, e \in new : d.index = e.index => d = e
    OBVIOUS
  <2>9. \A d \in mem.log, e \in new : d.index # e.index
    BY <1>1, <1>2, <2>6, <2>7 DEF Index
  <2>10. \A d, e \in mem'.log : d.index = e.index => d = e
    <3> HIDE DEF new
    <3> QED
      BY <1>3, <2>1, <2>8, <2>9
  <2> QED
    BY <2>1, <2>4, <2>5, <2>10 DEF Contiguous
<1>7. ASSUME NEW i \in Index, Truncate(i) PROVE Contiguous(mem'.log, mem'.purged)
  <2>1. mem'.log = {e \in mem.log : e.index < i} /\ mem'.purged = p
    BY <1>1, <1>7 DEF Truncate, Store
  <2>2. i \in (p + 1) .. last
    BY <1>2, <1>7 DEF Truncate
  <2>3. \A j : j \in Indices(mem'.log) <=> j \in Indices(mem.log) /\ j < i
    BY <2>1 DEF Indices
  <2>4. \A j : j \in Indices(mem'.log) <=> j \in (p + 1) .. (i - 1)
    BY <1>1, <1>2, <2>2, <2>3 DEF Index
  <2>5. Indices(mem'.log) = (p + 1) .. (i - 1)
    BY <2>4
  <2>6. i - 1 \in p .. MaxIndex
    BY <1>1, <1>2, <2>2
  <2> QED
    BY <1>3, <2>1, <2>5, <2>6 DEF Contiguous
<1>8. ASSUME NEW i \in Index, Purge(i) PROVE Contiguous(mem'.log, mem'.purged)
  <2> DEFINE kept == {e \in mem.log : e.index > i}
             top == IF last < i THEN i ELSE last
  <2>1. mem' = [mem EXCEPT !.log = kept, !.purged = i] /\ p < i
    BY <1>8 DEF Purge
  <2>2. mem'.log = kept /\ mem'.purged = i
    <3> HIDE DEF kept
    <3> QED
      BY <1>1, <2>1 DEF Store
  <2>3. \A j : j \in Indices(kept) <=> j \in Indices(mem.log) /\ j > i
    BY DEF Indices
  <2>4. \A j : j \in Indices(kept) <=> j \in (i + 1) .. top
    <3> HIDE DEF kept
    <3> QED
      BY <1>1, <1>2, <2>1, <2>3 DEF Index
  <2>5. Indices(kept) = (i + 1) .. top
    BY <2>4
  <2>6. top \in i .. MaxIndex
    BY <1>1, <1>2 DEF Index
  <2>7. \A d, e \in kept : d.index = e.index => d = e
    BY <1>3
  <2> HIDE DEF kept, top
  <2> QED
    BY <2>2, <2>5, <2>6, <2>7 DEF Contiguous
<1>9. ASSUME \/ \E t \in Term : SaveVote(t)
             \/ \E i \in Index : SaveCommitted(i) \/ Apply(i) \/ InstallSnapshot(i)
      PROVE  UNCHANGED <<mem.log, mem.purged>>
  <2>1. ASSUME NEW t \in Term, SaveVote(t) PROVE UNCHANGED <<mem.log, mem.purged>>
    BY <1>1, <2>1 DEF SaveVote, Store
  <2>2. ASSUME NEW i \in Index, SaveCommitted(i) PROVE UNCHANGED <<mem.log, mem.purged>>
    BY <1>1, <2>2 DEF SaveCommitted, Store
  <2>3. ASSUME NEW sm, mem' = [mem EXCEPT !.sm = sm] PROVE UNCHANGED <<mem.log, mem.purged>>
    BY <1>1, <2>3 DEF Store
  <2>4. ASSUME NEW i \in Index, Apply(i) PROVE \E sm : mem' = [mem EXCEPT !.sm = sm]
    BY <2>4 DEF Apply
  <2>5. ASSUME NEW i \in Index, InstallSnapshot(i) PROVE \E sm : mem' = [mem EXCEPT !.sm = sm]
    BY <2>5 DEF InstallSnapshot
  <2> QED
    BY <1>9, <2>1, <2>2, <2>3, <2>4, <2>5
<1> QED
  BY <1>5, <1>6, <1>7, <1>8, <1>9 DEF Operation

\* In the middle of the rewrite the segments on disk are tidy: the sealed
\* ones hold what their names say, and the open one is above them.
LEMMA WrittenIsTidy ==
  ASSUME TypeOK, Written, Contiguous(mem.log, mem.purged)
  PROVE  Tidy(files)
<1>1. /\ mem.log \in SUBSET Entry /\ rw.first \in 0 .. MaxIndex /\ rw.last \in 0 .. MaxIndex
      /\ MaxIndex \in Nat
  BY StoreAssumption DEF TypeOK, Store
<1>2. \A f \in files : f.name \in Name /\ f.name[1] \in Nat /\ f.name[2] \in Nat
  BY StoreAssumption DEF TypeOK, Segment, Name, Index
<1> DEFINE Sealed(f) == f.name \in rw.segs /\ f.recs = Between(mem.log, f.name[1], f.name[2])
           Opened(f) == /\ rw.first # 0 /\ f.name = OpenName
                        /\ f.recs = Between(mem.log, rw.first, rw.last)
<1>3. \A f \in files : Sealed(f) \/ Opened(f)
  BY DEF Written
<1>4. \A n \in rw.segs : /\ rw.first # 0 => n[2] < rw.first
                         /\ n[1] .. n[2] \subseteq Indices(mem.log)
  BY DEF Written
<1>5. ASSUME NEW f \in files, Sealed(f) PROVE Whole(f)
  <2>1. f.name[1] .. f.name[2] \subseteq Indices(mem.log)
    BY <1>4, <1>5
  <2>2. Indices(Between(mem.log, f.name[1], f.name[2])) = f.name[1] .. f.name[2]
    BY <1>1, <1>2, <2>1, BetweenIs
  <2> QED
    BY <1>5, <2>2 DEF Whole
<1>6. ASSUME NEW f \in files, Opened(f) PROVE LeftOpen(f, files)
  <2>1. f.name[1] = rw.first /\ f.name[2] = rw.first
    BY <1>6 DEF OpenName
  <2>2. \A g \in files : g.name # f.name => g.name[2] < f.name[1]
    BY <1>3, <1>4, <1>6, <2>1
  <2>3. CASE rw.first <= rw.last
    <3>1. rw.first \in Indices(mem.log) /\ rw.last \in Indices(mem.log)
      BY <1>1, <1>6, <2>3 DEF Written
    <3>2. PICK last \in mem.purged .. MaxIndex :
                Indices(mem.log) = (mem.purged + 1) .. last
      BY DEF Contiguous
    <3>3. mem.purged \in 0 .. MaxIndex
      BY DEF TypeOK, Store
    <3>4. rw.first .. rw.last \subseteq Indices(mem.log)
      BY <1>1, <3>1, <3>2, <3>3
    <3>5. Indices(f.recs) = rw.first .. rw.last
      BY <1>1, <1>6, <3>4, BetweenIs
    <3>6. rw.last \in (rw.first - 1) .. MaxIndex
      BY <1>1, <2>3
    <3> QED
      BY <2>1, <2>2, <3>5, <3>6 DEF LeftOpen
  <2>4. CASE rw.last < rw.first
    <3>1. \A e \in f.recs : FALSE
      BY <1>1, <1>6, <2>4 DEF Between, Entry, Index
    <3>2. Indices(f.recs) = {}
      BY <3>1 DEF Indices
    <3>3. rw.first .. (rw.first - 1) = {} /\ rw.first - 1 \in (rw.first - 1) .. MaxIndex
      BY <1>1
    <3> QED
      BY <2>1, <2>2, <3>2, <3>3 DEF LeftOpen
  <2> QED
    BY <1>1, <2>3, <2>4
<1>7. ASSUME NEW f \in files, NEW g \in files, f.name = g.name PROVE f.recs = g.recs
  <2>1. ASSUME NEW h \in files, Opened(h), h.name \in rw.segs PROVE FALSE
    <3>1. h.name[2] = rw.first /\ h.name[2] < rw.first
      BY <1>4, <2>1 DEF OpenName
    <3> QED
      BY <1>1, <3>1
  <2> QED
    BY <1>3, <1>7, <2>1
<1>8. \A f \in files : f.recs \subseteq mem.log
  BY <1>3 DEF Between
<1>9. \A d, e \in mem.log : d.index = e.index => d = e
  BY DEF Contiguous
<1> QED
  BY <1>3, <1>5, <1>6, <1>7, <1>8, <1>9 DEF Tidy

\* Sealing the open segment.
LEMMA SealWritten ==
  ASSUME TypeOK, Written, Contiguous(mem.log, mem.purged), SealSegment,
         rw.first <= rw.last, mem' = mem,
         pc' = "manifest" => Unwritten = {}
  PROVE  Written'
<1> DEFINE name == <<rw.first, rw.last>>
<1>1. /\ rw.first \in 1 .. MaxIndex /\ rw.last \in 1 .. MaxIndex /\ MaxIndex \in Nat
      /\ mem.purged \in 0 .. MaxIndex /\ rw.first # 0 /\ rw.last # 0
  BY StoreAssumption DEF TypeOK, SealSegment, Store
<1>2. rw'.first = 0 /\ rw'.last = rw.last /\ rw'.segs = rw.segs \cup {name}
  BY DEF SealSegment, TypeOK
<1>3. rw.first .. rw.last \subseteq Indices(mem.log)
  <2>1. rw.first \in Indices(mem.log) /\ rw.last \in Indices(mem.log)
    BY <1>1 DEF Written
  <2>2. PICK last \in mem.purged .. MaxIndex : Indices(mem.log) = (mem.purged + 1) .. last
    BY DEF Contiguous
  <2> QED
    BY <1>1, <2>1, <2>2
<1>4. ASSUME NEW f \in files'
      PROVE  f.name \in rw'.segs /\ f.recs = Between(mem.log, f.name[1], f.name[2])
  <2>1. PICK g \in files : f = IF g \in Current THEN [g EXCEPT !.name = name] ELSE g
    BY DEF SealSegment
  <2>2. CASE g \in Current
    <3>1. f.name = name /\ f.recs = g.recs
      BY <2>1, <2>2 DEF TypeOK, Segment
    <3>2. g.name \notin rw.segs
      <4> SUFFICES ASSUME g.name \in rw.segs PROVE FALSE
        OBVIOUS
      <4>1. g.name[2] = rw.first /\ g.name[2] < rw.first
        BY <1>1, <2>2 DEF Written, Current, OpenName
      <4> QED
        BY <1>1, <4>1
    <3>3. g.recs = Between(mem.log, rw.first, rw.last)
      BY <3>2 DEF Written
    <3> QED
      BY <1>2, <3>1, <3>3
  <2>3. CASE g \notin Current
    <3>1. f = g /\ f.name # OpenName
      BY <2>1, <2>3 DEF Current
    <3> QED
      BY <1>2, <3>1 DEF Written
  <2> QED
    BY <2>2, <2>3
<1>5. \A n \in rw'.segs : n[2] <= rw'.last /\ n[1] .. n[2] \subseteq Indices(mem.log)
  BY <1>1, <1>2, <1>3 DEF Written
<1>6. \A e \in mem.log : e.index <= rw.last =>
        \E n \in rw'.segs : n[1] <= e.index /\ e.index <= n[2]
  <2> SUFFICES ASSUME NEW e \in mem.log, e.index <= rw.last
               PROVE  \E n \in rw'.segs : n[1] <= e.index /\ e.index <= n[2]
    OBVIOUS
  <2>1. CASE \E n \in rw.segs : n[1] <= e.index /\ e.index <= n[2]
    BY <1>2, <2>1
  <2>2. CASE rw.first <= e.index
    <3>1. name \in rw'.segs /\ name[1] <= e.index /\ e.index <= name[2]
      BY <1>2, <2>2
    <3> QED
      BY <3>1
  <2> QED
    BY <2>1, <2>2 DEF Written
<1>7. pc' = "manifest" => Unwritten' = {}
  BY <1>2 DEF Unwritten
<1>8. rw.last \in Indices(mem.log)
  BY <1>1 DEF Written
<1> QED
  BY <1>2, <1>4, <1>5, <1>6, <1>7, <1>8 DEF Written

\* One record more, or a new segment.
LEMMA RecordWritten ==
  ASSUME TypeOK, Written, Contiguous(mem.log, mem.purged),
         NEW e \in mem.log, CreateSegment(e) \/ WriteRecord(e)
  PROVE  Written'
<1>1. /\ pc = "write" /\ pc' = "write" /\ mem' = mem /\ e \in Unwritten
      /\ \A d \in Unwritten : e.index <= d.index
  BY DEF CreateSegment, WriteRecord
<1>2. /\ rw.first \in 0 .. MaxIndex /\ rw.last \in 0 .. MaxIndex /\ MaxIndex \in Nat
      /\ \A d \in mem.log : d.index \in 1 .. MaxIndex
      /\ e.index > rw.last /\ e.index # 0
  BY <1>1, StoreAssumption DEF TypeOK, Store, Entry, Index, Unwritten
<1>3. \A n \in rw.segs : n[2] \in 1 .. MaxIndex /\ n[2] <= rw.last
  BY DEF Written, TypeOK, Name, Index
<1>4. e.index \in Indices(mem.log)
  BY DEF Indices
<1>5. CASE CreateSegment(e)
  <2>1. rw.first = 0 /\ rw'.first = e.index /\ rw'.last = rw.last /\ rw'.segs = rw.segs
    BY <1>5 DEF CreateSegment, TypeOK
  <2>2. Between(mem.log, e.index, rw.last) = {}
    BY <1>2 DEF Between
  <2>3. OpenName' = <<e.index, e.index>> /\ Unwritten' = Unwritten
    BY <1>1, <2>1 DEF OpenName, Unwritten
  <2>4. ASSUME NEW f \in files'
        PROVE  \/ f.name \in rw'.segs /\ f.recs = Between(mem.log, f.name[1], f.name[2])
               \/ f.name = OpenName' /\ f.recs = Between(mem.log, rw'.first, rw'.last)
    <3>1. CASE f \in files
      BY <2>1, <3>1 DEF Written
    <3>2. CASE f = [name |-> <<e.index, e.index>>, recs |-> {}, torn |-> FALSE]
      BY <2>1, <2>2, <2>3, <3>2
    <3> QED
      BY <1>5, <3>1, <3>2 DEF CreateSegment
  <2>5. \A n \in rw'.segs : /\ n[2] <= rw'.last /\ n[2] < rw'.first
                            /\ n[1] .. n[2] \subseteq Indices(mem.log)
    BY <1>2, <1>3, <2>1 DEF Written
  <2>6. rw.last # 0 => rw.last \in Indices(mem.log)
    BY DEF Written
  <2>7. \A d \in mem.log : d.index <= rw.last =>
          \E n \in rw.segs : n[1] <= d.index /\ d.index <= n[2]
    BY <2>1 DEF Written
  <2> QED
    BY <1>1, <1>2, <1>4, <2>1, <2>3, <2>4, <2>5, <2>6, <2>7 DEF Written
<1>6. CASE WriteRecord(e)
  <2>1. rw.first # 0 /\ rw'.first = rw.first /\ rw'.last = e.index /\ rw'.segs = rw.segs
    BY <1>6 DEF WriteRecord, TypeOK
  <2>2. rw.first <= e.index /\ rw.first \in Indices(mem.log) /\ OpenName' = OpenName
    BY <1>1, <2>1 DEF Written, OpenName
  <2>3. Between(mem.log, rw.first, e.index) = Between(mem.log, rw.first, rw.last) \cup {e}
    <3>1. \A d \in mem.log : d.index <= e.index /\ d.index > rw.last => d = e
      BY <1>1, <1>2 DEF Contiguous, Unwritten
    <3> QED
      BY <1>2, <2>2, <3>1 DEF Between
  <2>4. ASSUME NEW f \in files'
        PROVE  \/ f.name \in rw'.segs /\ f.recs = Between(mem.log, f.name[1], f.name[2])
               \/ f.name = OpenName' /\ f.recs = Between(mem.log, rw'.first, rw'.last)
    <3>1. PICK g \in files : f = IF g \in Current THEN [g EXCEPT !.recs = @ \cup {e}] ELSE g
      BY <1>6 DEF WriteRecord
    <3>2. CASE g \in Current
      <4>1. f.name = g.name /\ f.recs = g.recs \cup {e} /\ g.name = OpenName
        BY <3>1, <3>2 DEF TypeOK, Segment, Current
      <4>2. g.name \notin rw.segs
        <5> SUFFICES ASSUME g.name \in rw.segs PROVE FALSE
          OBVIOUS
        <5>1. g.name[2] = rw.first /\ g.name[2] < rw.first
          BY <2>1, <4>1 DEF Written, OpenName
        <5> QED
          BY <1>2, <5>1
      <4>3. g.recs = Between(mem.log, rw.first, rw.last)
        BY <4>2 DEF Written
      <4> QED
        BY <2>1, <2>2, <2>3, <4>1, <4>3
    <3>3. CASE g \notin Current
      <4>1. f = g /\ f.name # OpenName
        BY <3>1, <3>3 DEF Current
      <4> QED
        BY <2>1, <4>1 DEF Written
    <3> QED
      BY <3>2, <3>3
  <2>5. \A n \in rw'.segs : /\ n[2] <= rw'.last /\ n[2] < rw'.first
                            /\ n[1] .. n[2] \subseteq Indices(mem.log)
    BY <1>2, <1>3, <2>1 DEF Written
  <2>6. \A d \in Unwritten' : d \in Unwritten
    BY <1>1, <1>2, <2>1 DEF Unwritten
  <2>7. \A d \in Unwritten' : rw'.first <= d.index
    BY <2>1, <2>6 DEF Written
  <2>8. ASSUME NEW d \in mem.log, d.index <= e.index
        PROVE  \/ \E n \in rw.segs : n[1] <= d.index /\ d.index <= n[2]
               \/ rw.first <= d.index
    <3>1. CASE d.index <= rw.last
      BY <3>1 DEF Written
    <3>2. CASE d.index > rw.last
      BY <2>1, <3>2 DEF Written, Unwritten
    <3> QED
      BY <1>2, <3>1, <3>2
  <2> QED
    BY <1>1, <1>4, <2>1, <2>2, <2>4, <2>5, <2>7, <2>8 DEF Written
<1> QED
  BY <1>5, <1>6

\* Every step keeps manifest, segments and log in memory in order.
LEMMA StepLog ==
  ASSUME TypeInv, LogInv, [Next]_vars
  PROVE  LogInv'
<1> USE DEF disk
<1>0. TypeOK
  BY DEF TypeInv
<1>1. CASE Open
  <2>1. Tiled(manifest) /\ Tidy(files) /\ UNCHANGED disk
    BY <1>1 DEF Open, LogInv
  <2>2. CASE Readable /\ mem' = Loaded /\ pc' = "idle"
    BY <1>0, <2>1, <2>2, LoadedIsContiguous DEF LogInv
  <2>3. CASE pc' = "refused"
    BY <2>1, <2>3 DEF LogInv
  <2> QED
    BY <1>1, <2>2, <2>3 DEF Open
<1>2. CASE Operation
  <2>1. pc = "idle" /\ pc' = "vote" /\ UNCHANGED <<manifest, files>>
    BY <1>0, <1>2, OperationType
  <2>2. Contiguous(mem'.log, mem'.purged)
    BY <1>0, <1>2, <2>1, OperationLog DEF LogInv
  <2> QED
    BY <2>1, <2>2 DEF LogInv
<1>3. CASE WriteVote \/ WriteCommitted \/ WriteState
  BY <1>3 DEF WriteVote, WriteCommitted, WriteState, LogInv
<1>4. CASE \E f \in files : RemoveSegment(f)
  <2>1. Tidy(files) /\ files' \subseteq files
    BY <1>4 DEF RemoveSegment, LogInv
  <2>2. Tidy(files')
    BY <2>1, TidyPart
  <2> QED
    BY <1>4, <2>2 DEF RemoveSegment, LogInv
<1>5. CASE RemovedAll
  <2>1. rw' = NoRewrite /\ files' = {} /\ pc' = "write" /\ mem' = mem /\ manifest' = manifest
    BY <1>5 DEF RemovedAll
  <2>2. \A e \in mem.log : ~(e.index <= 0)
    BY <1>0, StoreAssumption DEF TypeOK, Store, Entry, Index
  <2>3. Written'
    BY <2>1, <2>2 DEF Written, NoRewrite
  <2> QED
    BY <1>5, <2>1, <2>3 DEF RemovedAll, LogInv
<1>6. ASSUME NEW e \in mem.log, CreateSegment(e) \/ WriteRecord(e) PROVE LogInv'
  <2>1. pc = "write" /\ pc' = "write" /\ UNCHANGED <<mem, manifest>>
    BY <1>6 DEF CreateSegment, WriteRecord
  <2>2. Written'
    BY <1>0, <1>6, <2>1, RecordWritten DEF LogInv
  <2> QED
    BY <2>1, <2>2 DEF LogInv
<1>7. CASE RotateSegment
  <2>1. pc = "write" /\ pc' = "write" /\ UNCHANGED <<mem, manifest>> /\ SealSegment
    BY <1>7 DEF RotateSegment
  <2>2. rw.first <= rw.last
    BY <1>7, <2>1, FullHasRecord DEF RotateSegment, TypeInv, WriteShape
  <2>3. Written'
    BY <1>0, <2>1, <2>2, SealWritten DEF LogInv
  <2> QED
    BY <2>1, <2>3 DEF LogInv
<1>8. CASE FinishSegments
  <2>1. /\ pc = "write" /\ pc' = "manifest" /\ UNCHANGED <<mem, manifest>> /\ Unwritten = {}
        /\ Written /\ Contiguous(mem.log, mem.purged) /\ Tiled(manifest)
    BY <1>8 DEF FinishSegments, LogInv
  <2>2. CASE SealSegment
    <3>1. PICK e \in mem.log : e.index = rw.first
      BY <2>1, <2>2 DEF Written, SealSegment, Indices
    <3>2. ~(e.index > rw.last)
      BY <2>1 DEF Unwritten
    <3>3. rw.first <= rw.last
      BY <1>0, <3>1, <3>2 DEF TypeOK
    <3>4. Written'
      BY <1>0, <2>1, <2>2, <3>3, SealWritten
    <3> QED
      BY <2>1, <3>4 DEF LogInv
  <2>3. CASE rw.first = 0 /\ UNCHANGED <<files, rw>>
    <3>1. Written'
      BY <2>1, <2>3 DEF Written, OpenName, Unwritten
    <3> QED
      BY <2>1, <3>1 DEF LogInv
  <2> QED
    BY <1>8, <2>2, <2>3 DEF FinishSegments
<1>9. CASE WriteManifest
  <2>1. /\ pc = "manifest" /\ pc' = "idle" /\ UNCHANGED <<mem, files>>
        /\ manifest'.purged = mem.purged /\ manifest'.segs = rw.segs
        /\ Written /\ Contiguous(mem.log, mem.purged)
    BY <1>9 DEF WriteManifest, LogInv
  <2>2. Tidy(files)
    BY <1>0, <2>1, WrittenIsTidy
  <2>3. PICK last \in mem.purged .. MaxIndex : Indices(mem.log) = (mem.purged + 1) .. last
    BY <2>1 DEF Contiguous
  <2>4. mem.purged \in 0 .. MaxIndex /\ last \in 0 .. MaxIndex
    BY <1>0, <2>3, StoreAssumption DEF TypeOK, Store
  <2>5. ASSUME NEW i \in Index
        PROVE  (\E n \in rw.segs : n[1] <= i /\ i <= n[2]) <=> i \in Indices(mem.log)
    <3>1. ASSUME NEW n \in rw.segs, n[1] <= i, i <= n[2] PROVE i \in Indices(mem.log)
      <4>1. n[1] \in Index /\ n[2] \in Index
        BY <1>0 DEF TypeOK, Name
      <4>2. i \in n[1] .. n[2]
        BY <3>1, <4>1, StoreAssumption DEF Index
      <4> QED
        BY <2>1, <4>2 DEF Written
    <3>2. ASSUME i \in Indices(mem.log) PROVE \E n \in rw.segs : n[1] <= i /\ i <= n[2]
      <4>1. PICK e \in mem.log : e.index = i
        BY <3>2 DEF Indices
      <4>2. e.index <= rw.last /\ rw.first = 0
        BY <1>0, <2>1, <4>1, StoreAssumption DEF Written, Unwritten, TypeOK, Index
      <4> QED
        BY <2>1, <4>1, <4>2 DEF Written
    <3> QED
      BY <3>1, <3>2
  <2>6. \A i \in Index : i \in Indices(mem.log) <=> (mem.purged < i /\ i <= last)
    BY <2>3, <2>4, StoreAssumption DEF Index
  <2>7. Tiled(manifest')
    BY <2>1, <2>4, <2>5, <2>6 DEF Tiled
  <2> QED
    BY <2>1, <2>2, <2>7 DEF LogInv
<1>10. CASE Crash
  <2>1. pc \notin {"closed", "refused"} /\ pc' = "closed" /\ manifest' = manifest
    BY <1>10 DEF Crash
  <2>2. Tidy(files)
    BY <1>0, <2>1, WrittenIsTidy DEF LogInv
  <2>3. \A f \in files' : \E g \in files : f.name = g.name /\ f.recs = g.recs
    <3>1. CASE files' = {IF f \in Current THEN [f EXCEPT !.torn = TRUE] ELSE f : f \in files}
      BY <1>0, <3>1 DEF TypeOK, Segment
    <3> QED
      BY <1>10, <3>1 DEF Crash
  <2>4. Tidy(files')
    BY <2>2, <2>3, TidyPart
  <2> QED
    BY <2>1, <2>4 DEF LogInv
<1>11. CASE UNCHANGED vars
  BY <1>11 DEF vars, LogInv, Written, OpenName, Unwritten
<1> QED
  BY <1>1, <1>2, <1>3, <1>4, <1>5, <1>6, <1>7, <1>8, <1>9, <1>10, <1>11
     DEF Next, PersistStep

\* The log in memory starts after the purge point and has one entry per index
\* and no gap: through appends, truncations and purges, and after recovery
\* from whatever segments a crash left beside the manifest it did not replace.
THEOREM LogSafe == Spec => []LogIsContiguous
<1>1. Init => TypeInv /\ LogInv
  <2> SUFFICES ASSUME Init PROVE LogInv
    BY InitType
  <2>1. manifest.segs = {} /\ manifest.purged = 0 /\ files = {} /\ pc = "closed"
    BY DEF Init
  <2>2. Tiled(manifest)
    <3>1. 0 \in 0 .. MaxIndex /\ \A i \in Index : ~(0 < i /\ i <= 0)
      BY StoreAssumption DEF Index
    <3> QED
      BY <2>1, <3>1 DEF Tiled
  <2> QED
    BY <2>1, <2>2 DEF LogInv, Tidy
<1>2. TypeInv /\ LogInv /\ [Next]_vars => (TypeInv /\ LogInv)'
  BY StepType, StepShape, StepLog DEF TypeInv
<1>3. TypeInv /\ LogInv => LogIsContiguous
  <2> SUFFICES ASSUME TypeInv, LogInv, pc \notin {"closed", "refused"}
               PROVE  /\ Indices(mem.log) = (mem.purged + 1) .. LastIndex
                      /\ \A d, e \in mem.log : d.index = e.index => d = e
    BY DEF LogIsContiguous
  <2>1. mem \in Store
    BY DEF TypeInv, TypeOK
  <2>2. Contiguous(mem.log, mem.purged)
    BY DEF LogInv
  <2>3. PICK last \in mem.purged .. MaxIndex : Indices(mem.log) = (mem.purged + 1) .. last
    BY <2>2 DEF Contiguous
  <2>4. LastIndex = last
    BY <2>1, <2>3, LastOfContiguous
  <2> QED
    BY <2>2, <2>3, <2>4 DEF Contiguous
<1> QED
  BY <1>1, <1>2, <1>3, PTL DEF Spec
=============================================================================

--------------------------- MODULE RaftFileStore ---------------------------
(***************************************************************************)
(* KronRaftFileStore (openraft_adapter/file_store.rs): what a server node   *)
(* keeps on disk for OpenRaft.  Every operation changes the copy in memory  *)
(* under the mutex and then persists all of it: three JSON files, each      *)
(* replaced by a rename, and the log, whose segment files are removed and   *)
(* written again before the manifest names the new ones.  One action per    *)
(* durable step; the process may die between any two of them, and in the    *)
(* middle of a record.                                                      *)
(*                                                                         *)
(* OpenRaft is external: it appends at the end of the log, truncates above  *)
(* and applies up to the committed index, and purges what is applied.  An   *)
(* error of persist makes it stop the node, which is a crash at that step.  *)
(* Loss of power, which may also undo completed writes, is not modelled.    *)
(***************************************************************************)
EXTENDS Integers, FiniteSets, Sequences

CONSTANTS
  MaxIndex,     \* bound on log indices
  MaxTerm,      \* bound on terms
  SegmentMax,   \* records per segment, for LOG_SEGMENT_MAX_BYTES
  MaxCrashes    \* bound on crashes

ASSUME StoreAssumption ==
  /\ MaxIndex \in Nat /\ MaxTerm \in Nat /\ MaxCrashes \in Nat
  /\ SegmentMax \in Nat \ {0}

Index == 1 .. MaxIndex
Term  == 1 .. MaxTerm
Entry == [index: Index, term: Term]
\* The state machine, by what was applied to it and the id it records.
Machine == [applied: 0 .. MaxIndex, cmds: Seq(Index)]
\* segment_file_name(first, last)
Name == {n \in Index \X Index : n[1] <= n[2]}
\* A segment: its whole records, and whether a piece of one follows them.
Segment == [name: Name, recs: SUBSET Entry, torn: BOOLEAN]
\* PersistedRaftStore; term 0 is a vote never cast, index 0 no log id.
Store == [vote: 0 .. MaxTerm, committed: 0 .. MaxIndex, purged: 0 .. MaxIndex,
          log: SUBSET Entry, sm: Machine]

VARIABLES
  mem,        \* the copy in memory; after a crash, what it held when it died
  json,       \* vote.json, committed.json, state.json
  manifest,   \* manifest.json
  files,      \* log/*.seg
  pc,         \* the next step of persist, idle, closed or refused
  rw,         \* rewrite_log_segments: its open file, last index, segments
  done,       \* the store as of the last operation that returned
  crashes

vars == <<mem, json, manifest, files, pc, rw, done, crashes>>
disk == <<json, manifest, files>>

Steps == {"vote", "committed", "state", "remove", "write", "manifest"}
NoRewrite == [first |-> 0, last |-> 0, segs |-> {}]

TypeOK ==
  /\ mem \in Store /\ done \in Store
  /\ json \in [vote: 0 .. MaxTerm, committed: 0 .. MaxIndex, sm: Machine]
  /\ manifest \in [purged: 0 .. MaxIndex, segs: SUBSET Name]
  /\ files \subseteq Segment
  /\ pc \in Steps \cup {"idle", "closed", "refused"}
  /\ rw \in [first: 0 .. MaxIndex, last: 0 .. MaxIndex, segs: SUBSET Name]
  /\ crashes \in Nat

-----------------------------------------------------------------------------
(* open                                                                    *)

Listed == {f \in files : f.name \in manifest.segs}

\* read_log_segments, read_segment_file: a listed segment must exist, and a
\* record cut short is ignored unless it is the first one of its file.
Readable ==
  \A n \in manifest.segs : \E f \in files : f.name = n /\ ~(f.torn /\ f.recs = {})

Loaded == [vote |-> json.vote, committed |-> json.committed,
           purged |-> manifest.purged, log |-> UNION {f.recs : f \in Listed},
           sm |-> json.sm]

Open ==
  /\ pc = "closed"
  /\ \/ /\ Readable
        /\ mem' = Loaded /\ done' = Loaded /\ pc' = "idle"
     \/ /\ ~Readable
        /\ pc' = "refused" /\ UNCHANGED <<mem, done>>
  /\ UNCHANGED <<disk, rw, crashes>>

-----------------------------------------------------------------------------
(* Operations: the change in memory, then persist                          *)

Indices(log) == {e.index : e \in log}
\* get_log_state: the last entry, or what was purged last.
LastIndex == IF mem.log = {} THEN mem.purged
             ELSE CHOOSE i \in Indices(mem.log) : \A j \in Indices(mem.log) : j <= i

Persist(store) ==
  /\ pc = "idle" /\ pc' = "vote"
  /\ mem' = store
  /\ UNCHANGED <<disk, rw, done, crashes>>

SaveVote(t) ==
  /\ t > mem.vote
  /\ Persist([mem EXCEPT !.vote = t])

SaveCommitted(i) ==
  /\ mem.committed < i /\ i <= LastIndex
  /\ Persist([mem EXCEPT !.committed = i])

\* append of a batch that ends at index i; a log behind an installed
\* snapshot is purged first.
AppendEntries(i) ==
  /\ mem.vote > 0 /\ mem.sm.applied <= LastIndex /\ LastIndex < i
  /\ Persist([mem EXCEPT !.log = @ \cup
       {[index |-> j, term |-> mem.vote] : j \in (LastIndex + 1) .. i}])

\* Mutant: the shorter log is not persisted.
TruncateInMemory(i) ==
  /\ mem.committed < i /\ mem.sm.applied < i /\ i \in Indices(mem.log)
  /\ pc = "idle"
  /\ mem' = [mem EXCEPT !.log = {e \in @ : e.index < i}]
  /\ done' = mem'
  /\ UNCHANGED <<disk, pc, rw, crashes>>

Truncate(i) ==
  /\ mem.committed < i /\ mem.sm.applied < i /\ i \in Indices(mem.log)
  /\ Persist([mem EXCEPT !.log = {e \in @ : e.index < i}])

\* Mutant: the purged entry itself stays in the log.
PurgeBelow(i) ==
  /\ mem.purged < i /\ i <= mem.sm.applied
  /\ Persist([mem EXCEPT !.log = {e \in @ : e.index >= i}, !.purged = i])

Purge(i) ==
  /\ mem.purged < i /\ i <= mem.sm.applied
  /\ Persist([mem EXCEPT !.log = {e \in @ : e.index > i}, !.purged = i])

\* Mutant: the machine does not record what was applied.
ApplyUnrecorded(i) ==
  /\ mem.sm.applied < i /\ i <= mem.committed
  /\ (mem.sm.applied + 1) .. i \subseteq Indices(mem.log)
  /\ Persist([mem EXCEPT !.sm.cmds =
       @ \o [k \in 1 .. (i - mem.sm.applied) |-> mem.sm.applied + k]])

\* apply of the committed entries up to i
Apply(i) ==
  /\ mem.sm.applied < i /\ i <= mem.committed
  /\ (mem.sm.applied + 1) .. i \subseteq Indices(mem.log)
  /\ Persist([mem EXCEPT !.sm =
       [applied |-> i,
        cmds |-> @.cmds \o [k \in 1 .. (i - @.applied) |-> @.applied + k]]])

\* install_snapshot replaces the machine and leaves the log to a later purge.
InstallSnapshot(i) ==
  /\ mem.sm.applied < i /\ mem.vote > 0
  /\ Persist([mem EXCEPT !.sm = [applied |-> i, cmds |-> [k \in 1 .. i |-> k]]])

-----------------------------------------------------------------------------
(* persist                                                                 *)

\* Mutant: the vote is not among the files that are written.
WriteVoteNot ==
  /\ pc = "vote" /\ pc' = "committed"
  /\ UNCHANGED <<mem, disk, rw, done, crashes>>

\* write_json_atomic: temporary file, sync, rename, sync of the directory
WriteVote ==
  /\ pc = "vote" /\ pc' = "committed"
  /\ json' = [json EXCEPT !.vote = mem.vote]
  /\ UNCHANGED <<mem, manifest, files, rw, done, crashes>>

WriteCommitted ==
  /\ pc = "committed" /\ pc' = "state"
  /\ json' = [json EXCEPT !.committed = mem.committed]
  /\ UNCHANGED <<mem, manifest, files, rw, done, crashes>>

\* Mutant: the machine is kept in memory only.
WriteStateNot ==
  /\ pc = "state" /\ pc' = "remove"
  /\ UNCHANGED <<mem, disk, rw, done, crashes>>

WriteState ==
  /\ pc = "state" /\ pc' = "remove"
  /\ json' = [json EXCEPT !.sm = mem.sm]
  /\ UNCHANGED <<mem, manifest, files, rw, done, crashes>>

\* rewrite_log_segments removes every segment, in the order of read_dir ...
RemoveSegment(f) ==
  /\ pc = "remove"
  /\ files' = files \ {f}
  /\ UNCHANGED <<mem, json, manifest, pc, rw, done, crashes>>

RemovedAll ==
  /\ pc = "remove" /\ files = {}
  /\ pc' = "write" /\ rw' = NoRewrite
  /\ UNCHANGED <<mem, disk, done, crashes>>

\* ... and writes the entries again.  The open segment is named after its
\* first index only.
OpenName == <<rw.first, rw.first>>
Current  == {f \in files : f.name = OpenName}
Unwritten == {e \in mem.log : e.index > rw.last}
Full     == rw.first # 0 /\ \E f \in Current : Cardinality(f.recs) >= SegmentMax

\* Mutant: the name of the segment has its bounds swapped.
SealSegmentSwapped ==
  /\ rw.first # 0
  /\ files' = {IF f \in Current THEN [f EXCEPT !.name = <<rw.last, rw.first>>]
                                ELSE f : f \in files}
  /\ rw' = [rw EXCEPT !.segs = @ \cup {<<rw.last, rw.first>>}, !.first = 0]

\* sync, rename to its final name, remember it for the manifest
SealSegment ==
  /\ rw.first # 0
  /\ files' = {IF f \in Current THEN [f EXCEPT !.name = <<rw.first, rw.last>>]
                                ELSE f : f \in files}
  /\ rw' = [rw EXCEPT !.segs = @ \cup {<<rw.first, rw.last>>}, !.first = 0]

\* open_segment_file for the next entry
CreateSegment(e) ==
  /\ pc = "write" /\ rw.first = 0
  /\ e \in Unwritten /\ \A d \in Unwritten : e.index <= d.index
  /\ files' = files \cup {[name |-> <<e.index, e.index>>, recs |-> {}, torn |-> FALSE]}
  /\ rw' = [rw EXCEPT !.first = e.index]
  /\ UNCHANGED <<mem, json, manifest, pc, done, crashes>>

RotateSegment ==
  /\ pc = "write" /\ Full /\ Unwritten # {}
  /\ SealSegment
  /\ UNCHANGED <<mem, json, manifest, pc, done, crashes>>

WriteRecord(e) ==
  /\ pc = "write" /\ rw.first # 0 /\ ~Full
  /\ e \in Unwritten /\ \A d \in Unwritten : e.index <= d.index
  /\ files' = {IF f \in Current THEN [f EXCEPT !.recs = @ \cup {e}] ELSE f : f \in files}
  /\ rw' = [rw EXCEPT !.last = e.index]
  /\ UNCHANGED <<mem, json, manifest, pc, done, crashes>>

\* The last segment is sealed, or there is none.
FinishSegments ==
  /\ pc = "write" /\ Unwritten = {}
  /\ \/ SealSegment
     \/ rw.first = 0 /\ UNCHANGED <<files, rw>>
  /\ pc' = "manifest"
  /\ UNCHANGED <<mem, json, manifest, done, crashes>>

\* write_json_atomic(manifest.json); the operation returns.
WriteManifest ==
  /\ pc = "manifest" /\ pc' = "idle"
  /\ manifest' = [purged |-> mem.purged, segs |-> rw.segs]
  /\ rw' = NoRewrite
  /\ done' = mem
  /\ UNCHANGED <<mem, json, files, crashes>>

-----------------------------------------------------------------------------
(* The process dies, between two steps or inside the write of a record.     *)

Crash ==
  /\ pc \notin {"closed", "refused"}
  /\ crashes < MaxCrashes /\ crashes' = crashes + 1
  /\ pc' = "closed" /\ rw' = NoRewrite
  /\ \/ UNCHANGED files
     \/ /\ pc = "write" /\ rw.first # 0 /\ ~Full /\ Unwritten # {}
        /\ files' = {IF f \in Current THEN [f EXCEPT !.torn = TRUE] ELSE f : f \in files}
  /\ UNCHANGED <<mem, json, manifest, done>>

-----------------------------------------------------------------------------
Init ==
  /\ mem = [vote |-> 0, committed |-> 0, purged |-> 0, log |-> {},
            sm |-> [applied |-> 0, cmds |-> << >>]]
  /\ done = mem
  /\ json = [vote |-> 0, committed |-> 0, sm |-> mem.sm]
  /\ manifest = [purged |-> 0, segs |-> {}]
  /\ files = {} /\ pc = "closed" /\ rw = NoRewrite /\ crashes = 0

Operation ==
  \/ \E t \in Term : SaveVote(t)
  \/ \E i \in Index : \/ SaveCommitted(i) \/ AppendEntries(i) \/ Truncate(i)
                      \/ Purge(i) \/ Apply(i) \/ InstallSnapshot(i)

PersistStep ==
  \/ WriteVote \/ WriteCommitted \/ WriteState
  \/ (\E f \in files : RemoveSegment(f)) \/ RemovedAll
  \/ (\E e \in mem.log : CreateSegment(e) \/ WriteRecord(e))
  \/ RotateSegment \/ FinishSegments \/ WriteManifest

Next == Open \/ Operation \/ PersistStep \/ Crash

Spec == Init /\ [][Next]_vars

-----------------------------------------------------------------------------
(* Properties                                                              *)

\* Whatever step a crash interrupts, a node that opens again has the vote, the
\* committed index, the state machine and the purge point of the operation
\* that last returned or of the one that was interrupted.  A forgotten vote
\* would let the node vote twice in a term.
RaftStateKept ==
  [][pc = "closed" /\ pc' = "idle" =>
       \A field \in {"vote", "committed", "sm", "purged"} :
         mem'[field] \in {done[field], mem[field]}]_vars

\* Recovery never brings back an entry that a truncate or purge which returned
\* had removed, nor one that was never appended.
NothingResurrected ==
  [][pc = "closed" /\ pc' = "idle" => mem'.log \subseteq done.log \cup mem.log]_vars

\* The log in memory starts right after the purge point, without gaps and with
\* one entry per index, after recovery from any mixture of segments too.
LogIsContiguous ==
  pc \notin {"closed", "refused"} =>
    /\ Indices(mem.log) = (mem.purged + 1) .. LastIndex
    /\ \A d, e \in mem.log : d.index = e.index => d = e

\* The state machine holds every command up to last_applied_log_id once and in
\* order, on disk too: a restart neither skips nor repeats one.
AppliedOnce ==
  \A s \in {mem.sm, json.sm} : s.cmds = [k \in 1 .. s.applied |-> k]

\* Entries leave the log only once the machine on disk contains them.
PurgedIsApplied == manifest.purged <= json.sm.applied

\* Every entry known to be committed is still in the log or in the machine.
CommittedIsKept ==
  pc = "idle" =>
    \A i \in 1 .. mem.committed : i <= mem.sm.applied \/ i \in Indices(mem.log)
=============================================================================

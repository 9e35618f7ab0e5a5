------------------------------ MODULE AofStore ------------------------------
(***************************************************************************)
(* The storage of the embedded engine: log.rs and snapshot.rs with the      *)
(* parts of engine.rs that use them (open, append, compact).                *)
(*                                                                         *)
(* EngineState is a fold of apply over the events, so a state is            *)
(* represented by the sequence of events it was built from.  A file is a    *)
(* sequence of pieces: a whole line, a line that misses only its newline    *)
(* ("bare"), a fragment of one, or a fragment that ends inside a multi-byte *)
(* character ("garbled").  Sizes in bytes are kept because                  *)
(* Snapshot::last_aof_offset is compared with them.                         *)
(*                                                                         *)
(* The process writes through a handle, not a name: after a rename its      *)
(* appends go to kron.aof.old until the log is opened again.                *)
(*                                                                         *)
(* A crash keeps what the completed system calls did, in order; the append  *)
(* it interrupts leaves any part of its line.  Snapshots are written to a   *)
(* temporary file and renamed, so they are there in full or not at all.     *)
(*                                                                         *)
(* append() checks nothing, and some of its writes go where load_state will *)
(* not look or cannot read.  The history variable harm records them, so     *)
(* that the properties can say exactly when acknowledged events are safe.   *)
(***************************************************************************)
EXTENDS Integers, SequencesExt

CONSTANTS
  Size,         \* Size[e]: bytes of the line of the e-th event, at least 2
  MaxCrashes,   \* bound on crashes
  MaxTorn,      \* bound on crashes that leave part of a line behind
  MaxErrors,    \* bound on failing appends
  MaxFails,     \* bound on compactions that return an error
  FailSteps,    \* steps of a compaction that may return an error
  Cuts          \* the forms of a line that was not written in full

Events == 1 .. Len(Size)

ASSUME SizeAssumption == Size \in Seq(Nat \ {0, 1})
ASSUME BoundsAssumption ==
  /\ MaxCrashes \in Nat /\ MaxTorn \in Nat /\ MaxErrors \in Nat /\ MaxFails \in Nat
  /\ FailSteps \subseteq {"unlink", "rename", "create", "reset", "reopen"}
  /\ Cuts \subseteq {"bare", "fragment", "garbled"}

VARIABLES
  aof, old,     \* kron.aof, kron.aof.old; NoFile when absent
  snap,         \* kron.snapshot; NoSnap when absent
  handle,       \* the file of Inner::log: kron.aof, kron.aof.old or an unlinked one
  mem,          \* the EngineState of the process
  pc,           \* where the process is
  offline,      \* compaction was started by the CLI on a closed directory
  issued,       \* events handed to append() so far
  acked,        \* events whose append() returned Ok
  failed,       \* events whose append() returned an error
  harm,         \* none; files: the process has written what a restart would not
                \* read back; lost: it ended before a compaction mended that
  crashes, torn, errors, fails

answers == <<issued, acked, failed>>
bounds == <<crashes, torn, errors, fails>>
vars == <<aof, old, snap, handle, mem, pc, offline, answers, harm, bounds>>

Piece  == [event: Events, form: {"line", "bare", "fragment", "garbled"}]
NoFile == << [event |-> 0, form |-> "absent"] >>
NoSnap == [state |-> << >>, offset |-> -1]

\* Snapshot::from_state
SnapshotOf(state, offset) == [state |-> state, offset |-> offset]

\* closed: no process; refused: Engine::open returned an error;
\* unlink .. reopen: steps of Engine::compact
Pcs == {"closed", "up", "refused", "unlink", "rename", "create", "reset", "reopen"}

TypeOK ==
  /\ aof \in Seq(Piece) \cup {NoFile} /\ old \in Seq(Piece) \cup {NoFile}
  /\ snap \in [state: Seq(Events), offset: Nat] \cup {NoSnap}
  /\ handle \in {"aof", "old", "unlinked"}
  /\ mem \in Seq(Events)
  /\ pc \in Pcs
  /\ offline \in BOOLEAN
  /\ issued \in Nat /\ acked \subseteq Events /\ failed \subseteq Events
  /\ harm \in {"none", "files", "lost"}
  /\ crashes \in Nat /\ torn \in Nat /\ errors \in Nat /\ fails \in Nat

-----------------------------------------------------------------------------
(* Reading files                                                           *)

Bytes(p) == IF p.form = "line" THEN Size[p.event]
            ELSE IF p.form = "bare" THEN Size[p.event] - 1
            ELSE Size[p.event] \div 2

\* The position in f after each of its pieces.
Ends(f) ==
  LET end[i \in 0 .. Len(f)] == IF i = 0 THEN 0 ELSE end[i - 1] + Bytes(f[i])
  IN end

FileLen(f) == IF f = NoFile THEN 0 ELSE Ends(f)[Len(f)]

Contents(f) == IF f = NoFile THEN << >> ELSE f

Failure == [ok |-> FALSE, events |-> << >>]

\* Mutant: an unfinished last line is fatal as well.
ReplayStrict(f) ==
  IF \E i \in 1 .. Len(f) : f[i].form # "line" THEN Failure
  ELSE [ok |-> TRUE, events |-> [i \in 1 .. Len(f) |-> f[i].event]]

\* replay_reader: a piece without its newline runs into the next one and the
\* line they make does not parse, which is fatal; only at the end of the file
\* is a fragment ignored, and a bare line parses.  lines() fails on bytes that
\* are not UTF-8, at the end of the file too.
Replay(f) ==
  IF \/ \E i \in 1 .. Len(f) - 1 : f[i].form # "line"
     \/ f # << >> /\ Last(f).form = "garbled"
  THEN Failure
  ELSE LET whole == IF f # << >> /\ Last(f).form = "fragment" THEN Front(f) ELSE f
       IN [ok |-> TRUE, events |-> [i \in 1 .. Len(whole) |-> whole[i].event]]

\* AppendOnlyLog::replay_from: an offset inside a line starts with a line
\* that does not parse.
ReplayFrom(f, offset) ==
  LET starts == {i \in 0 .. Len(f) : Ends(f)[i] = offset} IN
  IF offset >= FileLen(f) THEN [ok |-> TRUE, events |-> << >>]
  ELSE IF starts = {} THEN Failure
  ELSE LET i == CHOOSE j \in starts : TRUE IN Replay(SubSeq(f, i + 1, Len(f)))

\* Mutant: an interrupted rotation is not noticed.
LoadStateIgnoringOld(a, o, s) ==
  LET tail == ReplayFrom(Contents(a), s.offset) IN
  IF s = NoSnap THEN Replay(Contents(a))
  ELSE [ok |-> tail.ok, events |-> s.state \o tail.events]

\* snapshot::load_state
LoadState(a, o, s) ==
  LET tail == ReplayFrom(Contents(a), s.offset)
      rest == ReplayFrom(Contents(o), s.offset)
      new  == Replay(Contents(a))
  IN IF s = NoSnap THEN new
     ELSE IF s.offset > FileLen(a)
     THEN IF o = NoFile \/ ~rest.ok \/ ~new.ok THEN Failure
          ELSE [ok |-> TRUE, events |-> s.state \o rest.events \o new.events]
     ELSE [ok |-> tail.ok, events |-> s.state \o tail.events]

Loaded == LoadState(aof, old, snap)

-----------------------------------------------------------------------------
(* Engine::open, append, crash                                             *)

\* AppendOnlyLog::open creates the file before load_state reads it.
Open ==
  /\ pc = "closed"
  /\ aof' = Contents(aof)
  /\ pc' = IF Loaded.ok THEN "up" ELSE "refused"
  /\ handle' = "aof"
  /\ mem' = Loaded.events
  /\ UNCHANGED <<old, snap, offline, answers, harm, bounds>>

Unfinished(f) == f # << >> /\ Last(f).form # "line"

\* The writes after which a restart may not read back what the process has:
\* to a file that load_state does not read; behind an unfinished line, unless
\* load_state starts after it; past the length that an interrupted compaction
\* recorded for the file before, which load_state then takes for an offset in
\* the new one; and a cut that keeps the file from being read as text.
Harms(e, form) ==
  LET file == IF handle = "aof" THEN aof ELSE old
      end  == FileLen(aof) + Bytes([event |-> e, form |-> form])
  IN \/ handle = "unlinked"
     \/ handle = "old" /\ snap.offset <= FileLen(aof)
     \/ Unfinished(file) /\ FileLen(file) # snap.offset
     \/ handle = "aof" /\ FileLen(aof) < snap.offset /\ snap.offset <= end
     \/ form = "garbled"

\* The bytes that append() writes for e go to the file behind the handle.
Write(e, form) ==
  LET file == IF handle = "aof" THEN aof ELSE old
      add  == Append(file, [event |-> e, form |-> form])
  IN /\ pc = "up" /\ e \in Events
     /\ issued' = e
     /\ aof' = IF handle = "aof" THEN add ELSE aof
     /\ old' = IF handle = "old" THEN add ELSE old
     /\ UNCHANGED <<snap, offline>>

\* AppendOnlyLog::append: the line, fsync, then the caller applies the event.
AppendEvent ==
  LET e == issued + 1 IN
  /\ Write(e, "line")
  /\ acked' = acked \cup {e}
  /\ mem' = Append(mem, e)
  /\ harm' = IF harm = "none" /\ Harms(e, "line") THEN "files" ELSE harm
  /\ UNCHANGED <<handle, pc, failed, bounds>>

\* The process dies inside append: a part of the line or the whole line is in
\* the file and the caller has no answer.
AppendCrash ==
  LET e == issued + 1 IN
  /\ crashes < MaxCrashes /\ crashes' = crashes + 1
  /\ \E form \in {"line"} \cup Cuts :
       /\ Write(e, form)
       /\ form # "line" => torn < MaxTorn
       /\ torn' = IF form = "line" THEN torn ELSE torn + 1
       /\ harm' = IF harm = "none" /\ ~Harms(e, form) THEN "none" ELSE "lost"
  /\ pc' = "closed" /\ mem' = << >> /\ handle' = "aof"
  /\ UNCHANGED <<acked, failed, errors, fails>>

\* write_all fails half-way (disk full) or sync_data fails: schedule() returns
\* the error and the engine goes on with what is in its file.
AppendError ==
  LET e == issued + 1 IN
  /\ errors < MaxErrors /\ errors' = errors + 1
  /\ \E form \in {"line"} \cup Cuts :
       /\ Write(e, form)
       /\ harm' = IF harm = "none" /\ Harms(e, form) THEN "files" ELSE harm
  /\ failed' = failed \cup {e}
  /\ UNCHANGED <<handle, mem, pc, acked, crashes, torn, fails>>

\* The process ends at any other point; a CLI compaction is a process too.
Crash ==
  /\ pc \notin {"closed", "refused"} /\ crashes < MaxCrashes
  /\ crashes' = crashes + 1
  /\ harm' = IF harm = "files" THEN "lost" ELSE harm
  /\ pc' = "closed" /\ mem' = << >> /\ offline' = FALSE /\ handle' = "aof"
  /\ UNCHANGED <<aof, old, snap, answers, torn, errors, fails>>

-----------------------------------------------------------------------------
(* Engine::compact and snapshot::compact, one action per durable step       *)

\* compact_read_only: the CLI takes the lock and loads the state itself.
OfflineCompact ==
  /\ pc = "closed" /\ Loaded.ok
  /\ offline' = TRUE
  /\ mem' = Loaded.events
  /\ snap' = SnapshotOf(mem', FileLen(aof))
  /\ aof' = Contents(aof)
  /\ pc' = "unlink"
  /\ UNCHANGED <<old, handle, answers, harm, bounds>>

\* Mutant: the recorded offset points before the last byte.
CompactSnapshotShort ==
  /\ pc = "up"
  /\ snap' = SnapshotOf(mem, FileLen(aof) - 1)
  /\ pc' = IF aof = NoFile THEN "create" ELSE "unlink"
  /\ harm' = IF harm = "files" THEN "none" ELSE harm
  /\ UNCHANGED <<aof, old, handle, mem, offline, answers, bounds>>

\* write_snapshot_atomic(state, metadata(kron.aof).len()); without a kron.aof
\* there is nothing to rotate.  From here on the snapshot has all
\* that the process has, whatever was wrong with the files.
CompactSnapshot ==
  /\ pc = "up"
  /\ snap' = SnapshotOf(mem, FileLen(aof))
  /\ pc' = IF aof = NoFile THEN "create" ELSE "unlink"
  /\ harm' = IF harm = "files" THEN "none" ELSE harm
  /\ UNCHANGED <<aof, old, handle, mem, offline, answers, bounds>>

\* remove_file(kron.aof.old)
CompactUnlink ==
  /\ pc = "unlink"
  /\ old' = NoFile
  /\ handle' = IF handle = "old" THEN "unlinked" ELSE handle
  /\ pc' = "rename"
  /\ UNCHANGED <<aof, snap, mem, offline, answers, harm, bounds>>

\* rename(kron.aof, kron.aof.old)
CompactRename ==
  /\ pc = "rename"
  /\ old' = aof /\ aof' = NoFile
  /\ handle' = IF handle = "aof" THEN "old" ELSE handle
  /\ pc' = "create"
  /\ UNCHANGED <<snap, mem, offline, answers, harm, bounds>>

\* open(kron.aof, create, truncate), sync
CompactCreate ==
  /\ pc = "create"
  /\ aof' = << >>
  /\ pc' = "reset"
  /\ UNCHANGED <<old, snap, handle, mem, offline, answers, harm, bounds>>

\* write_snapshot_atomic(state, 0)
CompactReset ==
  /\ pc = "reset"
  /\ snap' = SnapshotOf(mem, 0)
  /\ pc' = "reopen"
  /\ UNCHANGED <<aof, old, handle, mem, offline, answers, harm, bounds>>

\* snapshot::compact returned; Engine::compact opens the log again.
CompactReopen ==
  /\ pc = "reopen"
  /\ pc' = IF offline THEN "closed" ELSE "up"
  /\ mem' = IF offline THEN << >> ELSE mem
  /\ handle' = "aof" /\ offline' = FALSE
  /\ UNCHANGED <<aof, old, snap, answers, harm, bounds>>

\* The next call of the compaction, or the directory sync that ends the last
\* one, returns an error: the engine goes on with the handle it has.
CompactFails ==
  /\ pc \in FailSteps /\ fails < MaxFails
  /\ fails' = fails + 1
  /\ pc' = IF offline THEN "closed" ELSE "up"
  /\ mem' = IF offline THEN << >> ELSE mem
  /\ handle' = IF offline THEN "aof" ELSE handle
  /\ offline' = FALSE
  /\ UNCHANGED <<aof, old, snap, answers, harm, crashes, torn, errors>>

-----------------------------------------------------------------------------
Init ==
  /\ aof = NoFile /\ old = NoFile /\ snap = NoSnap
  /\ handle = "aof" /\ mem = << >> /\ pc = "closed" /\ offline = FALSE
  /\ issued = 0 /\ acked = {} /\ failed = {} /\ harm = "none"
  /\ crashes = 0 /\ torn = 0 /\ errors = 0 /\ fails = 0

Next ==
  \/ Open \/ AppendEvent \/ AppendCrash \/ AppendError \/ Crash
  \/ OfflineCompact \/ CompactSnapshot \/ CompactUnlink \/ CompactRename
  \/ CompactCreate \/ CompactReset \/ CompactReopen \/ CompactFails

Spec == Init /\ [][Next]_vars

-----------------------------------------------------------------------------
(* Properties                                                              *)

InOrder(q) == \A i, j \in DOMAIN q : i < j => q[i] < q[j]

\* At every instant, in the middle of a compaction too, a restart would
\* succeed and give back every acknowledged event once and in order, unless a
\* write of the kinds in Harms came after the last compaction.  Even then the
\* running process has them all, and its next compaction makes them durable
\* again (append, load_state, snapshot::compact).
AckedRecoverable ==
  /\ harm = "none" =>
       Loaded.ok /\ acked \subseteq ToSet(Loaded.events) /\ InOrder(Loaded.events)
  /\ harm = "files" => acked \subseteq ToSet(mem) /\ InOrder(mem)

\* A crash tail never keeps the engine from opening.
NeverRefuses == pc # "refused"

\* What append() acknowledged is durable: a restart that succeeds replays it.
AckedIsDurable == Loaded.ok => acked \subseteq ToSet(Loaded.events)

\* The store keeps an append-only history until a process ends that has made a
\* write of the kinds in Harms and no compaction since: recovery, compaction,
\* crashes and errors never lose, repeat or reorder an event; one whose append
\* reported an error may turn up at a restart (refinement).
History == INSTANCE EventStore
             WITH history <- IF pc \in {"closed", "refused"} THEN Loaded.events ELSE mem,
                  confirmed <- acked, rejected <- failed, intact <- harm # "lost"
IsAppendOnlyHistory == History!Spec
=============================================================================

------------------------------ MODULE AuditLog ------------------------------
(***************************************************************************)
(* The hash-chained audit log of the server: audit.rs with the functions    *)
(* of runtime.rs that write it (authed, audit) and read it at startup       *)
(* (open).                                                                  *)
(*                                                                         *)
(* Every HTTP handler ends in audit(), which holds audit_state while it     *)
(* writes.  The record and its newline are two writes, so a file is a       *)
(* sequence of records that are whole lines, miss their newline ("bare"),   *)
(* are cut between two characters ("fragment") or inside one ("garbled").   *)
(* SHA-256 is taken to be collision-free: a hash is the content it was      *)
(* computed from, the hash before it included, so the whole chain up to it. *)
(***************************************************************************)
EXTENDS Naturals, SequencesExt

CONSTANTS
  Requests,     \* requests that clients make
  Outcomes,     \* what audit() records of them: ok, error, forbidden, unauthorized
  NoRequest,    \* not a request
  MaxCrashes,   \* bound on crashes of the server
  MaxErrors     \* bound on failing writes

ASSUME RequestAssumption == NoRequest \notin Requests \cup Outcomes
ASSUME BoundsAssumption == MaxCrashes \in Nat /\ MaxErrors \in Nat

VARIABLES
  file,         \* kron.audit.jsonl
  state,        \* audit_state: sequence number and hash of the last record
  pc,           \* the server: down, up, or refused (open returned an error)
  phase,        \* how far each request is
  outcome,      \* what was decided for it
  lock,         \* the request whose handler holds audit_state
  crashes, errors

vars == <<file, state, pc, phase, outcome, lock, crashes, errors>>

-----------------------------------------------------------------------------
(* Records                                                                 *)

Content == [seq: Nat, request: Requests, outcome: Outcomes]
Hash == Seq(Content)
NoHash == << >>

AuditRecord == [seq: Nat, request: Requests, outcome: Outcomes, prev: Hash, hash: Hash]
Piece == [rec: AuditRecord, form: {"line", "bare", "fragment", "garbled"}]
AuditState == [seq: Nat, hash: Hash]

\* compute_hash: over prev_hash and the record's own fields.
ComputeHash(r) ==
  Append(r.prev, [seq |-> r.seq, request |-> r.request, outcome |-> r.outcome])

\* audit(): the record that follows what audit_state says.
NextRecord(q) ==
  LET r == [seq |-> state.seq + 1, request |-> q, outcome |-> outcome[q],
            prev |-> state.hash, hash |-> NoHash]
  IN [r EXCEPT !.hash = ComputeHash(r)]

\* The records of a readable file; a cut one at its end is ignored.
Parsed(f) ==
  LET whole == IF f # << >> /\ Last(f).form = "fragment" THEN Len(f) - 1 ELSE Len(f)
  IN [i \in 1 .. whole |-> f[i].rec]

\* lines() fails on a character that is cut, and a record that continues an
\* unfinished line makes it invalid.
Readable(f) ==
  \A i \in 1 .. Len(f) : f[i].form # "garbled" /\ (i < Len(f) => f[i].form = "line")

\* Mutant: verify does not compare prev_hash.
VerifyWithoutPrev(f) ==
  /\ Readable(f)
  /\ LET rs == Parsed(f) IN
     \A i \in 1 .. Len(rs) : rs[i].seq = i /\ rs[i].hash = ComputeHash(rs[i])

\* verify; a cut record at the end of the file is ignored.
Verify(f) ==
  /\ Readable(f)
  /\ LET rs == Parsed(f) IN
     \A i \in 1 .. Len(rs) :
       /\ rs[i].seq = i
       /\ rs[i].prev = IF i = 1 THEN NoHash ELSE rs[i - 1].hash
       /\ rs[i].hash = ComputeHash(rs[i])

\* read_last_state_unverified
LastState(f) ==
  LET rs == Parsed(f) IN
  IF rs = << >> THEN [seq |-> 0, hash |-> NoHash]
  ELSE [seq |-> Last(rs).seq, hash |-> Last(rs).hash]

TypeOK ==
  /\ file \in Seq(Piece)
  /\ state \in AuditState
  /\ pc \in {"down", "up", "refused"}
  /\ phase \in [Requests -> {"new", "decided", "written", "ended", "answered",
                             "failed", "lost"}]
  /\ outcome \in [Requests -> Outcomes \cup {NoRequest}]
  /\ lock \in Requests \cup {NoRequest}
  /\ \A q \in Requests : lock = q <=> phase[q] \in {"written", "ended"}
  /\ crashes \in Nat /\ errors \in Nat

-----------------------------------------------------------------------------
(* The server                                                              *)

\* OpenRaftCluster::open, read_last_state
Open ==
  /\ pc = "down"
  /\ pc' = IF Verify(file) THEN "up" ELSE "refused"
  /\ state' = LastState(file)
  /\ UNCHANGED <<file, phase, outcome, lock, crashes, errors>>

\* Mutant: a refused request is answered without a record.
DecideAnswersRefusals(q, o) ==
  /\ pc = "up" /\ phase[q] = "new"
  /\ outcome' = [outcome EXCEPT ![q] = o]
  /\ phase' = [phase EXCEPT ![q] = IF o = "forbidden" THEN "answered" ELSE "decided"]
  /\ UNCHANGED <<file, state, pc, lock, crashes, errors>>

\* authed: authentication, the role, and if they allow it the operation.
Decide(q, o) ==
  /\ pc = "up" /\ phase[q] = "new"
  /\ outcome' = [outcome EXCEPT ![q] = o]
  /\ phase' = [phase EXCEPT ![q] = "decided"]
  /\ UNCHANGED <<file, state, pc, lock, crashes, errors>>

\* Mutant: audit_state is locked while the record is built and not longer.
WriteRecordUnlocked(q) ==
  /\ phase[q] = "decided" /\ lock = NoRequest
  /\ file' = Append(file, [rec |-> NextRecord(q), form |-> "bare"])
  /\ phase' = [phase EXCEPT ![q] = "written"]
  /\ UNCHANGED <<state, pc, outcome, lock, crashes, errors>>

\* audit(): lock audit_state, build the record, write it.
WriteRecord(q) ==
  /\ phase[q] = "decided" /\ lock = NoRequest
  /\ lock' = q
  /\ file' = Append(file, [rec |-> NextRecord(q), form |-> "bare"])
  /\ phase' = [phase EXCEPT ![q] = "written"]
  /\ UNCHANGED <<state, pc, outcome, crashes, errors>>

\* writeln!: the newline is a write of its own.
WriteNewline(q) ==
  /\ phase[q] = "written"
  /\ file' = [file EXCEPT ![Len(file)].form = "line"]
  /\ phase' = [phase EXCEPT ![q] = "ended"]
  /\ UNCHANGED <<state, pc, outcome, lock, crashes, errors>>

\* Mutant: audit_state keeps the hash of the record before.
SyncKeepsHash(q) ==
  /\ phase[q] = "ended"
  /\ state' = [state EXCEPT !.seq = Last(file).rec.seq]
  /\ phase' = [phase EXCEPT ![q] = "answered"] /\ lock' = NoRequest
  /\ UNCHANGED <<file, pc, outcome, crashes, errors>>

\* sync_data, audit_state takes over the record, the response is sent.
Sync(q) ==
  /\ phase[q] = "ended"
  /\ state' = [seq |-> Last(file).rec.seq, hash |-> Last(file).rec.hash]
  /\ phase' = [phase EXCEPT ![q] = "answered"] /\ lock' = NoRequest
  /\ UNCHANGED <<file, pc, outcome, crashes, errors>>

\* Part of a record reaches the file: the write is cut by an error or a crash.
CutRecord(q) ==
  /\ phase[q] = "decided" /\ lock = NoRequest
  /\ \E form \in {"fragment", "garbled"} :
       file' = Append(file, [rec |-> NextRecord(q), form |-> form])

\* Opening, writing, the newline or sync_data returns an error: audit_state
\* stays, the file keeps what it has, the response is audit_write_failed.
AuditFails(q) ==
  /\ errors < MaxErrors /\ errors' = errors + 1
  /\ \/ CutRecord(q)
     \/ phase[q] \in {"decided", "written", "ended"} /\ UNCHANGED file
  /\ phase' = [phase EXCEPT ![q] = "failed"]
  /\ lock' = IF lock = q THEN NoRequest ELSE lock
  /\ UNCHANGED <<state, pc, outcome, crashes>>

\* The server dies; clients of requests in progress get no answer.
Crash ==
  /\ pc = "up" /\ crashes < MaxCrashes /\ crashes' = crashes + 1
  /\ pc' = "down"
  /\ UNCHANGED file \/ \E q \in Requests : CutRecord(q)
  /\ phase' = [q \in Requests |->
                 IF phase[q] \in {"decided", "written", "ended"} THEN "lost" ELSE phase[q]]
  /\ lock' = NoRequest
  /\ UNCHANGED <<state, outcome, errors>>

-----------------------------------------------------------------------------
Init ==
  /\ file = << >> /\ state = [seq |-> 0, hash |-> NoHash] /\ pc = "down"
  /\ phase = [q \in Requests |-> "new"]
  /\ outcome = [q \in Requests |-> NoRequest]
  /\ lock = NoRequest /\ crashes = 0 /\ errors = 0

Next ==
  \/ Open \/ Crash
  \/ \E q \in Requests : \/ \E o \in Outcomes : Decide(q, o)
                         \/ WriteRecord(q) \/ WriteNewline(q) \/ Sync(q)
                         \/ AuditFails(q)

Spec == Init /\ [][Next]_vars

-----------------------------------------------------------------------------
(* Properties                                                              *)

\* No write was cut inside a character, and nothing was written after an
\* unfinished line or a failed write: only the last record may be one of those.
Sound ==
  \A i \in 1 .. Len(file) :
    /\ file[i].form # "garbled"
    /\ i < Len(file) => file[i].form = "line" /\ phase[file[i].rec.request] # "failed"

\* verify never reports TAMPERED for a log the server wrote, at any moment
\* and whatever crash or failing write came last, so the server opens again.
ChainVerifies == Sound => Verify(file)

\* A client that was answered finds its request in the log, once and with the
\* outcome it was told.
AnsweredIsRecorded ==
  Sound => \A q \in Requests :
    phase[q] = "answered" =>
      \E i \in 1 .. Len(Parsed(file)) :
        /\ Parsed(file)[i].outcome = outcome[q]
        /\ \A j \in 1 .. Len(Parsed(file)) : Parsed(file)[j].request = q <=> j = i

\* verify reports every record that is taken out of the middle of the log or
\* whose outcome is changed, also when the hash of that record is renewed.
ChangeIsDetected ==
  Verify(file) => \A i \in 1 .. Len(Parsed(file)) - 1 :
    /\ ~Verify(RemoveAt(file, i))
    /\ \A o \in Outcomes \ {file[i].rec.outcome} :
         LET edited == [file EXCEPT ![i].rec.outcome = o]
             rehashed == [edited EXCEPT ![i].rec.hash = ComputeHash(edited[i].rec)]
         IN ~Verify(edited) /\ ~Verify(rehashed)
=============================================================================

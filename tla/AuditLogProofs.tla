--------------------------- MODULE AuditLogProofs ---------------------------
(***************************************************************************)
(* Theorems about the audit log of a server, for any number of requests,   *)
(* outcomes, crashes and failing writes.                                    *)
(***************************************************************************)
EXTENDS AuditLog, SequenceTheorems, TLAPS

-----------------------------------------------------------------------------
(* Operators                                                               *)

\* How many records of a file can be read.
Whole(f) == IF f # << >> /\ f[Len(f)].form = "fragment" THEN Len(f) - 1 ELSE Len(f)

\* The records that can be read are those of the pieces, in order.
LEMMA ParsedIs ==
  ASSUME NEW f \in Seq(Piece)
  PROVE  /\ Whole(f) \in Nat /\ Whole(f) <= Len(f) /\ Len(f) <= Whole(f) + 1
         /\ Parsed(f) \in Seq(AuditRecord) /\ Len(Parsed(f)) = Whole(f)
         /\ \A i \in 1 .. Whole(f) : /\ f[i] \in Piece /\ f[i].rec \in AuditRecord
                                     /\ Parsed(f)[i] = f[i].rec
<1>1. Len(f) \in Nat /\ (f # << >> => Len(f) > 0) /\ \A i \in 1 .. Len(f) : f[i] \in Piece
  OBVIOUS
<1>2. Whole(f) \in Nat /\ Whole(f) <= Len(f) /\ Len(f) <= Whole(f) + 1
  BY <1>1 DEF Whole
<1>3. \A i \in 1 .. Whole(f) : f[i] \in Piece /\ f[i].rec \in AuditRecord
  BY <1>1, <1>2 DEF Piece
<1>4. Parsed(f) = [i \in 1 .. Whole(f) |-> f[i].rec]
  BY DEF Parsed, Whole, Last
<1>5. Parsed(f) \in Seq(AuditRecord) /\ Len(Parsed(f)) = Whole(f)
  <2> DEFINE n == Whole(f)
             r(i) == f[i].rec
  <2>1. n \in Nat /\ \A i \in 1 .. n : r(i) \in AuditRecord
    BY <1>2, <1>3
  <2>2. Parsed(f) = [i \in 1 .. n |-> r(i)]
    BY <1>4
  <2> HIDE DEF n, r
  <2>3. Parsed(f) \in Seq(AuditRecord) /\ Len(Parsed(f)) = n
    BY <2>1, <2>2
  <2> QED
    BY <2>3 DEF n
<1>6. \A i \in 1 .. Whole(f) : Parsed(f)[i] = f[i].rec
  BY <1>4
<1> QED
  BY <1>2, <1>3, <1>5, <1>6

\* verify, by the pieces of the file.
LEMMA VerifyIs ==
  ASSUME NEW f \in Seq(Piece)
  PROVE  Verify(f) <=>
           /\ \A i \in 1 .. Len(f) :
                f[i].form # "garbled" /\ (i < Len(f) => f[i].form = "line")
           /\ \A i \in 1 .. Whole(f) :
                /\ f[i].rec.seq = i
                /\ f[i].rec.prev = IF i = 1 THEN NoHash ELSE f[i - 1].rec.hash
                /\ f[i].rec.hash = ComputeHash(f[i].rec)
<1>1. Whole(f) \in Nat /\ Len(Parsed(f)) = Whole(f)
  BY ParsedIs
<1>2. \A i \in 1 .. Whole(f) : Parsed(f)[i] = f[i].rec
  BY ParsedIs
<1>3. \A i \in 1 .. Whole(f) : i # 1 => Parsed(f)[i - 1] = f[i - 1].rec
  BY <1>1, <1>2
<1>4. Verify(f) <=>
        /\ Readable(f)
        /\ \A i \in 1 .. Whole(f) :
             /\ f[i].rec.seq = i
             /\ f[i].rec.prev = IF i = 1 THEN NoHash ELSE f[i - 1].rec.hash
             /\ f[i].rec.hash = ComputeHash(f[i].rec)
  BY <1>1, <1>2, <1>3 DEF Verify
<1> QED
  BY <1>4, Zenon DEF Readable

\* read_last_state_unverified: the last record that can be read.
LEMMA LastStateIs ==
  ASSUME NEW f \in Seq(Piece)
  PROVE  /\ LastState(f) \in AuditState
         /\ Whole(f) = 0 => LastState(f) = [seq |-> 0, hash |-> NoHash]
         /\ Whole(f) # 0 => LastState(f) = [seq |-> f[Whole(f)].rec.seq,
                                            hash |-> f[Whole(f)].rec.hash]
<1>1. /\ Whole(f) \in Nat /\ Parsed(f) \in Seq(AuditRecord) /\ Len(Parsed(f)) = Whole(f)
  BY ParsedIs
<1>2. CASE Whole(f) = 0
  <2>1. Parsed(f) = << >>
    BY <1>1, <1>2
  <2>2. LastState(f) = [seq |-> 0, hash |-> NoHash]
    BY <2>1 DEF LastState
  <2> QED
    BY <1>2, <2>2 DEF AuditState, Hash, NoHash
<1>3. CASE Whole(f) # 0
  <2>1. Parsed(f) # << >> /\ Whole(f) \in 1 .. Whole(f)
    BY <1>1, <1>3
  <2>2. Last(Parsed(f)) = f[Whole(f)].rec /\ f[Whole(f)].rec \in AuditRecord
    BY <1>1, <2>1, ParsedIs DEF Last
  <2>3. LastState(f) = [seq |-> f[Whole(f)].rec.seq, hash |-> f[Whole(f)].rec.hash]
    BY <2>1, <2>2 DEF LastState
  <2> QED
    BY <1>3, <2>2, <2>3 DEF AuditState, AuditRecord
<1> QED
  BY <1>2, <1>3

-----------------------------------------------------------------------------
(* The inductive invariant: the record being written is the last piece of   *)
(* the file and its handler holds the lock, no request is recorded twice,   *)
(* and between two records audit_state is the last one of the file.         *)

\* The request whose record is being written.
Writing ==
  \A q \in Requests :
    /\ phase[q] \in {"decided", "written", "ended"} => pc = "up"
    /\ phase[q] # "new" => outcome[q] \in Outcomes
    /\ phase[q] \in {"written", "ended"} =>
         /\ lock = q
         /\ file # << >> /\ Last(file).rec.request = q
         /\ Last(file).form = IF phase[q] = "written" THEN "bare" ELSE "line"

Recorded ==
  /\ \A i \in 1 .. Len(file) :
       /\ phase[file[i].rec.request] \notin {"new", "decided"}
       /\ file[i].rec.outcome = outcome[file[i].rec.request]
  /\ \A i, j \in 1 .. Len(file) : file[i].rec.request = file[j].rec.request => i = j
  /\ \A q \in Requests : phase[q] = "answered" =>
       \E i \in 1 .. Len(file) : file[i].rec.request = q /\ file[i].form = "line"

\* No record is being written and the last one was neither cut nor failed.
Settled ==
  file = << >> \/ /\ Last(file).form = "line"
                  /\ phase[Last(file).rec.request] \in {"answered", "lost"}

Chained == Sound => Verify(file) /\ (pc = "up" /\ Settled => state = LastState(file))

AuditInv == TypeOK /\ Writing /\ Recorded /\ Chained

\* The record audit() builds, in the file after those that are there.
LEMMA Appended ==
  ASSUME AuditInv, NEW q \in Requests, NEW form \in {"bare", "fragment", "garbled"},
         phase[q] = "decided",
         file' = Append(file, [rec |-> NextRecord(q), form |-> form])
  PROVE  /\ file' \in Seq(Piece) /\ Len(file) \in Nat /\ Len(file') = Len(file) + 1
         /\ \A i \in 1 .. Len(file) : file'[i] = file[i] /\ file[i] \in Piece
         /\ file'[Len(file) + 1] = [rec |-> NextRecord(q), form |-> form]
         /\ NextRecord(q).seq = state.seq + 1 /\ NextRecord(q).prev = state.hash
         /\ NextRecord(q).request = q /\ NextRecord(q).outcome = outcome[q]
         /\ NextRecord(q).hash = ComputeHash(NextRecord(q))
         /\ \A i \in 1 .. Len(file) : file[i].rec.request # q
<1>1. outcome[q] \in Outcomes /\ state.seq \in Nat /\ state.hash \in Hash
  BY DEF AuditInv, Writing, TypeOK, AuditState
<1>2. /\ NextRecord(q).seq = state.seq + 1 /\ NextRecord(q).prev = state.hash
      /\ NextRecord(q).request = q /\ NextRecord(q).outcome = outcome[q]
      /\ NextRecord(q).hash = ComputeHash(NextRecord(q))
  BY DEF NextRecord, ComputeHash
<1>3. NextRecord(q) \in AuditRecord
  <2> DEFINE r == [seq |-> state.seq + 1, request |-> q, outcome |-> outcome[q],
                   prev |-> state.hash, hash |-> NoHash]
             c == [seq |-> r.seq, request |-> r.request, outcome |-> r.outcome]
  <2>1. r \in AuditRecord /\ r.prev \in Seq(Content)
    BY <1>1 DEF AuditRecord, Hash, NoHash
  <2>2. NextRecord(q) = [r EXCEPT !.hash = Append(r.prev, c)]
    BY DEF NextRecord, ComputeHash
  <2>3. c \in Content
    BY <1>1 DEF Content
  <2> HIDE DEF r, c
  <2>4. Append(r.prev, c) \in Hash
    BY <2>1, <2>3 DEF Hash
  <2> QED
    BY <2>1, <2>2, <2>4 DEF AuditRecord
<1> DEFINE piece == [rec |-> NextRecord(q), form |-> form]
<1>4. piece \in Piece
  BY <1>3 DEF Piece
<1>5. file \in Seq(Piece)
  BY DEF AuditInv, TypeOK
<1>6. \A i \in 1 .. Len(file) : file[i].rec.request # q
  BY DEF AuditInv, Recorded
<1> HIDE DEF piece
<1>7. /\ file' \in Seq(Piece) /\ Len(file) \in Nat /\ Len(file') = Len(file) + 1
      /\ \A i \in 1 .. Len(file) : file'[i] = file[i] /\ file[i] \in Piece
      /\ file'[Len(file) + 1] = piece
  BY <1>4, <1>5 DEF piece
<1> QED
  BY <1>2, <1>6, <1>7 DEF piece

\* Requests of records that are in the file; one handler writes at a time.
LEMMA OneWriter ==
  ASSUME AuditInv
  PROVE  /\ file \in Seq(Piece) /\ Len(file) \in Nat
         /\ \A i \in 1 .. Len(file) :
              /\ file[i] \in Piece /\ file[i].rec \in AuditRecord
              /\ file[i].rec.request \in Requests
              /\ phase[file[i].rec.request] \notin {"new", "decided"}
         /\ \A q, r \in Requests : phase[q] \in {"written", "ended"}
              /\ phase[r] \in {"written", "ended"} => q = r
         /\ lock = NoRequest => \A q \in Requests : phase[q] \notin {"written", "ended"}
<1>1. file \in Seq(Piece)
  BY DEF AuditInv, TypeOK
<1>2. \A i \in 1 .. Len(file) : /\ file[i] \in Piece /\ file[i].rec \in AuditRecord
                                /\ file[i].rec.request \in Requests
  <2>1. \A i \in 1 .. Len(file) : file[i] \in Piece
    BY <1>1
  <2>2. \A p \in Piece : p.rec \in AuditRecord
    BY DEF Piece
  <2>3. \A r \in AuditRecord : r.request \in Requests
    BY DEF AuditRecord
  <2> QED
    BY <2>1, <2>2, <2>3
<1>3. \A q \in Requests : phase[q] \in {"written", "ended"} => lock = q
  BY DEF AuditInv, Writing
<1>4. NoRequest \notin Requests
  BY RequestAssumption
<1> QED
  BY <1>1, <1>2, <1>3, <1>4 DEF AuditInv, Recorded

\* A record appended to a sound file continues its chain.
LEMMA AppendChains ==
  ASSUME AuditInv, NEW q \in Requests, NEW form \in {"bare", "fragment", "garbled"},
         phase[q] = "decided", lock = NoRequest,
         file' = Append(file, [rec |-> NextRecord(q), form |-> form]),
         \A r \in Requests : phase[r] = "failed" => phase'[r] = "failed",
         Sound'
  PROVE  Verify(file')
<1> DEFINE n == Len(file)
<1>1. /\ file' \in Seq(Piece) /\ n \in Nat /\ Len(file') = n + 1
      /\ \A i \in 1 .. n : file'[i] = file[i]
      /\ file'[n + 1] = [rec |-> NextRecord(q), form |-> form]
      /\ NextRecord(q).seq = state.seq + 1 /\ NextRecord(q).prev = state.hash
      /\ NextRecord(q).hash = ComputeHash(NextRecord(q))
  BY Appended
<1>2. file \in Seq(Piece) /\ \A i \in 1 .. n : file[i].rec.request \in Requests
  BY OneWriter
<1>3. \A i \in 1 .. n : file[i].form = "line" /\ phase[file[i].rec.request] # "failed"
  <2> SUFFICES ASSUME NEW i \in 1 .. n
               PROVE  file[i].form = "line" /\ phase[file[i].rec.request] # "failed"
    OBVIOUS
  <2>1. i \in 1 .. Len(file') /\ i < Len(file')
    BY <1>1
  <2>2. file'[i].form = "line" /\ phase'[file'[i].rec.request] # "failed"
    BY <2>1 DEF Sound
  <2> QED
    BY <1>1, <1>2, <2>2
<1>4. Sound
  BY <1>1, <1>3 DEF Sound
<1>5. Settled
  <2> SUFFICES ASSUME n > 0
               PROVE  /\ Last(file).form = "line"
                      /\ phase[Last(file).rec.request] \in {"answered", "lost"}
    BY <1>1, <1>2 DEF Settled
  <2>1. n \in 1 .. n /\ Last(file) = file[n]
    BY <1>1 DEF Last
  <2>2. file[n].rec.request \in Requests /\ phase \in [Requests -> {"new", "decided",
          "written", "ended", "answered", "failed", "lost"}]
    BY <1>2, <2>1 DEF AuditInv, TypeOK
  <2>3. phase[file[n].rec.request] \notin {"new", "decided", "written", "ended", "failed"}
    BY <1>3, <2>1, <2>2, OneWriter
  <2> QED
    BY <1>3, <2>1, <2>2, <2>3
<1>6. pc = "up"
  BY DEF AuditInv, Writing
<1>7. Verify(file) /\ state = LastState(file)
  BY <1>4, <1>5, <1>6 DEF AuditInv, Chained
<1>8. Whole(file) = n
  <2>1. CASE n = 0
    BY <1>2, <2>1 DEF Whole
  <2>2. CASE n > 0
    <3>1. file[n].form = "line"
      BY <1>1, <1>3, <2>2
    <3> QED
      BY <3>1 DEF Whole
  <2> QED
    BY <1>1, <2>1, <2>2
<1>9. \A i \in 1 .. n : /\ file[i].rec.seq = i
                        /\ file[i].rec.prev = IF i = 1 THEN NoHash ELSE file[i - 1].rec.hash
                        /\ file[i].rec.hash = ComputeHash(file[i].rec)
  <2>1. \A i \in 1 .. Whole(file) :
          /\ file[i].rec.seq = i
          /\ file[i].rec.prev = IF i = 1 THEN NoHash ELSE file[i - 1].rec.hash
          /\ file[i].rec.hash = ComputeHash(file[i].rec)
    BY <1>2, <1>7, VerifyIs, Zenon
  <2> QED
    BY <1>8, <2>1, Zenon
<1>10. state.seq = n /\ state.hash = IF n = 0 THEN NoHash ELSE file[n].rec.hash
  <2>1. CASE n = 0
    <3>1. state = [seq |-> 0, hash |-> NoHash]
      BY <1>2, <1>7, <1>8, <2>1, LastStateIs
    <3> QED
      BY <2>1, <3>1
  <2>2. CASE n # 0
    <3>1. state = [seq |-> file[n].rec.seq, hash |-> file[n].rec.hash]
      BY <1>2, <1>7, <1>8, <2>2, LastStateIs
    <3>2. n \in 1 .. n
      BY <1>1, <2>2
    <3> QED
      BY <1>9, <2>2, <3>1, <3>2
  <2> QED
    BY <2>1, <2>2
<1>11. \A i \in 1 .. n + 1 :
         /\ file'[i].rec.seq = i
         /\ file'[i].rec.prev = IF i = 1 THEN NoHash ELSE file'[i - 1].rec.hash
         /\ file'[i].rec.hash = ComputeHash(file'[i].rec)
  <2> SUFFICES ASSUME NEW i \in 1 .. n + 1
               PROVE  /\ file'[i].rec.seq = i
                      /\ file'[i].rec.prev = IF i = 1 THEN NoHash ELSE file'[i - 1].rec.hash
                      /\ file'[i].rec.hash = ComputeHash(file'[i].rec)
    OBVIOUS
  <2>1. CASE i \in 1 .. n
    <3>1. i # 1 => i - 1 \in 1 .. n
      BY <1>1, <2>1
    <3>2. file'[i] = file[i] /\ (i # 1 => file'[i - 1] = file[i - 1])
      BY <1>1, <2>1, <3>1
    <3> QED
      BY <1>9, <2>1, <3>2
  <2>2. CASE i = n + 1
    <3>1. file'[i].rec = NextRecord(q)
      BY <1>1, <2>2
    <3>2. i # 1 => n \in 1 .. n /\ file'[i - 1] = file[n]
      BY <1>1, <2>2
    <3>3. i = 1 <=> n = 0
      BY <1>1, <2>2
    <3>4. file'[i].rec.prev = IF i = 1 THEN NoHash ELSE file'[i - 1].rec.hash
      BY <1>1, <1>10, <3>1, <3>2, <3>3
    <3> QED
      BY <1>1, <1>10, <2>2, <3>1, <3>4
  <2> QED
    BY <1>1, <2>1, <2>2
<1>12. \A i \in 1 .. Len(file') :
         file'[i].form # "garbled" /\ (i < Len(file') => file'[i].form = "line")
  BY DEF Sound
<1>13. Whole(file') \in Nat /\ Whole(file') <= n + 1
  BY <1>1, ParsedIs
<1>14. \A i \in 1 .. Whole(file') : i \in 1 .. n + 1
  BY <1>1, <1>13
<1> QED
  BY <1>1, <1>11, <1>12, <1>14, VerifyIs

\* The newline completes the last piece and changes nothing else.
LEMMA LineEnded ==
  ASSUME AuditInv, NEW q \in Requests, WriteNewline(q)
  PROVE  /\ file' \in Seq(Piece) /\ Len(file) \in Nat /\ Len(file) > 0
         /\ Len(file') = Len(file)
         /\ \A i \in 1 .. Len(file) : file'[i].rec = file[i].rec
         /\ \A i \in 1 .. Len(file) - 1 : file'[i] = file[i]
         /\ file[Len(file)].rec.request = q
         /\ file[Len(file)].form = "bare" /\ file'[Len(file)].form = "line"
<1> DEFINE n == Len(file)
           last == [file[n] EXCEPT !.form = "line"]
<1>1. file \in Seq(Piece) /\ n \in Nat /\ file # << >> /\ phase[q] = "written"
  BY DEF AuditInv, TypeOK, Writing, WriteNewline
<1>2. Last(file).rec.request = q /\ Last(file).form = "bare"
  BY <1>1 DEF AuditInv, Writing
<1>3. n > 0 /\ n \in 1 .. n /\ file[n] \in Piece /\ Last(file) = file[n]
  BY <1>1 DEF Last
<1>4. last \in Piece /\ last.rec = file[n].rec /\ last.form = "line"
  BY <1>3 DEF Piece
<1>5. file' = [file EXCEPT ![n] = last]
  BY DEF WriteNewline
<1> HIDE DEF last
<1>6. /\ file' \in Seq(Piece) /\ Len(file') = n /\ file'[n] = last
      /\ \A i \in 1 .. n : i # n => file'[i] = file[i]
  BY <1>1, <1>3, <1>4, <1>5
<1>7. \A i \in 1 .. n - 1 : i \in 1 .. n /\ i # n
  BY <1>1
<1> QED
  BY <1>1, <1>2, <1>3, <1>4, <1>6, <1>7

\* audit() keeps its promises about types ...
LEMMA StepType ==
  ASSUME AuditInv, [Next]_vars
  PROVE  TypeOK'
<1>1. TypeOK /\ NoRequest \notin Requests
  BY RequestAssumption DEF AuditInv
<1> USE BoundsAssumption
<1>2. CASE Open
  BY <1>1, <1>2, LastStateIs DEF Open, TypeOK
<1>3. ASSUME NEW q \in Requests, NEW o \in Outcomes, Decide(q, o) PROVE TypeOK'
  BY <1>1, <1>3 DEF Decide, TypeOK
<1>4. ASSUME NEW q \in Requests, WriteRecord(q) PROVE TypeOK'
  <2>1. file' \in Seq(Piece)
    BY <1>4, Appended DEF WriteRecord
  <2>2. \A r \in Requests : phase[r] \notin {"written", "ended"}
    BY <1>4, OneWriter DEF WriteRecord
  <2> QED
    BY <1>1, <1>4, <2>1, <2>2 DEF WriteRecord, TypeOK
<1>5. ASSUME NEW q \in Requests, WriteNewline(q) PROVE TypeOK'
  <2>1. file' \in Seq(Piece)
    BY <1>5, LineEnded
  <2> QED
    BY <1>1, <1>5, <2>1 DEF WriteNewline, TypeOK
<1>6. ASSUME NEW q \in Requests, Sync(q) PROVE TypeOK'
  <2>1. file # << >> /\ file \in Seq(Piece)
    BY <1>6 DEF AuditInv, Writing, TypeOK, Sync
  <2>2. Last(file) \in Piece
    BY <2>1 DEF Last
  <2>3. Last(file).rec.seq \in Nat /\ Last(file).rec.hash \in Hash
    BY <2>2 DEF Piece, AuditRecord
  <2>4. state' \in AuditState
    BY <1>6, <2>3 DEF Sync, AuditState
  <2> QED
    BY <1>1, <1>6, <2>4 DEF Sync, TypeOK
<1>7. ASSUME NEW q \in Requests, AuditFails(q) PROVE TypeOK'
  <2>1. file' \in Seq(Piece)
    BY <1>1, <1>7, Appended DEF AuditFails, CutRecord, TypeOK
  <2> QED
    BY <1>1, <1>7, <2>1 DEF AuditFails, TypeOK
<1>8. CASE Crash
  <2>1. file' \in Seq(Piece)
    BY <1>1, <1>8, Appended DEF Crash, CutRecord, TypeOK
  <2> QED
    BY <1>1, <1>8, <2>1 DEF Crash, TypeOK
<1>9. CASE UNCHANGED vars
  BY <1>1, <1>9 DEF vars, TypeOK
<1> QED
  BY <1>2, <1>3, <1>4, <1>5, <1>6, <1>7, <1>8, <1>9 DEF Next

\* ... about the handler that writes ...
LEMMA StepWriting ==
  ASSUME AuditInv, [Next]_vars
  PROVE  Writing'
<1>1. TypeOK /\ Writing /\ NoRequest \notin Requests
  BY RequestAssumption DEF AuditInv
<1>2. CASE Open
  BY <1>1, <1>2 DEF Open, Writing
<1>3. ASSUME NEW q \in Requests, NEW o \in Outcomes, Decide(q, o) PROVE Writing'
  BY <1>1, <1>3 DEF Decide, Writing, TypeOK
<1>4. ASSUME NEW q \in Requests, WriteRecord(q) PROVE Writing'
  <2>1. /\ Len(file) \in Nat /\ Len(file') = Len(file) + 1 /\ file' \in Seq(Piece)
        /\ file'[Len(file) + 1] = [rec |-> NextRecord(q), form |-> "bare"]
        /\ NextRecord(q).request = q
    BY <1>4, Appended DEF WriteRecord
  <2>2. Last(file').rec.request = q /\ Last(file').form = "bare" /\ file' # << >>
    BY <2>1 DEF Last
  <2>3. /\ phase[q] = "decided" /\ lock = NoRequest /\ lock' = q
        /\ phase' = [phase EXCEPT ![q] = "written"] /\ UNCHANGED <<pc, outcome>>
    BY <1>4 DEF WriteRecord
  <2>4. \A r \in Requests : phase[r] \notin {"written", "ended"}
    BY <2>3, OneWriter
  <2>5. phase'[q] = "written" /\ \A r \in Requests : r # q => phase'[r] = phase[r]
    BY <1>1, <2>3 DEF TypeOK
  <2> QED
    BY <1>1, <2>2, <2>3, <2>4, <2>5 DEF Writing
<1>5. ASSUME NEW q \in Requests, WriteNewline(q) PROVE Writing'
  <2>1. /\ file' \in Seq(Piece) /\ Len(file') = Len(file) /\ Len(file) > 0 /\ Len(file) \in Nat
        /\ file'[Len(file)].rec = file[Len(file)].rec /\ file[Len(file)].rec.request = q
        /\ file'[Len(file)].form = "line"
    BY <1>5, LineEnded
  <2>2. Last(file').rec.request = q /\ Last(file').form = "line" /\ file' # << >>
    BY <2>1 DEF Last
  <2>3. /\ phase[q] = "written" /\ phase' = [phase EXCEPT ![q] = "ended"]
        /\ UNCHANGED <<pc, outcome, lock>>
    BY <1>5 DEF WriteNewline
  <2>4. \A r \in Requests : phase[r] \in {"written", "ended"} => r = q
    BY <2>3, OneWriter
  <2>5. phase'[q] = "ended" /\ \A r \in Requests : r # q => phase'[r] = phase[r]
    BY <1>1, <2>3 DEF TypeOK
  <2> QED
    BY <1>1, <2>2, <2>3, <2>4, <2>5 DEF Writing
<1>6. ASSUME NEW q \in Requests, Sync(q) PROVE Writing'
  <2>1. /\ phase[q] = "ended" /\ phase' = [phase EXCEPT ![q] = "answered"]
        /\ UNCHANGED <<pc, outcome>>
    BY <1>6 DEF Sync
  <2>2. \A r \in Requests : phase[r] \in {"written", "ended"} => r = q
    BY <2>1, OneWriter
  <2>3. phase'[q] = "answered" /\ \A r \in Requests : r # q => phase'[r] = phase[r]
    BY <1>1, <2>1 DEF TypeOK
  <2> QED
    BY <1>1, <2>1, <2>2, <2>3 DEF Writing
<1>7. ASSUME NEW q \in Requests, AuditFails(q) PROVE Writing'
  <2>1. /\ phase[q] \in {"decided", "written", "ended"} /\ UNCHANGED <<pc, outcome>>
        /\ phase' = [phase EXCEPT ![q] = "failed"]
        /\ lock' = IF lock = q THEN NoRequest ELSE lock
        /\ file' = file \/ lock = NoRequest
    BY <1>7 DEF AuditFails, CutRecord
  <2>2. phase'[q] = "failed" /\ \A r \in Requests : r # q => phase'[r] = phase[r]
    BY <1>1, <2>1 DEF TypeOK
  <2>3. CASE lock = NoRequest \/ lock = q
    <3>1. \A r \in Requests : r # q => phase[r] \notin {"written", "ended"}
      BY <1>1, <2>3 DEF Writing
    <3> QED
      BY <1>1, <2>1, <2>2, <3>1 DEF Writing
  <2>4. CASE lock # NoRequest /\ lock # q
    BY <1>1, <2>1, <2>2, <2>4 DEF Writing
  <2> QED
    BY <2>3, <2>4
<1>8. CASE Crash
  <2>1. \A r \in Requests : phase'[r] \notin {"decided", "written", "ended"}
    BY <1>1, <1>8 DEF Crash, TypeOK
  <2>2. \A r \in Requests : phase'[r] # "new" => phase[r] # "new"
    BY <1>1, <1>8 DEF Crash, TypeOK
  <2> QED
    BY <1>1, <1>8, <2>1, <2>2 DEF Crash, Writing
<1>9. CASE UNCHANGED vars
  BY <1>1, <1>9 DEF vars, Writing
<1> QED
  BY <1>2, <1>3, <1>4, <1>5, <1>6, <1>7, <1>8, <1>9 DEF Next

\* A piece more, of a request that has none.
LEMMA AppendRecorded ==
  ASSUME AuditInv, NEW q \in Requests, NEW form \in {"bare", "fragment", "garbled"},
         phase[q] = "decided",
         file' = Append(file, [rec |-> NextRecord(q), form |-> form]),
         outcome' = outcome, phase'[q] \notin {"new", "decided"},
         \A r \in Requests : r # q /\ phase'[r] \in {"new", "decided"}
                               => phase[r] \in {"new", "decided"},
         \A r \in Requests : phase'[r] = "answered" => phase[r] = "answered"
  PROVE  Recorded'
<1> DEFINE n == Len(file)
<1>1. /\ n \in Nat /\ Len(file') = n + 1
      /\ \A i \in 1 .. n : file'[i] = file[i]
      /\ file'[n + 1] = [rec |-> NextRecord(q), form |-> form]
      /\ NextRecord(q).request = q /\ NextRecord(q).outcome = outcome[q]
      /\ \A i \in 1 .. n : file[i].rec.request # q
  BY Appended
<1>2. file'[n + 1].rec.request = q /\ file'[n + 1].rec.outcome = outcome[q]
  BY <1>1
<1>3. \A i \in 1 .. Len(file') : i \in 1 .. n \/ i = n + 1
  BY <1>1
<1>4. \A i \in 1 .. n : /\ file[i].rec.request \in Requests
                        /\ phase[file[i].rec.request] \notin {"new", "decided"}
                        /\ file[i].rec.outcome = outcome[file[i].rec.request]
  BY OneWriter DEF AuditInv, Recorded
<1>5. ASSUME NEW i \in 1 .. Len(file')
      PROVE  /\ phase'[file'[i].rec.request] \notin {"new", "decided"}
             /\ file'[i].rec.outcome = outcome[file'[i].rec.request]
  BY <1>1, <1>2, <1>3, <1>4
<1>6. ASSUME NEW i \in 1 .. Len(file'), NEW j \in 1 .. Len(file'),
             file'[i].rec.request = file'[j].rec.request
      PROVE  i = j
  BY <1>1, <1>2, <1>3, <1>6 DEF AuditInv, Recorded
<1>7. ASSUME NEW r \in Requests, phase'[r] = "answered"
      PROVE  \E i \in 1 .. Len(file') : file'[i].rec.request = r /\ file'[i].form = "line"
  <2>1. PICK i \in 1 .. n : file[i].rec.request = r /\ file[i].form = "line"
    BY <1>7 DEF AuditInv, Recorded
  <2>2. i \in 1 .. Len(file') /\ file'[i] = file[i]
    BY <1>1
  <2> QED
    BY <2>1, <2>2
<1> QED
  BY <1>5, <1>6, <1>7 DEF Recorded

\* ... about what is recorded ...
LEMMA StepRecorded ==
  ASSUME AuditInv, [Next]_vars
  PROVE  Recorded'
<1>1. TypeOK /\ Writing /\ Recorded
  BY DEF AuditInv
<1>2. \A i \in 1 .. Len(file) : /\ file[i].rec.request \in Requests
                                /\ phase[file[i].rec.request] \notin {"new", "decided"}
  BY OneWriter
<1>3. CASE Open \/ UNCHANGED vars
  BY <1>1, <1>3 DEF Open, Recorded, vars
<1>4. ASSUME NEW q \in Requests, NEW o \in Outcomes, Decide(q, o) PROVE Recorded'
  <2>1. /\ file' = file /\ phase[q] = "new" /\ phase'[q] = "decided"
        /\ \A r \in Requests : r # q => phase'[r] = phase[r] /\ outcome'[r] = outcome[r]
    BY <1>1, <1>4 DEF Decide, TypeOK
  <2>2. \A i \in 1 .. Len(file) : file[i].rec.request # q
    BY <1>2, <2>1
  <2> QED
    BY <1>1, <1>2, <2>1, <2>2 DEF Recorded
<1>5. ASSUME NEW q \in Requests, WriteRecord(q) PROVE Recorded'
  <2>1. /\ phase[q] = "decided" /\ outcome' = outcome /\ phase'[q] = "written"
        /\ file' = Append(file, [rec |-> NextRecord(q), form |-> "bare"])
        /\ \A r \in Requests : r # q => phase'[r] = phase[r]
    BY <1>1, <1>5 DEF WriteRecord, TypeOK
  <2> QED
    BY <2>1, AppendRecorded
<1>6. ASSUME NEW q \in Requests, WriteNewline(q) PROVE Recorded'
  <2>1. /\ Len(file') = Len(file) /\ Len(file) \in Nat
        /\ \A i \in 1 .. Len(file) : file'[i].rec = file[i].rec
        /\ \A i \in 1 .. Len(file) - 1 : file'[i] = file[i]
        /\ file'[Len(file)].form = "line"
    BY <1>6, LineEnded
  <2>2. outcome' = outcome /\ phase'[q] = "ended" /\ \A r \in Requests : r # q => phase'[r] = phase[r]
    BY <1>1, <1>6 DEF WriteNewline, TypeOK
  <2>3. \A i \in 1 .. Len(file) : file[i].form = "line" => file'[i].form = "line"
    BY <2>1
  <2>4. ASSUME NEW r \in Requests, phase'[r] = "answered"
        PROVE  \E i \in 1 .. Len(file') : file'[i].rec.request = r /\ file'[i].form = "line"
    <3>1. PICK i \in 1 .. Len(file) : file[i].rec.request = r /\ file[i].form = "line"
      BY <1>1, <2>2, <2>4 DEF Recorded
    <3> QED
      BY <2>1, <2>3, <3>1
  <2>5. ASSUME NEW i \in 1 .. Len(file')
        PROVE  /\ phase'[file'[i].rec.request] \notin {"new", "decided"}
               /\ file'[i].rec.outcome = outcome'[file'[i].rec.request]
    BY <1>1, <1>2, <2>1, <2>2 DEF Recorded
  <2>6. \A i, j \in 1 .. Len(file') : file'[i].rec.request = file'[j].rec.request => i = j
    BY <1>1, <2>1 DEF Recorded
  <2> QED
    BY <2>4, <2>5, <2>6 DEF Recorded
<1>7. ASSUME NEW q \in Requests, Sync(q) PROVE Recorded'
  <2>1. /\ file' = file /\ outcome' = outcome /\ phase[q] = "ended" /\ phase'[q] = "answered"
        /\ \A r \in Requests : r # q => phase'[r] = phase[r]
    BY <1>1, <1>7 DEF Sync, TypeOK
  <2>2. file # << >> /\ Last(file).rec.request = q /\ Last(file).form = "line"
    BY <1>1, <2>1 DEF Writing
  <2>3. Len(file) \in 1 .. Len(file) /\ Last(file) = file[Len(file)]
    BY <1>1, <2>2 DEF TypeOK, Last
  <2>4. ASSUME NEW r \in Requests, phase'[r] = "answered"
        PROVE  \E i \in 1 .. Len(file) : file[i].rec.request = r /\ file[i].form = "line"
    BY <1>1, <2>1, <2>2, <2>3, <2>4 DEF Recorded
  <2> QED
    BY <1>1, <1>2, <2>1, <2>4 DEF Recorded
<1>8. ASSUME NEW q \in Requests, AuditFails(q) PROVE Recorded'
  <2>1. /\ outcome' = outcome /\ phase'[q] = "failed"
        /\ \A r \in Requests : r # q => phase'[r] = phase[r]
    BY <1>1, <1>8 DEF AuditFails, TypeOK
  <2>2. CASE CutRecord(q)
    BY <2>1, <2>2, AppendRecorded DEF CutRecord
  <2>3. CASE file' = file
    BY <1>1, <1>2, <2>1, <2>3 DEF Recorded
  <2> QED
    BY <1>8, <2>2, <2>3 DEF AuditFails
<1>9. CASE Crash
  <2>1. /\ outcome' = outcome
        /\ \A r \in Requests : phase'[r] = IF phase[r] \in {"decided", "written", "ended"}
                                             THEN "lost" ELSE phase[r]
    BY <1>9 DEF Crash
  <2>2. ASSUME NEW q \in Requests, CutRecord(q) PROVE Recorded'
    BY <2>1, <2>2, AppendRecorded DEF CutRecord
  <2>3. CASE file' = file
    BY <1>1, <1>2, <2>1, <2>3 DEF Recorded
  <2> QED
    BY <1>9, <2>2, <2>3 DEF Crash
<1> QED
  BY <1>3, <1>4, <1>5, <1>6, <1>7, <1>8, <1>9 DEF Next

\* The soundness of an unchanged file is not regained.
LEMMA SoundBefore ==
  ASSUME AuditInv, file' = file, Sound',
         \A r \in Requests : phase[r] = "failed" => phase'[r] = "failed"
  PROVE  Sound
BY OneWriter DEF Sound

\* ... and about the chain.
LEMMA StepChained ==
  ASSUME AuditInv, [Next]_vars
  PROVE  Chained'
<1> SUFFICES ASSUME Sound'
             PROVE  Verify(file') /\ (pc' = "up" /\ Settled' => state' = LastState(file'))
  BY DEF Chained
<1>1. TypeOK /\ Writing /\ Recorded /\ Chained
  BY DEF AuditInv
<1>2. \A i \in 1 .. Len(file) : /\ file[i].rec.request \in Requests
                                /\ phase[file[i].rec.request] \notin {"new", "decided"}
  BY OneWriter
<1>3. file # << >> => Len(file) \in 1 .. Len(file) /\ Last(file) = file[Len(file)]
  BY <1>1 DEF TypeOK, Last
<1>4. CASE Open
  <2>1. Verify(file) /\ file' = file /\ state' = LastState(file)
    BY <1>1, <1>4, SoundBefore DEF Open, Chained
  <2> QED
    BY <2>1
<1>5. ASSUME NEW q \in Requests, NEW o \in Outcomes, Decide(q, o)
      PROVE  Verify(file') /\ (pc' = "up" /\ Settled' => state' = LastState(file'))
  <2>1. /\ file' = file /\ state' = state /\ pc' = pc
        /\ phase[q] = "new" /\ phase'[q] = "decided"
        /\ \A r \in Requests : r # q => phase'[r] = phase[r]
    BY <1>1, <1>5 DEF Decide, TypeOK
  <2>2. Sound
    BY <2>1, SoundBefore
  <2>3. Settled' => Settled
    BY <1>2, <1>3, <2>1 DEF Settled
  <2> QED
    BY <1>1, <2>1, <2>2, <2>3 DEF Chained
<1>6. ASSUME NEW q \in Requests, WriteRecord(q)
      PROVE  Verify(file') /\ (pc' = "up" /\ Settled' => state' = LastState(file'))
  <2>1. /\ phase[q] = "decided" /\ lock = NoRequest /\ phase'[q] = "written"
        /\ file' = Append(file, [rec |-> NextRecord(q), form |-> "bare"])
        /\ \A r \in Requests : r # q => phase'[r] = phase[r]
    BY <1>1, <1>6 DEF WriteRecord, TypeOK
  <2>2. Verify(file')
    BY <2>1, AppendChains
  <2>3. /\ Len(file) \in Nat /\ Len(file') = Len(file) + 1 /\ file' \in Seq(Piece)
        /\ file'[Len(file) + 1] = [rec |-> NextRecord(q), form |-> "bare"]
    BY <2>1, Appended
  <2>4. ~Settled'
    BY <2>3 DEF Settled, Last
  <2> QED
    BY <2>2, <2>4
<1>7. ASSUME NEW q \in Requests, WriteNewline(q)
      PROVE  Verify(file') /\ (pc' = "up" /\ Settled' => state' = LastState(file'))
  <2> DEFINE n == Len(file)
  <2>1. /\ file' \in Seq(Piece) /\ Len(file') = n /\ n \in Nat /\ n > 0
        /\ \A i \in 1 .. n : file'[i].rec = file[i].rec
        /\ \A i \in 1 .. n - 1 : file'[i] = file[i]
        /\ file[n].form = "bare" /\ file'[n].form = "line" /\ file[n].rec.request = q
    BY <1>7, LineEnded
  <2>2. phase'[q] = "ended" /\ \A r \in Requests : r # q => phase'[r] = phase[r]
    BY <1>1, <1>7 DEF WriteNewline, TypeOK
  <2>3. phase[q] = "written"
    BY <1>7 DEF WriteNewline
  <2>4. Sound
    <3> SUFFICES ASSUME NEW i \in 1 .. n - 1
                 PROVE  file[i].form = "line" /\ phase[file[i].rec.request] # "failed"
      BY <2>1 DEF Sound
    <3>1. file'[i] = file[i] /\ file'[i].form = "line"
          /\ phase'[file'[i].rec.request] # "failed"
      BY <2>1 DEF Sound
    <3>2. file[i].rec.request \in Requests
      BY <1>2, <2>1
    <3> QED
      BY <2>2, <2>3, <3>1, <3>2
  <2>5. file \in Seq(Piece) /\ Verify(file)
    BY <1>1, <2>4 DEF TypeOK, Chained
  <2>6. Whole(file) = n /\ Whole(file') = n
    BY <2>1 DEF Whole
  <2>7. \A i \in 1 .. Whole(file) :
          /\ file[i].rec.seq = i
          /\ file[i].rec.prev = IF i = 1 THEN NoHash ELSE file[i - 1].rec.hash
          /\ file[i].rec.hash = ComputeHash(file[i].rec)
    BY <2>5, VerifyIs, Zenon
  <2>8. ASSUME NEW i \in 1 .. Whole(file')
        PROVE  /\ file'[i].rec.seq = i
               /\ file'[i].rec.prev = IF i = 1 THEN NoHash ELSE file'[i - 1].rec.hash
               /\ file'[i].rec.hash = ComputeHash(file'[i].rec)
    <3>1. i \in 1 .. n /\ i \in 1 .. Whole(file) /\ (i # 1 => i - 1 \in 1 .. n)
      BY <2>1, <2>6
    <3>2. file'[i].rec = file[i].rec /\ (i # 1 => file'[i - 1].rec = file[i - 1].rec)
      BY <2>1, <3>1
    <3> QED
      BY <2>7, <3>1, <3>2
  <2>9. \A i \in 1 .. Len(file') :
          file'[i].form # "garbled" /\ (i < Len(file') => file'[i].form = "line")
    BY DEF Sound
  <2>10. Verify(file')
    BY <2>1, <2>8, <2>9, VerifyIs
  <2>11. ~Settled'
    BY <2>1, <2>2 DEF Settled, Last
  <2> QED
    BY <2>10, <2>11
<1>8. ASSUME NEW q \in Requests, Sync(q)
      PROVE  Verify(file') /\ (pc' = "up" /\ Settled' => state' = LastState(file'))
  <2>1. /\ file' = file /\ phase[q] = "ended"
        /\ state' = [seq |-> Last(file).rec.seq, hash |-> Last(file).rec.hash]
        /\ phase'[q] = "answered" /\ \A r \in Requests : r # q => phase'[r] = phase[r]
    BY <1>1, <1>8 DEF Sync, TypeOK
  <2>2. Verify(file)
    BY <1>1, <2>1, SoundBefore DEF Chained
  <2>3. file # << >> /\ Last(file).form = "line" /\ file \in Seq(Piece)
    BY <1>1, <2>1 DEF Writing, TypeOK
  <2>4. Whole(file) = Len(file) /\ Len(file) # 0
    BY <1>3, <2>3 DEF Whole
  <2>5. LastState(file) = [seq |-> file[Len(file)].rec.seq, hash |-> file[Len(file)].rec.hash]
    BY <2>3, <2>4, LastStateIs
  <2> QED
    BY <1>3, <2>1, <2>2, <2>3, <2>5
<1>9. ASSUME NEW q \in Requests, AuditFails(q)
      PROVE  Verify(file') /\ (pc' = "up" /\ Settled' => state' = LastState(file'))
  <2>1. /\ phase'[q] = "failed" /\ state' = state /\ pc' = pc
        /\ \A r \in Requests : r # q => phase'[r] = phase[r]
    BY <1>1, <1>9 DEF AuditFails, TypeOK
  <2>2. CASE CutRecord(q)
    <3>1. Verify(file')
      BY <2>1, <2>2, AppendChains DEF CutRecord
    <3>2. /\ Len(file) \in Nat /\ Len(file') = Len(file) + 1 /\ file' \in Seq(Piece)
          /\ file'[Len(file) + 1].form \in {"fragment", "garbled"}
      <4>1. PICK form \in {"fragment", "garbled"} :
              file' = Append(file, [rec |-> NextRecord(q), form |-> form])
        BY <2>2 DEF CutRecord
      <4>2. phase[q] = "decided"
        BY <2>2 DEF CutRecord
      <4>3. /\ Len(file) \in Nat /\ Len(file') = Len(file) + 1 /\ file' \in Seq(Piece)
            /\ file'[Len(file) + 1] = [rec |-> NextRecord(q), form |-> form]
        BY <4>1, <4>2, Appended
      <4> QED
        BY <4>3
    <3>3. ~Settled'
      BY <3>2 DEF Settled, Last
    <3> QED
      BY <3>1, <3>3
  <2>3. CASE file' = file
    <3>1. Sound
      BY <2>1, <2>3, SoundBefore
    <3>2. Settled' => Settled
      BY <1>2, <1>3, <2>1, <2>3 DEF Settled
    <3> QED
      BY <1>1, <2>1, <2>3, <3>1, <3>2 DEF Chained
  <2> QED
    BY <1>9, <2>2, <2>3 DEF AuditFails
<1>10. CASE Crash
  <2>1. /\ pc' = "down"
        /\ \A r \in Requests : phase'[r] = IF phase[r] \in {"decided", "written", "ended"}
                                             THEN "lost" ELSE phase[r]
    BY <1>10 DEF Crash
  <2>2. ASSUME NEW q \in Requests, CutRecord(q) PROVE Verify(file')
    BY <2>1, <2>2, AppendChains DEF CutRecord
  <2>3. CASE file' = file
    <3>1. Sound
      BY <2>1, <2>3, SoundBefore
    <3> QED
      BY <1>1, <2>3, <3>1, <2>1 DEF Chained
  <2> QED
    BY <1>10, <2>1, <2>2, <2>3 DEF Crash
<1>11. CASE UNCHANGED vars
  <2>1. Sound /\ (Settled' => Settled)
    BY <1>11 DEF vars, Sound, Settled
  <2> QED
    BY <1>1, <1>11, <2>1 DEF vars, Chained
<1> QED
  BY <1>4, <1>5, <1>6, <1>7, <1>8, <1>9, <1>10, <1>11 DEF Next

-----------------------------------------------------------------------------
(* Theorems                                                                *)

\* An empty log verifies.
LEMMA InitAudit == ASSUME Init PROVE AuditInv
<1>1. file = << >> /\ file \in Seq(Piece) /\ Len(file) = 0
  BY DEF Init
<1>2. state \in AuditState
  BY DEF Init, AuditState, Hash, NoHash
<1>3. TypeOK
  <2>1. lock = NoRequest /\ \A q \in Requests : phase[q] = "new" /\ lock # q
    BY RequestAssumption DEF Init
  <2>2. /\ phase \in [Requests -> {"new", "decided", "written", "ended", "answered",
                                  "failed", "lost"}]
        /\ outcome \in [Requests -> Outcomes \cup {NoRequest}]
    BY DEF Init
  <2> QED
    BY <1>1, <1>2, <2>1, <2>2 DEF Init, TypeOK
<1>4. Writing /\ Recorded
  BY <1>1 DEF Init, Writing, Recorded
<1>5. Whole(file) = 0
  BY <1>1 DEF Whole
<1>6. Verify(file)
  <2>1. (\A i \in 1 .. Len(file) : FALSE) /\ (\A i \in 1 .. Whole(file) : FALSE)
    BY <1>1, <1>5
  <2> QED
    BY <1>1, <2>1, VerifyIs
<1>7. Chained
  BY <1>6 DEF Init, Chained
<1> QED
  BY <1>3, <1>4, <1>7 DEF AuditInv

\* What the theorems below rest on.
LEMMA AuditInvariant == Spec => []AuditInv
<1>1. Init => AuditInv
  BY InitAudit
<1>2. AuditInv /\ [Next]_vars => AuditInv'
  BY StepType, StepWriting, StepRecorded, StepChained DEF AuditInv
<1> QED
  BY <1>1, <1>2, PTL DEF Spec

\* The file is a sequence of records, cut or whole, and audit_state is locked
\* exactly while a handler is between its write and its sync_data.
THEOREM TypeSafe == Spec => []TypeOK
<1>1. AuditInv => TypeOK
  BY DEF AuditInv
<1> QED
  BY <1>1, AuditInvariant, PTL

\* verify accepts what the server wrote, whatever crash or failing write came
\* last.
THEOREM ChainSafe == Spec => []ChainVerifies
<1>1. AuditInv => ChainVerifies
  BY DEF AuditInv, Chained, ChainVerifies
<1> QED
  BY <1>1, AuditInvariant, PTL

\* An answered request is in the log once, with its outcome.
THEOREM AnsweredSafe == Spec => []AnsweredIsRecorded
<1>1. AuditInv => AnsweredIsRecorded
  <2> SUFFICES ASSUME AuditInv, NEW q \in Requests, phase[q] = "answered"
               PROVE  \E i \in 1 .. Len(Parsed(file)) :
                        /\ Parsed(file)[i].outcome = outcome[q]
                        /\ \A j \in 1 .. Len(Parsed(file)) : Parsed(file)[j].request = q <=> j = i
    BY DEF AnsweredIsRecorded
  <2>1. PICK i \in 1 .. Len(file) : file[i].rec.request = q /\ file[i].form = "line"
    BY DEF AuditInv, Recorded
  <2>2. /\ Whole(file) \in Nat /\ Whole(file) <= Len(file) /\ Len(file) <= Whole(file) + 1
        /\ Len(Parsed(file)) = Whole(file)
        /\ \A j \in 1 .. Whole(file) : Parsed(file)[j] = file[j].rec
    BY ParsedIs DEF AuditInv, TypeOK
  <2>3. Len(file) \in Nat /\ file \in Seq(Piece)
    BY OneWriter
  <2>4. i \in 1 .. Whole(file)
    <3>1. CASE i = Len(file)
      <4>1. Whole(file) = Len(file)
        BY <2>1, <3>1 DEF Whole
      <4> QED
        BY <2>3, <3>1, <4>1
    <3>2. CASE i # Len(file)
      BY <2>1, <2>2, <2>3, <3>2
    <3> QED
      BY <3>1, <3>2
  <2>5. Parsed(file)[i].outcome = outcome[q]
    BY <2>1, <2>2, <2>4 DEF AuditInv, Recorded
  <2>6. ASSUME NEW j \in 1 .. Whole(file) PROVE Parsed(file)[j].request = q <=> j = i
    <3>1. j \in 1 .. Len(file)
      BY <2>2, <2>3
    <3> QED
      BY <2>1, <2>2, <3>1 DEF AuditInv, Recorded
  <2> QED
    BY <2>2, <2>4, <2>5, <2>6
<1> QED
  BY <1>1, AuditInvariant, PTL

\* A file that verify accepts, with the record at i, before the last, replaced:
\* verify rejects it if the hash does not fit the record or the next record.
LEMMA ReplacedIsDetected ==
  ASSUME NEW f \in Seq(Piece), Verify(f), NEW i \in 1 .. Whole(f) - 1,
         NEW p \in Piece, NEW g, g = [f EXCEPT ![i] = p],
         p.rec.hash # ComputeHash(p.rec) \/ p.rec.hash # f[i].rec.hash
  PROVE  ~Verify(g)
<1>1. Whole(f) \in Nat /\ Whole(f) <= Len(f) /\ Len(f) \in Nat
  BY ParsedIs
<1>2. i \in 1 .. Len(f) /\ i + 1 \in 1 .. Len(f) /\ i # Len(f) /\ i + 1 # 1 /\ i + 1 # i
  BY <1>1
<1>3. /\ g \in Seq(Piece) /\ Len(g) = Len(f) /\ g[i] = p
      /\ \A j \in 1 .. Len(f) : j # i => g[j] = f[j]
  BY <1>2
<1>4. Len(f) \in 1 .. Len(f)
  BY <1>1, <1>2
<1>5. g[Len(f)] = f[Len(f)] /\ f # << >> /\ g # << >>
  BY <1>2, <1>3, <1>4
<1>6. Whole(g) = Whole(f)
  BY <1>3, <1>5 DEF Whole
<1>7. i \in 1 .. Whole(g) /\ i + 1 \in 1 .. Whole(f) /\ i + 1 \in 1 .. Whole(g)
  BY <1>1, <1>6
<1>8. f[i + 1].rec.prev = f[i].rec.hash
  <2>1. f[i + 1].rec.prev = IF i + 1 = 1 THEN NoHash ELSE f[(i + 1) - 1].rec.hash
    BY <1>7, VerifyIs
  <2>2. (i + 1) - 1 = i
    OBVIOUS
  <2> QED
    BY <1>2, <2>1, <2>2
<1> SUFFICES ASSUME Verify(g) PROVE FALSE
  OBVIOUS
<1>9. g[i].rec.hash = ComputeHash(g[i].rec)
  BY <1>3, <1>7, VerifyIs
<1>10. g[i + 1].rec.prev = g[i].rec.hash
  <2>1. g[i + 1].rec.prev = IF i + 1 = 1 THEN NoHash ELSE g[(i + 1) - 1].rec.hash
    BY <1>3, <1>7, VerifyIs
  <2>2. (i + 1) - 1 = i
    OBVIOUS
  <2> QED
    BY <1>2, <2>1, <2>2
<1>11. g[i + 1] = f[i + 1]
  BY <1>2, <1>3
<1> QED
  BY <1>3, <1>8, <1>9, <1>10, <1>11

\* A file that verify accepts, without the record at i, before the last.
LEMMA RemovedIsDetected ==
  ASSUME NEW f \in Seq(Piece), Verify(f), NEW i \in 1 .. Whole(f) - 1
  PROVE  ~Verify(RemoveAt(f, i))
<1> DEFINE g == RemoveAt(f, i)
           a == SubSeq(f, 1, i - 1)
           b == SubSeq(f, i + 1, Len(f))
<1>1. Whole(f) \in Nat /\ Whole(f) <= Len(f) /\ Len(f) \in Nat /\ i \in Nat /\ i >= 1
      /\ i + 1 <= Whole(f)
  BY ParsedIs
<1>2. a \in Seq(Piece) /\ Len(a) = i - 1
  BY <1>1
<1>3. b \in Seq(Piece) /\ Len(b) = Len(f) - i /\ \A j \in 1 .. Len(f) - i : b[j] = f[i + j]
  BY <1>1
<1>4. g = a \o b
  BY DEF RemoveAt
<1> HIDE DEF a, b, g
<1>5. g \in Seq(Piece) /\ Len(g) = Len(f) - 1
  <2>1. g \in Seq(Piece) /\ Len(g) = Len(a) + Len(b)
    BY <1>2, <1>3, <1>4, ConcatProperties
  <2> QED
    BY <1>1, <1>2, <1>3, <2>1
<1>6. g[i] = b[1] /\ g[Len(g)] = b[Len(f) - i]
  <2>1. \A k \in 1 .. Len(b) : g[Len(a) + k] = b[k]
    BY <1>2, <1>3, <1>4
  <2>2. /\ 1 \in 1 .. Len(b) /\ Len(b) \in 1 .. Len(b)
        /\ Len(a) + 1 = i /\ Len(a) + Len(b) = Len(g) /\ Len(b) = Len(f) - i
    BY <1>1, <1>2, <1>3, <1>5
  <2> QED
    BY <2>1, <2>2
<1>7. g[i] = f[i + 1] /\ g[Len(g)] = f[Len(f)]
  <2>1. 1 \in 1 .. Len(f) - i /\ Len(f) - i \in 1 .. Len(f) - i /\ i + (Len(f) - i) = Len(f)
    BY <1>1
  <2> QED
    BY <1>3, <1>6, <2>1
<1>8. f # << >> /\ g # << >>
  BY <1>1, <1>5
<1>9. Whole(g) = Whole(f) - 1
  BY <1>1, <1>5, <1>7, <1>8 DEF Whole
<1>10. i \in 1 .. Whole(g) /\ i + 1 \in 1 .. Whole(f)
  BY <1>1, <1>9
<1>11. f[i + 1].rec.seq = i + 1
  BY <1>10, VerifyIs
<1>12. Verify(g) => g[i].rec.seq = i
  BY <1>5, <1>10, VerifyIs
<1> QED
  BY <1>1, <1>7, <1>11, <1>12 DEF g

\* verify reports a record that is taken out before the last one or whose
\* outcome is changed, with its hash renewed or not.
THEOREM ChangeSafe == Spec => []ChangeIsDetected
<1>1. AuditInv => ChangeIsDetected
  <2> SUFFICES ASSUME AuditInv, Verify(file), NEW i \in 1 .. Len(Parsed(file)) - 1
               PROVE  /\ ~Verify(RemoveAt(file, i))
                      /\ \A o \in Outcomes \ {file[i].rec.outcome} :
                           LET edited == [file EXCEPT ![i].rec.outcome = o]
                               rehashed == [edited EXCEPT ![i].rec.hash = ComputeHash(edited[i].rec)]
                           IN ~Verify(edited) /\ ~Verify(rehashed)
    BY DEF ChangeIsDetected
  <2>1. file \in Seq(Piece) /\ Whole(file) \in Nat /\ Whole(file) <= Len(file)
        /\ Len(Parsed(file)) = Whole(file) /\ Len(file) \in Nat
    BY OneWriter, ParsedIs
  <2>2. i \in 1 .. Whole(file) - 1 /\ i \in 1 .. Whole(file) /\ i \in 1 .. Len(file)
    BY <2>1
  <2>3. ~Verify(RemoveAt(file, i))
    BY <2>1, <2>2, RemovedIsDetected
  <2>4. ASSUME NEW o \in Outcomes \ {file[i].rec.outcome}
        PROVE  LET edited == [file EXCEPT ![i].rec.outcome = o]
                   rehashed == [edited EXCEPT ![i].rec.hash = ComputeHash(edited[i].rec)]
               IN ~Verify(edited) /\ ~Verify(rehashed)
    <3> DEFINE edited == [file EXCEPT ![i].rec.outcome = o]
               rehashed == [edited EXCEPT ![i].rec.hash = ComputeHash(edited[i].rec)]
               r == [file[i].rec EXCEPT !.outcome = o]
               p == [file[i] EXCEPT !.rec = r]
               r2 == [r EXCEPT !.hash = ComputeHash(r)]
               p2 == [p EXCEPT !.rec = r2]
    <3>1. file[i] \in Piece /\ file[i].rec \in AuditRecord
      BY <2>2, OneWriter
    <3>2. /\ r \in AuditRecord /\ r.outcome = o /\ r.hash = file[i].rec.hash
      BY <3>1 DEF AuditRecord
    <3>3. ComputeHash(r) \in Hash /\ Last(ComputeHash(r)).outcome = o
      <4>1. r.prev \in Seq(Content)
        BY <3>2 DEF AuditRecord, Hash
      <4>2. [seq |-> r.seq, request |-> r.request, outcome |-> r.outcome] \in Content
        BY <3>2 DEF AuditRecord, Content
      <4> HIDE DEF r
      <4> QED
        BY <3>2, <4>1, <4>2 DEF ComputeHash, Hash, Last
    <3>4. r2 \in AuditRecord /\ r2.hash = ComputeHash(r)
      <4> HIDE DEF r
      <4> QED
        BY <3>2, <3>3 DEF AuditRecord
    <3>5. p \in Piece /\ p.rec = r
      <4> HIDE DEF r
      <4> QED
        BY <3>1, <3>2 DEF Piece
    <3>6. p2 \in Piece /\ p2.rec = r2
      <4> HIDE DEF p, r2
      <4> QED
        BY <3>4, <3>5 DEF Piece
    <3>7. file[i].rec.hash = ComputeHash(file[i].rec)
      BY <2>1, <2>2, VerifyIs
    <3>8. Last(file[i].rec.hash).outcome # o
      <4>1. file[i].rec.prev \in Seq(Content)
        BY <3>1 DEF AuditRecord, Hash
      <4> QED
        BY <3>7, <4>1 DEF ComputeHash, Last
    <3>9. edited = [file EXCEPT ![i] = p]
      OBVIOUS
    <3>10. p.rec.hash # ComputeHash(p.rec)
      BY <3>2, <3>3, <3>5, <3>8
    <3>11. ~Verify(edited)
      <4> HIDE DEF edited, p
      <4> QED
        BY <2>1, <2>2, <3>5, <3>9, <3>10, ReplacedIsDetected
    <3>12. edited[i] = p
      <4> HIDE DEF edited, p
      <4> QED
        BY <2>1, <2>2, <3>5, <3>9
    <3>13. rehashed = [edited EXCEPT ![i] = p2]
      <4> HIDE DEF edited, p, r, r2
      <4> QED
        BY <3>5, <3>12 DEF r2
    <3>14. [edited EXCEPT ![i] = p2] = [file EXCEPT ![i] = p2]
      <4> HIDE DEF edited, p, p2
      <4> QED
        BY <2>1, <2>2, <3>5, <3>6, <3>9
    <3>15. p2.rec.hash # file[i].rec.hash
      BY <3>3, <3>4, <3>6, <3>8
    <3>16. ~Verify(rehashed)
      <4> HIDE DEF edited, p, p2, rehashed
      <4> QED
        BY <2>1, <2>2, <3>6, <3>13, <3>14, <3>15, ReplacedIsDetected
    <3> QED
      BY <3>11, <3>16
  <2> QED
    BY <2>3, <2>4
<1> QED
  BY <1>1, AuditInvariant, PTL
=============================================================================

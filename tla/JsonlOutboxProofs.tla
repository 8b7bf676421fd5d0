------------------------- MODULE JsonlOutboxProofs -------------------------
(***************************************************************************)
(* Proofs about JsonlOutbox, for any set of writers, event ids and         *)
(* contents, with and without an event id, and any number of short writes, *)
(* dying processes and power losses.                                       *)
(***************************************************************************)
EXTENDS JsonlOutbox, SequenceTheorems, FiniteSetTheorems, TLAPS

-----------------------------------------------------------------------------
(* Files *)

\* What the audit file looks like between two system calls.
IsFile(f) ==
    /\ f \in Seq(Line)
    /\ \A i \in 1 .. Len(f) - 1 : f[i].ended
    /\ \A i \in 1 .. Len(f) : f[i].rec = Garbled => i = Len(f) /\ ~f[i].ended
    /\ \A i, j \in 1 .. Len(f) :
          (HasId(f[i].rec) /\ f[i].rec.event_id = f[j].rec.event_id) => i = j

\* Record r is among the first n lines of f.
Holds(f, n, r) == \E i \in 1 .. n : f[i].rec = r

\* The lines of f with record r among the first n, and how many they are.
Lines(f, n, r) == {i \in 1 .. n : f[i].rec = r}
Count(f, n, r) == Cardinality(Lines(f, n, r))

LEMMA GarbledFacts ==
    /\ Garbled \notin Record
    /\ ~HasId(Garbled)
    /\ \A r \in Record : r # Garbled
  BY GarbledAssumption DEF Garbled, Record, Call, HasId

LEMMA CountType ==
    ASSUME NEW f, NEW n \in Nat, NEW r
    PROVE  IsFiniteSet(Lines(f, n, r)) /\ Count(f, n, r) \in Nat
  <1>1. IsFiniteSet(1 .. n)
    BY FS_Interval
  <1>2. Lines(f, n, r) \in SUBSET (1 .. n)
    BY DEF Lines
  <1>3. IsFiniteSet(Lines(f, n, r))
    BY <1>1, <1>2, FS_Subset
  <1> QED
    BY <1>3, FS_CardinalityType DEF Count

\* A file whose first n lines are kept has at least their copies of a record.
LEMMA CountKept ==
    ASSUME NEW f, NEW g, NEW n \in Nat, NEW m \in Nat, n <= m, NEW r,
           \A i \in 1 .. n : g[i].rec = f[i].rec
    PROVE  Count(f, n, r) <= Count(g, m, r)
  <1>1. IsFiniteSet(Lines(g, m, r))
    BY CountType
  <1>2. Lines(f, n, r) \in SUBSET Lines(g, m, r)
    BY DEF Lines
  <1> QED
    BY <1>1, <1>2, FS_Subset DEF Count

\* One more line of a record is one more copy.
LEMMA CountMore ==
    ASSUME NEW f, NEW g, NEW n \in Nat, NEW m \in Nat, n < m, NEW r,
           \A i \in 1 .. n : g[i].rec = f[i].rec, m \in Lines(g, m, r)
    PROVE  Count(f, n, r) < Count(g, m, r)
  <1>1. IsFiniteSet(Lines(g, m, r)) /\ Count(g, m, r) \in Nat /\ Count(f, n, r) \in Nat
    BY CountType
  <1>2. /\ Lines(f, n, r) \in SUBSET Lines(g, m, r)
        /\ m \notin Lines(f, n, r)
    BY DEF Lines
  <1>3. Count(f, n, r) <= Count(g, m, r) /\ Count(f, n, r) # Count(g, m, r)
    BY <1>1, <1>2, FS_Subset DEF Count
  <1> QED
    BY <1>1, <1>3

LEMMA FileFacts ==
    ASSUME NEW f \in Seq(Line)
    PROVE  /\ Len(f) \in Nat
           /\ \A i \in 1 .. Len(f) : /\ f[i] \in Line
                                     /\ f[i].rec \in Record \cup {Garbled}
                                     /\ f[i].ended \in BOOLEAN
           /\ f = <<>> <=> Len(f) = 0
  <1>1. Len(f) \in Nat /\ \A i \in 1 .. Len(f) : f[i] \in Line
    BY LenProperties, ElementOfSeq
  <1>2. f = <<>> <=> Len(f) = 0
    BY EmptySeq
  <1> QED
    BY <1>1, <1>2 DEF Line

\* Appending behind a readable, ended file keeps it a file, whether the new line
\* is a record with a new event id or none, or a torn fragment.
LEMMA AppendFile ==
    ASSUME NEW f, IsFile(f), LastEnded(f), ~Malformed(f),
           NEW line \in Line,
           line.rec = Garbled => ~line.ended,
           HasId(line.rec) => \A i \in 1 .. Len(f) : f[i].rec.event_id # line.rec.event_id
    PROVE  /\ IsFile(AppendBytes(f, line))
           /\ Len(AppendBytes(f, line)) = Len(f) + 1
           /\ \A i \in 1 .. Len(f) : AppendBytes(f, line)[i] = f[i]
           /\ AppendBytes(f, line)[Len(f) + 1] = line
  <1> DEFINE g == Append(f, line)
  <1>1. f \in Seq(Line)
    BY DEF IsFile
  <1>2. /\ g \in Seq(Line)
        /\ Len(g) = Len(f) + 1
        /\ \A i \in 1 .. Len(f) : g[i] = f[i]
        /\ g[Len(f) + 1] = line
    BY <1>1, AppendProperties
  <1>3. AppendBytes(f, line) = g
    BY DEF AppendBytes
  <1>4. Len(f) \in Nat /\ \A i \in 1 .. Len(f) : f[i].rec \in Record
    BY <1>1, FileFacts DEF Malformed
  <1>5. \A i \in 1 .. Len(f) : f[i].ended
    BY <1>1, <1>4, FileFacts DEF IsFile, LastEnded
  <1>6. line.rec \in Record \cup {Garbled}
    BY DEF Line
  <1> HIDE DEF g
  <1>7. \A i \in 1 .. Len(g) - 1 : g[i].ended
    BY <1>2, <1>4, <1>5
  <1>8. \A i \in 1 .. Len(g) : g[i].rec = Garbled => i = Len(g) /\ ~g[i].ended
    BY <1>2, <1>4, GarbledFacts
  <1>9. \A i, j \in 1 .. Len(g) :
            (HasId(g[i].rec) /\ g[i].rec.event_id = g[j].rec.event_id) => i = j
    <2> SUFFICES ASSUME NEW i \in 1 .. Len(g), NEW j \in 1 .. Len(g), HasId(g[i].rec),
                        g[i].rec.event_id = g[j].rec.event_id
                 PROVE  i = j
      OBVIOUS
    <2>1. CASE i \in 1 .. Len(f) /\ j \in 1 .. Len(f)
      BY <2>1, <1>2, <1>4 DEF IsFile
    <2>2. CASE i = Len(f) + 1 /\ j \in 1 .. Len(f)
      BY <2>2, <1>2, <1>4
    <2>3. CASE i \in 1 .. Len(f) /\ j = Len(f) + 1
      BY <2>3, <1>2, <1>4 DEF HasId
    <2> QED
      BY <2>1, <2>2, <2>3, <1>2, <1>4
  <1> QED
    BY <1>2, <1>3, <1>7, <1>8, <1>9 DEF IsFile

\* Giving a readable last line its LF keeps the file one, with the same records.
LEMMA EndFile ==
    ASSUME NEW f, IsFile(f), ~LastEnded(f), ~Malformed(f)
    PROVE  LET g == [f EXCEPT ![Len(f)].ended = TRUE]
           IN  /\ IsFile(g) /\ LastEnded(g) /\ ~Malformed(g)
               /\ Len(g) = Len(f)
               /\ \A i \in 1 .. Len(f) : g[i].rec = f[i].rec
  <1> DEFINE n == Len(f)
             e == [f[n] EXCEPT !.ended = TRUE]
             g == [f EXCEPT ![n] = e]
  <1>1. f \in Seq(Line) /\ n \in 1 .. Len(f) /\ n \in Nat
    BY FileFacts DEF IsFile, LastEnded
  <1>2. e \in Line /\ e.rec = f[n].rec /\ e.ended
    BY <1>1, FileFacts DEF Line
  <1>3. /\ g \in Seq(Line)
        /\ Len(g) = n
        /\ \A j \in 1 .. n : g[j] = IF j = n THEN e ELSE f[j]
    BY <1>1, <1>2, ExceptSeq
  <1>4. g = [f EXCEPT ![Len(f)].ended = TRUE]
    OBVIOUS
  <1> HIDE DEF g, e
  <1>5. \A i \in 1 .. n : g[i].rec = f[i].rec /\ g[i].rec # Garbled
    BY <1>2, <1>3 DEF Malformed
  <1>6. \A i \in 1 .. n : g[i].ended
    BY <1>1, <1>2, <1>3 DEF IsFile
  <1>7. IsFile(g)
    BY <1>1, <1>3, <1>5, <1>6 DEF IsFile
  <1> QED
    BY <1>1, <1>3, <1>4, <1>5, <1>6, <1>7 DEF LastEnded, Malformed

\* A prefix of a file is a file.
LEMMA CutFile ==
    ASSUME NEW f, IsFile(f), NEW n \in 0 .. Len(f)
    PROVE  LET g == SubSeq(f, 1, n)
           IN  IsFile(g) /\ Len(g) = n /\ \A i \in 1 .. n : g[i] = f[i]
  <1> DEFINE g == SubSeq(f, 1, n)
  <1>1. f \in Seq(Line) /\ Len(f) \in Nat
    BY FileFacts DEF IsFile
  <1>2. \A i \in 1 .. n : f[i] \in Line
    BY <1>1, FileFacts
  <1>3. g \in Seq(Line) /\ Len(g) = n /\ \A i \in 1 .. n : g[i] = f[i]
    <2>1. /\ g \in Seq(Line)
          /\ Len(g) = IF 1 <= n THEN n - 1 + 1 ELSE 0
          /\ \A i \in 1 .. n - 1 + 1 : g[i] = f[1 + i - 1]
      BY <1>1, <1>2, SubSeqProperties, 1 \in Int, n \in Int
    <2> QED
      BY <2>1, <1>1
  <1> HIDE DEF g
  <1>4. \A i \in 1 .. n : i \in 1 .. Len(f) /\ (i = Len(f) => i = n) /\ (i < n => i \in 1 .. Len(f) - 1)
    BY <1>1
  <1>5. \A i \in 1 .. n - 1 : g[i].ended
    BY <1>3, <1>4 DEF IsFile
  <1>6. \A i \in 1 .. n : g[i].rec = Garbled => i = n /\ ~g[i].ended
    BY <1>3, <1>4 DEF IsFile
  <1>7. \A i, j \in 1 .. n : (HasId(g[i].rec) /\ g[i].rec.event_id = g[j].rec.event_id) => i = j
    BY <1>3, <1>4 DEF IsFile
  <1>8. IsFile(g)
    BY <1>3, <1>5, <1>6, <1>7 DEF IsFile
  <1> QED
    BY <1>3, <1>8 DEF g

\* A prefix and what a power loss leaves of the next line are a file.
LEMMA TornFile ==
    ASSUME NEW f, IsFile(f), NEW n \in 0 .. Len(f), n < Len(f),
           NEW part \in {Garbled, f[n + 1].rec}
    PROVE  LET g == Append(SubSeq(f, 1, n), [rec |-> part, ended |-> FALSE])
           IN  IsFile(g) /\ Len(g) = n + 1 /\ \A i \in 1 .. n : g[i] = f[i]
  <1> DEFINE h == SubSeq(f, 1, n)
             line == [rec |-> part, ended |-> FALSE]
  <1>1. f \in Seq(Line) /\ Len(f) \in Nat /\ n + 1 \in 1 .. Len(f)
    BY FileFacts DEF IsFile
  <1>2. IsFile(h) /\ Len(h) = n /\ \A i \in 1 .. n : h[i] = f[i]
    BY CutFile
  <1>3. line \in Line /\ line.rec = part /\ ~line.ended
    BY <1>1, FileFacts DEF Line
  <1>4. \A i \in 1 .. n : f[i].ended /\ f[i].rec # Garbled
    BY <1>1 DEF IsFile
  <1> HIDE DEF h, line
  <1>5. LastEnded(h) /\ ~Malformed(h)
    BY <1>1, <1>2, <1>4, FileFacts DEF LastEnded, Malformed, IsFile
  <1>6. HasId(part) => \A i \in 1 .. Len(h) : h[i].rec.event_id # part.event_id
    <2> SUFFICES ASSUME HasId(part), NEW i \in 1 .. n, f[i].rec.event_id = part.event_id
                 PROVE  FALSE
      BY <1>2
    <2>1. part = f[n + 1].rec
      BY GarbledFacts
    <2>2. HasId(f[i].rec) /\ f[i].rec.event_id = f[n + 1].rec.event_id
      BY <2>1 DEF HasId
    <2>3. i \in 1 .. Len(f) /\ i # n + 1
      BY <1>1
    <2> QED
      BY <1>1, <2>2, <2>3 DEF IsFile
  <1>7. /\ IsFile(AppendBytes(h, line))
        /\ Len(AppendBytes(h, line)) = n + 1
        /\ \A i \in 1 .. n : AppendBytes(h, line)[i] = h[i]
    BY <1>2, <1>3, <1>5, <1>6, AppendFile
  <1>8. AppendBytes(h, line) = Append(h, line)
    BY <1>5 DEF AppendBytes
  <1> QED
    BY <1>2, <1>7, <1>8 DEF h, line
-----------------------------------------------------------------------------
(* The inductive invariant *)

\* Who is inside the lock's with block, and with what: the record read in Lock.
LockInv ==
    \A w \in Writer : pc[w] # "idle" => lock = w /\ rec[w] \in Record

\* What the holder of the lock relies on in its next step: the file is still
\* the one it read, and what it wrote is in it, on a line that no earlier append
\* was answered for.
StepInv ==
    \A w \in Writer :
        /\ pc[w] = "check" => records[w] = file /\ LastEnded(file) /\ ~Malformed(file)
        /\ pc[w] = "sync" => /\ Holds(file, Len(file), rec[w])
                             /\ synced[rec[w]] < Count(file, Len(file), rec[w])

\* A record whose append returned is in the file; for each append that returned
\* after its own fsync there is a line in the part that a power loss spares.
AnswerInv ==
    /\ \A r \in returned : Holds(file, Len(file), r)
    /\ \A r \in Record : synced[r] <= Count(file, durable, r)

IInv == TypeOK /\ IsFile(file) /\ LockInv /\ StepInv /\ AnswerInv

LEMMA InitIInv == Init => IInv
  <1> SUFFICES ASSUME Init PROVE IInv
    OBVIOUS
  <1>1. file = <<>> /\ file \in Seq(Line) /\ Len(file) = 0
    BY EmptySeq DEF Init
  <1>2. IsFile(file)
    BY <1>1 DEF IsFile
  <1>3. TypeOK
    <2>1. records \in [Writer -> Seq(Line)]
      BY EmptySeq DEF Init
    <2> QED
      BY <1>1, <2>1, BoundsAssumption DEF Init, TypeOK
  <1>4. LockInv /\ StepInv
    BY DEF Init, LockInv, StepInv
  <1>5. AnswerInv
    <2>1. \A r \in Record : synced[r] = 0 /\ Count(file, durable, r) \in Nat
      BY CountType DEF Init
    <2> QED
      BY <2>1 DEF Init, AnswerInv
  <1> QED
    BY <1>2, <1>3, <1>4, <1>5 DEF IInv

\* A step that changes the file keeps the answers given when every record of
\* the old file is in the new one at its old place.
LEMMA AnswersKept ==
    ASSUME IInv, NEW g, Len(g) \in Nat, Len(file) <= Len(g),
           \A i \in 1 .. Len(file) : g[i].rec = file[i].rec,
           NEW d \in Nat, durable <= d
    PROVE  /\ \A r \in returned : Holds(g, Len(g), r)
           /\ \A r \in Record : synced[r] <= Count(g, d, r)
  <1>0. Len(file) \in Nat /\ durable \in Nat /\ durable <= Len(file)
    BY FileFacts DEF IInv, TypeOK
  <1>1. \A r \in returned : Holds(g, Len(g), r)
    BY <1>0 DEF IInv, AnswerInv, Holds
  <1>2. ASSUME NEW r \in Record PROVE synced[r] <= Count(g, d, r)
    <2>1. Count(file, durable, r) <= Count(g, d, r)
      BY <1>0, CountKept
    <2>2. synced[r] \in Nat /\ Count(file, durable, r) \in Nat /\ Count(g, d, r) \in Nat
      BY <1>0, CountType DEF IInv, TypeOK
    <2>3. synced[r] <= Count(file, durable, r)
      BY DEF IInv, AnswerInv
    <2> QED
      BY <2>1, <2>2, <2>3
  <1> QED
    BY <1>1, <1>2

LEMMA LockStep ==
    ASSUME IInv, NEW w \in Writer, NEW r \in Call, Lock(w, r)
    PROVE  IInv'
  <1> USE DEF IInv
  <1>0. r \in Record
    BY DEF Lock
  <1>1. TypeOK'
    BY <1>0 DEF TypeOK, Lock
  <1>2. IsFile(file)'
    BY DEF Lock, IsFile
  <1>3. LockInv'
    BY <1>0, NobodyAssumption DEF TypeOK, LockInv, Lock
  <1>4. StepInv'
    BY NobodyAssumption DEF TypeOK, LockInv, StepInv, Lock, Malformed, LastEnded
  <1>5. AnswerInv'
    BY DEF AnswerInv, Lock, Holds, Count, Lines
  <1> QED
    BY <1>1, <1>2, <1>3, <1>4, <1>5

\* Leaving the lock's with block establishes what LockInv and StepInv ask.
LEMMA LeaveStep ==
    ASSUME IInv, NEW w \in Writer, pc[w] # "idle", Leave(w)
    PROVE  /\ lock' \in Writer \cup {Nobody}
           /\ pc' \in [Writer -> {"idle", "read", "check", "sync"}]
           /\ rec' \in [Writer -> Record \cup {Garbled}]
           /\ records' \in [Writer -> Seq(Line)]
           /\ LockInv' /\ StepInv'
  <1> USE DEF IInv
  <1>1. <<>> \in Seq(Line)
    BY EmptySeq
  <1>2. /\ lock' \in Writer \cup {Nobody}
        /\ pc' \in [Writer -> {"idle", "read", "check", "sync"}]
        /\ rec' \in [Writer -> Record \cup {Garbled}]
        /\ records' \in [Writer -> Seq(Line)]
    BY <1>1 DEF Leave, TypeOK
  <1>3. \A v \in Writer : pc'[v] = "idle"
    BY DEF Leave, TypeOK, LockInv
  <1> QED
    BY <1>2, <1>3 DEF LockInv, StepInv

LEMMA ReadCorruptStep ==
    ASSUME IInv, NEW w \in Writer, ReadCorrupt(w)
    PROVE  IInv'
  <1>1. LockInv' /\ StepInv'
    BY LeaveStep DEF ReadCorrupt
  <1>2. TypeOK'
    BY LeaveStep DEF ReadCorrupt, IInv, TypeOK
  <1>3. IsFile(file)' /\ AnswerInv'
    BY DEF ReadCorrupt, IInv, IsFile, AnswerInv, Holds, Count, Lines
  <1> QED
    BY <1>1, <1>2, <1>3 DEF IInv

\* What the inspection of a readable file leaves: the same records, all ended.
LEMMA RepairFacts ==
    ASSUME IInv, ~Malformed(file), Repair
    PROVE  /\ IsFile(file') /\ LastEnded(file') /\ ~Malformed(file')
           /\ file' \in Seq(Line) /\ \A i \in 1 .. Len(file') - 1 : file'[i].ended
           /\ Len(file') = Len(file)
           /\ \A i \in 1 .. Len(file) : file'[i].rec = file[i].rec
           /\ durable' \in 0 .. Len(file')
           /\ \A r \in returned : Holds(file', Len(file'), r)
           /\ \A r \in Record : synced[r] <= Count(file', durable', r)
  <1>0. /\ IsFile(file) /\ file \in Seq(Line) /\ Len(file) \in Nat
        /\ durable \in Nat /\ durable <= Len(file)
    BY FileFacts DEF IInv, IsFile, TypeOK
  <1>1. /\ IsFile(file') /\ LastEnded(file') /\ ~Malformed(file')
        /\ Len(file') = Len(file)
        /\ \A i \in 1 .. Len(file) : file'[i].rec = file[i].rec
        /\ durable' \in Nat /\ durable <= durable' /\ durable' <= Len(file)
    <2>1. CASE LastEnded(file)
      BY <2>1, <1>0 DEF Repair
    <2>2. CASE ~LastEnded(file)
      <3>1. file' = [file EXCEPT ![Len(file)].ended = TRUE] /\ durable' = Len(file)
        BY <2>2 DEF Repair
      <3>2. durable' \in Nat /\ durable <= durable' /\ durable' <= Len(file)
        BY <3>1, <1>0
      <3> QED
        BY <1>0, <2>2, <3>1, <3>2, EndFile
    <2> QED
      BY <2>1, <2>2
  <1>2. /\ \A r \in returned : Holds(file', Len(file'), r)
        /\ \A r \in Record : synced[r] <= Count(file', durable', r)
    BY <1>0, <1>1, AnswersKept
  <1> QED
    BY <1>0, <1>1, <1>2 DEF IsFile

LEMMA ReadStep ==
    ASSUME IInv, NEW w \in Writer, Read(w)
    PROVE  IInv'
  <1>1. ~Malformed(file) /\ Repair
    BY DEF Read
  <1>2. /\ IsFile(file') /\ LastEnded(file') /\ ~Malformed(file')
        /\ file' \in Seq(Line) /\ \A i \in 1 .. Len(file') - 1 : file'[i].ended
        /\ durable' \in 0 .. Len(file')
        /\ \A r \in returned : Holds(file', Len(file'), r)
        /\ \A r \in Record : synced[r] <= Count(file', durable', r)
    BY <1>1, RepairFacts
  <1>3. TypeOK'
    BY <1>2 DEF IInv, TypeOK, Read
  <1>4. LockInv'
    BY DEF IInv, TypeOK, LockInv, Read
  <1>5. StepInv'
    <2> SUFFICES ASSUME NEW v \in Writer
                 PROVE  /\ pc'[v] = "check" => records'[v] = file' /\ LastEnded(file') /\ ~Malformed(file')
                        /\ pc'[v] # "sync"
      BY DEF StepInv, LastEnded, Malformed
    <2>1. CASE v = w
      BY <2>1, <1>2 DEF Read, IInv, TypeOK
    <2>2. CASE v # w
      BY <2>2 DEF Read, IInv, TypeOK, LockInv
    <2> QED
      BY <2>1, <2>2
  <1>6. AnswerInv'
    BY <1>2 DEF Read, AnswerInv, Holds, Count, Lines
  <1> QED
    BY <1>2, <1>3, <1>4, <1>5, <1>6 DEF IInv, IsFile

LEMMA ReadRecordsStep ==
    ASSUME IInv, ReadRecords
    PROVE  IInv'
  <1>1. ~Malformed(file) /\ Repair
    BY DEF ReadRecords
  <1>2. /\ IsFile(file')
        /\ file' \in Seq(Line) /\ \A i \in 1 .. Len(file') - 1 : file'[i].ended
        /\ durable' \in 0 .. Len(file')
        /\ \A r \in returned : Holds(file', Len(file'), r)
        /\ \A r \in Record : synced[r] <= Count(file', durable', r)
    BY <1>1, RepairFacts
  <1>3. TypeOK'
    BY <1>2 DEF IInv, TypeOK, ReadRecords
  <1>4. \A v \in Writer : pc'[v] = "idle"
    BY NobodyAssumption DEF IInv, LockInv, ReadRecords
  <1>5. LockInv' /\ StepInv'
    BY <1>4 DEF LockInv, StepInv
  <1>6. AnswerInv'
    BY <1>2 DEF ReadRecords, AnswerInv, Holds, Count, Lines
  <1> QED
    BY <1>2, <1>3, <1>5, <1>6 DEF IInv, IsFile

LEMMA CheckDuplicateStep ==
    ASSUME IInv, NEW w \in Writer, CheckDuplicate(w)
    PROVE  IInv'
  <1>0. rec[w] \in Record /\ records[w] = file
    BY DEF IInv, LockInv, StepInv, CheckDuplicate
  <1>1. LockInv' /\ StepInv'
    BY LeaveStep DEF CheckDuplicate
  <1>2. TypeOK'
    BY <1>0, LeaveStep DEF CheckDuplicate, IInv, TypeOK
  <1>3. Holds(file, Len(file), rec[w])
    <2> PICK i \in SameId(w) : records[w][i].rec = rec[w]
      BY DEF CheckDuplicate
    <2> QED
      BY <1>0 DEF SameId, Holds
  <1>4. IsFile(file)' /\ AnswerInv'
    BY <1>3 DEF CheckDuplicate, IInv, IsFile, AnswerInv, Holds, Count, Lines
  <1> QED
    BY <1>1, <1>2, <1>4 DEF IInv

LEMMA CheckConflictStep ==
    ASSUME IInv, NEW w \in Writer, CheckConflict(w)
    PROVE  IInv'
  <1>1. LockInv' /\ StepInv'
    BY LeaveStep DEF CheckConflict
  <1>2. TypeOK'
    BY LeaveStep DEF CheckConflict, IInv, TypeOK
  <1>3. IsFile(file)' /\ AnswerInv'
    BY DEF CheckConflict, IInv, IsFile, AnswerInv, Holds, Count, Lines
  <1> QED
    BY <1>1, <1>2, <1>3 DEF IInv

\* What a write behind the file leaves, whole or torn: nothing behind it moves.
LEMMA WriteFacts ==
    ASSUME IInv, NEW w \in Writer, pc[w] = "check", SameId(w) = {},
           NEW line \in Line, line.rec \in {Garbled, rec[w]}, line.rec = Garbled => ~line.ended,
           file' = AppendBytes(file, line), durable' = durable
    PROVE  /\ IsFile(file')
           /\ file' \in Seq(Line) /\ \A i \in 1 .. Len(file') - 1 : file'[i].ended
           /\ durable' \in 0 .. Len(file')
           /\ file'[Len(file')] = line
           /\ Len(file') \in Nat \ {0}
           /\ line.rec = rec[w] => synced[rec[w]] < Count(file', Len(file'), rec[w])
           /\ \A r \in returned : Holds(file', Len(file'), r)
           /\ \A r \in Record : synced[r] <= Count(file', durable', r)
  <1> USE DEF IInv
  <1>0. file \in Seq(Line) /\ Len(file) \in Nat /\ durable \in Nat /\ durable <= Len(file)
    BY FileFacts DEF IsFile, TypeOK
  <1>1. records[w] = file /\ LastEnded(file) /\ ~Malformed(file)
    BY DEF StepInv
  <1>2. HasId(line.rec) => \A i \in 1 .. Len(file) : file[i].rec.event_id # line.rec.event_id
    BY <1>1, GarbledFacts DEF SameId
  <1>3. /\ IsFile(file')
        /\ Len(file') = Len(file) + 1
        /\ \A i \in 1 .. Len(file) : file'[i] = file[i]
        /\ file'[Len(file) + 1] = line
    BY <1>1, <1>2, AppendFile
  <1>4. /\ \A r \in returned : Holds(file', Len(file'), r)
        /\ \A r \in Record : synced[r] <= Count(file', durable', r)
    BY <1>0, <1>3, AnswersKept
  <1>5. ASSUME line.rec = rec[w] PROVE synced[rec[w]] < Count(file', Len(file'), rec[w])
    <2> DEFINE r == rec[w]
    <2>0. r \in Record
      BY DEF LockInv
    <2>1. synced[r] <= Count(file, Len(file), r)
      BY <1>0, <2>0, AnswersKept
    <2>2. Count(file, Len(file), r) < Count(file', Len(file'), r)
      <3>1. /\ Len(file) \in Nat /\ Len(file') \in Nat /\ Len(file) < Len(file')
            /\ \A i \in 1 .. Len(file) : file'[i].rec = file[i].rec
            /\ Len(file') \in Lines(file', Len(file'), r)
        BY <1>0, <1>3, <1>5 DEF Lines
      <3> HIDE DEF r
      <3> QED
        BY <3>1, CountMore
    <2>3. synced[r] \in Nat /\ Count(file, Len(file), r) \in Nat /\ Count(file', Len(file'), r) \in Nat
      BY <1>0, <1>3, <2>0, CountType DEF TypeOK
    <2> QED
      BY <2>1, <2>2, <2>3
  <1> QED
    BY <1>0, <1>3, <1>4, <1>5 DEF IsFile, TypeOK

LEMMA WriteStep ==
    ASSUME IInv, NEW w \in Writer, Write(w)
    PROVE  IInv'
  <1> USE DEF IInv
  <1> DEFINE line == [rec |-> rec[w], ended |-> TRUE]
  <1>0. rec[w] \in Record
    BY DEF LockInv, Write
  <1>1. line \in Line /\ line.rec = rec[w] /\ line.rec # Garbled
    BY <1>0, GarbledFacts DEF Line
  <1>2. pc[w] = "check" /\ SameId(w) = {} /\ file' = AppendBytes(file, line) /\ durable' = durable
    BY DEF Write
  <1> HIDE DEF line
  <1>3. /\ IsFile(file')
        /\ file' \in Seq(Line) /\ \A i \in 1 .. Len(file') - 1 : file'[i].ended
        /\ durable' \in 0 .. Len(file')
        /\ file'[Len(file')] = line
        /\ Len(file') \in Nat \ {0}
        /\ synced[rec[w]] < Count(file', Len(file'), rec[w])
        /\ \A r \in returned : Holds(file', Len(file'), r)
        /\ \A r \in Record : synced[r] <= Count(file', durable', r)
    BY <1>1, <1>2, WriteFacts
  <1>4. TypeOK'
    BY <1>3 DEF TypeOK, Write
  <1>5. LockInv'
    BY DEF TypeOK, LockInv, Write
  <1>6. StepInv'
    <2> SUFFICES ASSUME NEW v \in Writer
                 PROVE  /\ pc'[v] = "check" => records'[v] = file' /\ LastEnded(file') /\ ~Malformed(file')
                        /\ pc'[v] = "sync" => /\ Holds(file', Len(file'), rec'[v])
                                              /\ synced'[rec'[v]] < Count(file', Len(file'), rec'[v])
      BY DEF StepInv, LastEnded, Malformed, Holds, Count, Lines
    <2>1. CASE v = w
      <3>1. pc'[v] = "sync" /\ rec'[v] = rec[w] /\ synced' = synced
        BY <2>1 DEF Write, TypeOK
      <3>2. Len(file') \in 1 .. Len(file') /\ file'[Len(file')].rec = rec[w]
        BY <1>1, <1>3
      <3> QED
        BY <1>3, <3>1, <3>2 DEF Holds
    <2>2. CASE v # w
      BY <2>2 DEF Write, TypeOK, LockInv
    <2> QED
      BY <2>1, <2>2
  <1>7. AnswerInv'
    BY <1>3 DEF AnswerInv, Write, Holds, Count, Lines
  <1> QED
    BY <1>3, <1>4, <1>5, <1>6, <1>7 DEF IsFile

LEMMA WriteShortStep ==
    ASSUME IInv, NEW w \in Writer, WriteShort(w)
    PROVE  IInv'
  <1>0. rec[w] \in Record
    BY DEF IInv, LockInv, WriteShort
  <1> PICK part \in {Garbled, rec[w]} : file' = AppendBytes(file, [rec |-> part, ended |-> FALSE])
    BY DEF WriteShort
  <1> DEFINE line == [rec |-> part, ended |-> FALSE]
  <1>1. line \in Line /\ line.rec = part /\ ~line.ended
    BY <1>0 DEF Line
  <1>2. pc[w] = "check" /\ SameId(w) = {} /\ file' = AppendBytes(file, line) /\ durable' = durable
    BY DEF WriteShort
  <1> HIDE DEF line
  <1>3. /\ IsFile(file')
        /\ file' \in Seq(Line) /\ \A i \in 1 .. Len(file') - 1 : file'[i].ended
        /\ durable' \in 0 .. Len(file')
        /\ \A r \in returned : Holds(file', Len(file'), r)
        /\ \A r \in Record : synced[r] <= Count(file', durable', r)
    BY <1>1, <1>2, WriteFacts
  <1>4. LockInv' /\ StepInv'
    BY LeaveStep DEF WriteShort
  <1>5. TypeOK'
    <2>1. /\ lock' \in Writer \cup {Nobody}
          /\ pc' \in [Writer -> {"idle", "read", "check", "sync"}]
          /\ rec' \in [Writer -> Record \cup {Garbled}]
          /\ records' \in [Writer -> Seq(Line)]
      BY LeaveStep DEF WriteShort
    <2>2. faults' \in 0 .. MaxFaults
      BY BoundsAssumption DEF WriteShort, Fault, IInv, TypeOK
    <2>3. returned' \subseteq Record /\ synced' \in [Record -> Nat]
      BY DEF WriteShort, IInv, TypeOK
    <2> QED
      BY <1>3, <2>1, <2>2, <2>3 DEF TypeOK
  <1>6. AnswerInv'
    BY <1>3 DEF AnswerInv, WriteShort, Holds, Count, Lines
  <1> QED
    BY <1>3, <1>4, <1>5, <1>6 DEF IInv, IsFile

LEMMA SyncStep ==
    ASSUME IInv, NEW w \in Writer, Sync(w)
    PROVE  IInv'
  <1>0. /\ rec[w] \in Record /\ Holds(file, Len(file), rec[w])
        /\ synced[rec[w]] < Count(file, Len(file), rec[w])
    BY DEF IInv, LockInv, StepInv, Sync
  <1>1. LockInv' /\ StepInv'
    BY LeaveStep DEF Sync
  <1>2. Len(file) \in Nat /\ durable \in Nat /\ durable <= Len(file)
    BY FileFacts DEF IInv, TypeOK
  <1>3. TypeOK'
    BY <1>0, <1>2, LeaveStep DEF Sync, IInv, TypeOK
  <1>4. IsFile(file)'
    BY DEF Sync, IInv, IsFile
  <1>5. \A r \in Record : synced[r] <= Count(file, Len(file), r)
    BY <1>2, AnswersKept
  <1>6. ASSUME NEW r \in Record PROVE synced'[r] <= Count(file, Len(file), r)
    <2>1. synced' = [synced EXCEPT ![rec[w]] = @ + 1] /\ synced \in [Record -> Nat]
      BY DEF Sync, IInv, TypeOK
    <2>2. Count(file, Len(file), r) \in Nat
      BY <1>2, CountType
    <2> QED
      BY <1>0, <1>5, <2>1, <2>2
  <1>7. \A r \in returned' : Holds(file, Len(file), r)
    BY <1>0 DEF Sync, IInv, AnswerInv
  <1>8. AnswerInv'
    BY <1>6, <1>7 DEF Sync, AnswerInv, Holds, Count, Lines
  <1> QED
    BY <1>1, <1>3, <1>4, <1>8 DEF IInv

LEMMA DieStep ==
    ASSUME IInv, NEW w \in Writer, Die(w)
    PROVE  IInv'
  <1>1. LockInv' /\ StepInv'
    BY LeaveStep DEF Die
  <1>2. TypeOK'
    BY LeaveStep, BoundsAssumption DEF Die, Fault, IInv, TypeOK
  <1>3. IsFile(file)' /\ AnswerInv'
    BY DEF Die, IInv, IsFile, AnswerInv, Holds, Count, Lines
  <1> QED
    BY <1>1, <1>2, <1>3 DEF IInv

\* What a power loss leaves: the lines an fsync covers, and perhaps more.
LEMMA PowerLossFacts ==
    ASSUME IInv, PowerLoss
    PROVE  /\ IsFile(file') /\ durable \in Nat /\ Len(file') \in Nat /\ durable <= Len(file')
           /\ \A i \in 1 .. durable : file'[i] = file[i]
  <1> USE DEF IInv
  <1>0. Len(file) \in Nat /\ durable \in 0 .. Len(file)
    BY FileFacts DEF IsFile, TypeOK
  <1> PICK n \in durable .. Len(file) :
            \/ file' = SubSeq(file, 1, n)
            \/ /\ n < Len(file)
               /\ \E part \in {Garbled, file[n + 1].rec} :
                     file' = Append(SubSeq(file, 1, n), [rec |-> part, ended |-> FALSE])
    BY DEF PowerLoss
  <1>1. n \in 0 .. Len(file) /\ n \in Nat /\ durable <= n
    BY <1>0
  <1>a. /\ durable \in Nat /\ n + 1 \in Nat /\ durable <= n + 1
        /\ \A i \in 1 .. durable : i \in 1 .. n
    BY <1>0, <1>1
  <1>2. CASE file' = SubSeq(file, 1, n)
    <2>1. IsFile(file') /\ Len(file') = n /\ \A i \in 1 .. n : file'[i] = file[i]
      BY <1>1, <1>2, CutFile
    <2> QED
      BY <2>1, <1>1, <1>a, Zenon
  <1>3. CASE /\ n < Len(file)
             /\ \E part \in {Garbled, file[n + 1].rec} :
                   file' = Append(SubSeq(file, 1, n), [rec |-> part, ended |-> FALSE])
    <2>0. PICK part \in {Garbled, file[n + 1].rec} :
              file' = Append(SubSeq(file, 1, n), [rec |-> part, ended |-> FALSE])
      BY <1>3
    <2>1. IsFile(file') /\ Len(file') = n + 1 /\ \A i \in 1 .. n : file'[i] = file[i]
      <3>1. IsFile(file) /\ n < Len(file)
        BY <1>3
      <3> HIDE DEF IInv
      <3> DEFINE g == Append(SubSeq(file, 1, n), [rec |-> part, ended |-> FALSE])
      <3>2. IsFile(g) /\ Len(g) = n + 1 /\ \A i \in 1 .. n : g[i] = file[i]
        BY <1>1, <3>1, TornFile
      <3>3. file' = g
        BY <2>0
      <3> HIDE DEF g
      <3> QED
        BY <3>2, <3>3
    <2> QED
      BY <2>1, <1>1, <1>a, Zenon
  <1> QED
    BY <1>2, <1>3

LEMMA PowerLossStep ==
    ASSUME IInv, PowerLoss
    PROVE  IInv'
  <1>1. /\ IsFile(file') /\ durable \in Nat /\ Len(file') \in Nat /\ durable <= Len(file')
        /\ \A i \in 1 .. durable : file'[i] = file[i]
    BY PowerLossFacts
  <1>2. <<>> \in Seq(Line)
    BY EmptySeq
  <1>3. TypeOK'
    BY <1>1, <1>2, BoundsAssumption DEF PowerLoss, Fault, IInv, TypeOK, IsFile
  <1>4. LockInv' /\ StepInv'
    BY DEF PowerLoss, LockInv, StepInv
  <1>5. ASSUME NEW r \in Record PROVE synced[r] <= Count(file', Len(file'), r)
    <2>1. Count(file, durable, r) <= Count(file', Len(file'), r)
      BY <1>1, CountKept
    <2>2. synced[r] \in Nat /\ Count(file, durable, r) \in Nat /\ Count(file', Len(file'), r) \in Nat
      BY <1>1, CountType DEF IInv, TypeOK
    <2>3. synced[r] <= Count(file, durable, r)
      BY DEF IInv, AnswerInv
    <2> QED
      BY <2>1, <2>2, <2>3
  <1>6. AnswerInv'
    BY <1>5 DEF PowerLoss, AnswerInv, Holds, Count, Lines
  <1> QED
    BY <1>1, <1>3, <1>4, <1>6 DEF IInv, IsFile

LEMMA NextIInv == IInv /\ [Next]_vars => IInv'
  <1> SUFFICES ASSUME IInv, [Next]_vars PROVE IInv'
    OBVIOUS
  <1>1. CASE UNCHANGED vars
    <2>1. TypeOK' /\ IsFile(file)' /\ LockInv'
      BY <1>1 DEF vars, IInv, TypeOK, IsFile, LockInv
    <2>2. StepInv'
      BY <1>1 DEF vars, IInv, StepInv, Holds, Count, Lines, LastEnded, Malformed
    <2>3. AnswerInv'
      BY <1>1 DEF vars, IInv, AnswerInv, Holds, Count, Lines
    <2> QED
      BY <2>1, <2>2, <2>3 DEF IInv
  <1>2. CASE PowerLoss
    BY <1>2, PowerLossStep
  <1>r. CASE ReadRecords
    BY <1>r, ReadRecordsStep
  <1>3. ASSUME NEW w \in Writer,
               \/ \E r \in Call : Lock(w, r)
               \/ ReadCorrupt(w) \/ Read(w) \/ CheckDuplicate(w) \/ CheckConflict(w)
               \/ Write(w) \/ WriteShort(w) \/ Sync(w) \/ Die(w)
        PROVE  IInv'
    BY <1>3, LockStep, ReadCorruptStep, ReadStep, CheckDuplicateStep, CheckConflictStep,
       WriteStep, WriteShortStep, SyncStep, DieStep
  <1> QED
    BY <1>1, <1>2, <1>r, <1>3 DEF Next

\* The invariant holds in every reachable state of the audit outbox.
THEOREM Invariance == Spec => []IInv
  BY InitIInv, NextIInv, PTL DEF Spec
-----------------------------------------------------------------------------
(* The properties *)

\* Every reachable state of the audit outbox is well typed: in particular at
\* most the last line of the file lacks its LF.
THEOREM JsonlTypeCorrect == Spec => []TypeOK
  <1>1. IInv => TypeOK
    BY DEF IInv
  <1> QED
    BY <1>1, Invariance, PTL

\* _append_jsonl_outbox_event_unlocked never writes an event id that is in the
\* file, although the check and the write are separate steps of many processes
\* and records without an id are written in between.
THEOREM EventIdsUnique == Spec => []UniqueEventIds
  <1>1. IInv => UniqueEventIds
    BY DEF IInv, IsFile, UniqueEventIds
  <1> QED
    BY <1>1, Invariance, PTL

\* Nothing is ever written behind a torn line, whichever process tore it.
THEOREM OnlyTailTorn == Spec => []TornOnlyAtTail
  <1>1. IInv => TornOnlyAtTail
    BY DEF IInv, IsFile, TornOnlyAtTail
  <1> QED
    BY <1>1, Invariance, PTL

\* append_jsonl_record returns True only for a record that is in the file and
\* stays there: until a power loss, and after its own fsync even then.  Every
\* append that returned after its fsync has a line of its own; a record with
\* an event id has one line in all, one without may have more.
THEOREM ReturnedAreRecorded == Spec => []ReturnedIsRecorded
  <1>1. IInv => ReturnedIsRecorded
    <2> SUFFICES ASSUME IInv, NEW r \in Record
                 PROVE  /\ Copies(r) >= synced[r]
                        /\ HasId(r) /\ (r \in returned \/ synced[r] > 0) => Copies(r) = 1
      BY DEF ReturnedIsRecorded
    <2>1. Len(file) \in Nat /\ durable \in Nat /\ durable <= Len(file) /\ synced[r] \in Nat
      BY FileFacts DEF IInv, TypeOK
    <2>2. Copies(r) = Count(file, Len(file), r) /\ Copies(r) \in Nat
      <3>1. Copies(r) = Count(file, Len(file), r)
        BY DEF Copies, Count, Lines
      <3> QED
        BY <2>1, <3>1, CountType
    <2>3. synced[r] <= Copies(r)
      BY <2>1, <2>2, AnswersKept
    <2>4. ASSUME HasId(r), r \in returned \/ synced[r] > 0
          PROVE  Copies(r) = 1
      <3> DEFINE S == Lines(file, Len(file), r)
      <3>1. IsFiniteSet(S) /\ Copies(r) = Cardinality(S)
        BY <2>1, <2>2, CountType DEF Count
      <3>2. S # {}
        <4>1. CASE r \in returned
          BY <4>1 DEF IInv, AnswerInv, Holds, Lines
        <4>2. CASE synced[r] > 0
          <5>1. Cardinality(S) # 0
            BY <4>2, <2>1, <2>2, <2>3, <3>1
          <5> QED
            BY <5>1, FS_EmptySet
        <4> QED
          BY <2>4, <4>1, <4>2
      <3>3. PICK i \in 1 .. Len(file) : file[i].rec = r
        BY <3>2 DEF Lines
      <3>4. \A j \in 1 .. Len(file) : file[j].rec = r => j = i
        BY <2>4, <3>3 DEF IInv, IsFile
      <3>5. S = {i}
        BY <3>3, <3>4 DEF Lines
      <3> QED
        BY <3>1, <3>5, FS_Singleton
    <2> QED
      BY <2>1, <2>2, <2>3, <2>4
  <1> QED
    BY <1>1, Invariance, PTL

\* No step drops or changes a record in the part of the history that an fsync
\* covers: not a later append, not the LF that a reader adds, not a power loss.
THEOREM DurableHistoryKept == Spec => DurablePrefixKept
  <1> DEFINE Kept == \A i \in 1 .. durable : i <= Len(file') /\ file'[i].rec = file[i].rec
  <1>1. IInv /\ [Next]_vars => [Kept]_vars
    <2> SUFFICES ASSUME IInv, Next PROVE Kept
      OBVIOUS
    <2>0. Len(file) \in Nat /\ durable \in 0 .. Len(file)
      BY FileFacts DEF IInv, TypeOK
    <2>a. \A i \in 1 .. durable : i \in 1 .. Len(file) /\ i <= Len(file)
      BY <2>0
    <2>1. CASE file' = file
      BY <2>0, <2>1
    <2>2. CASE PowerLoss
      BY <2>2, PowerLossFacts
    <2>3. ASSUME ~Malformed(file), Repair PROVE Kept
      BY <2>0, <2>3, <2>a, RepairFacts
    <2>4. ASSUME NEW w \in Writer, NEW line \in Line, pc[w] = "check", SameId(w) = {},
                 line.rec \in {Garbled, rec[w]}, line.rec = Garbled => ~line.ended,
                 file' = AppendBytes(file, line)
          PROVE  Kept
      <3>1. records[w] = file /\ LastEnded(file) /\ ~Malformed(file)
        BY <2>4 DEF IInv, StepInv
      <3>2. HasId(line.rec) => \A i \in 1 .. Len(file) : file[i].rec.event_id # line.rec.event_id
        BY <3>1, <2>4, GarbledFacts DEF SameId
      <3>3. Len(file') = Len(file) + 1 /\ \A i \in 1 .. Len(file) : file'[i] = file[i]
        BY <3>1, <3>2, <2>4, AppendFile DEF IInv
      <3> QED
        BY <3>3, <2>0
    <2>5. ASSUME NEW w \in Writer, Write(w) PROVE Kept
      <3>1. rec[w] \in Record
        BY <2>5 DEF IInv, LockInv, Write
      <3>2. [rec |-> rec[w], ended |-> TRUE] \in Line
        BY <3>1 DEF Line
      <3> QED
        BY <3>1, <3>2, <2>4, <2>5, GarbledFacts DEF Write
    <2>6. ASSUME NEW w \in Writer, WriteShort(w) PROVE Kept
      <3>1. rec[w] \in Record
        BY <2>6 DEF IInv, LockInv, WriteShort
      <3>2. \A part \in {Garbled, rec[w]} : [rec |-> part, ended |-> FALSE] \in Line
        BY <3>1 DEF Line
      <3> QED
        BY <3>2, <2>4, <2>6 DEF WriteShort
    <2> QED
      BY <2>1, <2>2, <2>3, <2>5, <2>6
      DEF Next, Lock, ReadCorrupt, Read, ReadRecords, CheckDuplicate, CheckConflict, Sync, Die
  <1> QED
    BY <1>1, Invariance, PTL DEF Spec, DurablePrefixKept
=============================================================================

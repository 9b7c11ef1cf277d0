--------------------------- MODULE NoteStore_proofs ---------------------------
(* What NoteStore's invariants and action properties rest on, for every set  *)
(* of notes, paths, texts and files.  First the queue's operators, then one  *)
(* lemma per action, then what a step of the engine may never do.            *)
EXTENDS NoteStore, TLAPS

\* A well-formed queue whose numbers are all below s.
QueueOK(q, s) ==
  /\ q \subseteq OpRecord
  /\ \A o \in q : o.seq < s
  /\ \A o, p \in q : o.seq = p.seq => o = p

\* The ops of r that are numbered below s are ops of q, their paths apart.
Keeps(q, r, s) ==
  \A o \in r : o.seq < s => \E p \in q : p.seq = o.seq /\ p.kind = o.kind /\ p.note = o.note

LEMMA NextSeqAbove ==
  ASSUME NEW q, NEW s \in Nat, QueueOK(q, s + 4)
  PROVE  /\ NextSeq(q, s) \in Nat
         /\ NextSeq(q, s) >= s
         /\ QueueOK(q, NextSeq(q, s))
<1> DEFINE P(k) == /\ \A j \in k..(s + 3) : ~Queued(q, j)
                   /\ k = s \/ Queued(q, k - 1)
<1>1. \E k \in s..(s + 4) : P(k)
  <2>1. CASE Queued(q, s + 3)
    <3>1. P(s + 4) BY <2>1
    <3> QED BY <3>1
  <2>2. CASE ~Queued(q, s + 3) /\ Queued(q, s + 2)
    <3>1. P(s + 3) BY <2>2
    <3> QED BY <3>1
  <2>3. CASE ~Queued(q, s + 3) /\ ~Queued(q, s + 2) /\ Queued(q, s + 1)
    <3>1. P(s + 2) BY <2>3
    <3> QED BY <3>1
  <2>4. CASE ~Queued(q, s + 3) /\ ~Queued(q, s + 2) /\ ~Queued(q, s + 1) /\ Queued(q, s)
    <3>1. P(s + 1) BY <2>4
    <3> QED BY <3>1
  <2>5. CASE ~Queued(q, s + 3) /\ ~Queued(q, s + 2) /\ ~Queued(q, s + 1) /\ ~Queued(q, s)
    <3>1. P(s) BY <2>5
    <3> QED BY <3>1
  <2> QED BY <2>1, <2>2, <2>3, <2>4, <2>5
<1>2. NextSeq(q, s) \in s..(s + 4) /\ P(NextSeq(q, s))
  BY <1>1 DEF NextSeq
<1>3. \A o \in q : o.seq \in Nat /\ o.seq < s + 4
  BY DEF QueueOK, OpRecord
<1>4. \A o \in q : o.seq < NextSeq(q, s)
  BY <1>2, <1>3 DEF Queued
<1> QED BY <1>2, <1>4 DEF QueueOK

LEMMA QueueWriteOK ==
  ASSUME NEW q, NEW s \in Nat, NEW n \in NoteIds, NEW row \in Row, NEW x \in Int,
         QueueOK(q, s), x < s
  PROVE  LET r == QueueWrite(q, s, n, row, x)
         IN  /\ QueueOK(r, s + 1)
             /\ Keeps(q, r, s)
             /\ q \subseteq r
             /\ row.deleted => r = q
             /\ ~row.deleted => \E o \in Writes(r, n) : o.seq # x
             /\ \A m \in NoteIds \ {n} : Writes(r, m) = Writes(q, m)
             /\ \A m \in NoteIds : Deletes(r, m) = Deletes(q, m)
<1> DEFINE op == NoteOp(s, "write", n)
           covered == row.deleted \/ \E o \in Writes(q, n) : o.seq # x
<1>1. op \in OpRecord BY DEF NoteOp, OpRecord
<1>2. row.deleted \in BOOLEAN BY DEF Row
<1>3. CASE covered
  <2>1. QueueWrite(q, s, n, row, x) = q BY <1>3 DEF QueueWrite
  <2> QED BY <1>2, <1>3, <2>1 DEF QueueOK, Keeps, OpRecord
<1>4. CASE ~covered
  <2>1. QueueWrite(q, s, n, row, x) = q \cup {op} BY <1>4 DEF QueueWrite
  <2>2. \A o \in q : o.seq \in Nat /\ o.seq < s BY DEF QueueOK, OpRecord
  <2>3. op.seq = s /\ op.kind = "write" /\ op.note = n BY DEF NoteOp
  <2>4. QueueOK(q \cup {op}, s + 1) BY <1>1, <2>2, <2>3 DEF QueueOK
  <2>5. Keeps(q, q \cup {op}, s) BY <2>2, <2>3 DEF Keeps
  <2>6. op \in Writes(q \cup {op}, n) BY <2>3 DEF Writes, OpsFor
  <2> QED BY <1>2, <1>4, <2>1, <2>3, <2>4, <2>5, <2>6 DEF Writes, Deletes, OpsFor
<1> QED BY <1>3, <1>4

LEMMA QueueMoveOK ==
  ASSUME NEW q, NEW s \in Nat, NEW n \in NoteIds, NEW row, row.path \in Paths,
         NEW from \in Paths, QueueOK(q, s)
  PROVE  LET r == QueueMove(q, s, n, row, from)
         IN  /\ QueueOK(r, s + 1)
             /\ Keeps(q, r, s)
             /\ \A m \in NoteIds : Writes(r, m) = Writes(q, m)
             /\ \A m \in NoteIds : Deletes(r, m) = Deletes(q, m)
<1> DEFINE moves == Moves(q, n)
           origin == IF moves = {} THEN from ELSE (CHOOSE o \in moves : TRUE).path
           op == MoveOp(s, n, origin, row.path)
<1>1. origin \in Paths \cup {NoPath}
  <2>1. CASE moves = {} BY <2>1
  <2>2. CASE moves # {}
    <3>1. (CHOOSE o \in moves : TRUE) \in moves BY <2>2
    <3> QED BY <2>2, <3>1 DEF Moves, OpsFor, QueueOK, OpRecord
  <2> QED BY <2>1, <2>2
<1>2. op \in OpRecord BY <1>1 DEF MoveOp, OpRecord
<1>3. CASE QueueMove(q, s, n, row, from) = q
  BY <1>3 DEF QueueOK, Keeps, OpRecord
<1>4. CASE QueueMove(q, s, n, row, from) = q \ moves
  BY <1>4 DEF QueueOK, Keeps, Writes, Deletes, Moves, OpsFor, OpRecord
<1>5. CASE QueueMove(q, s, n, row, from) = (q \ moves) \cup {op}
  BY <1>2, <1>5 DEF QueueOK, Keeps, Writes, Deletes, Moves, OpsFor, OpRecord, MoveOp
<1> QED BY <1>3, <1>4, <1>5 DEF QueueMove

-----------------------------------------------------------------------------
(* Rows and queue together.                                                  *)

\* What NothingUnowed and TombstoneOwesItsDelete ask of one note.
NoteOK(row, q, n) ==
  /\ Live(row) /\ Writes(q, n) = {} =>
       ~row.dirty /\ row.file # NoFile /\ row.synced = row.text
  /\ Tombstone(row) => Deletes(q, n) # {} /\ Writes(q, n) = {}

RowOK(row) == row.file = NoFile => row.synced = NoSynced

StoreOK(R, q, s) ==
  /\ R \in [NoteIds -> Row \cup {NoRow}]
  /\ \A n \in NoteIds : R[n] # NoRow => RowOK(R[n])
  /\ QueueOK(q, s)
  /\ \A n \in NoteIds : NoteOK(R[n], q, n)

\* What a writer of the user's may do to a note: leave it alone, make it owe a
\* write, keep it a tombstone, or make it one with a delete of its own.
Effect(R, q, S, r, s) ==
  \A n \in NoteIds :
    \/ S[n] = R[n] /\ Writes(r, n) = Writes(q, n) /\ Deletes(q, n) \subseteq Deletes(r, n)
    \/ Live(S[n]) /\ S[n].dirty /\ Writes(r, n) # {}
    \/ Tombstone(S[n]) /\ Tombstone(R[n]) /\ Deletes(q, n) \subseteq Deletes(r, n)
    \/ Tombstone(S[n]) /\ \E o \in Deletes(r, n) : o.seq >= s

LEMMA KeepsTrans ==
  ASSUME NEW q, NEW r, NEW u, NEW s \in Nat, NEW t \in Nat, s <= t,
         QueueOK(q, s), QueueOK(r, t), u \subseteq OpRecord,
         Keeps(q, r, s), Keeps(r, u, t)
  PROVE  Keeps(q, u, s)
<1> SUFFICES ASSUME NEW o \in u, o.seq < s
             PROVE  \E p \in q : p.seq = o.seq /\ p.kind = o.kind /\ p.note = o.note
  BY DEF Keeps
<1>1. o.seq \in Nat /\ o.seq < t BY DEF OpRecord
<1>2. PICK p \in r : p.seq = o.seq /\ p.kind = o.kind /\ p.note = o.note
  BY <1>1 DEF Keeps
<1> QED BY <1>2 DEF Keeps

LEMMA EffectTrans ==
  ASSUME NEW R, NEW q, NEW S, NEW r, NEW T, NEW u, NEW s \in Nat, NEW t \in Nat, s <= t,
         QueueOK(u, t + 4), Effect(R, q, S, r, s), Effect(S, r, T, u, t)
  PROVE  Effect(R, q, T, u, s)
<1> SUFFICES ASSUME NEW n \in NoteIds
             PROVE  \/ /\ T[n] = R[n] /\ Writes(u, n) = Writes(q, n)
                       /\ Deletes(q, n) \subseteq Deletes(u, n)
                    \/ Live(T[n]) /\ T[n].dirty /\ Writes(u, n) # {}
                    \/ /\ Tombstone(T[n]) /\ Tombstone(R[n])
                       /\ Deletes(q, n) \subseteq Deletes(u, n)
                    \/ Tombstone(T[n]) /\ \E o \in Deletes(u, n) : o.seq >= s
  BY DEF Effect
<1>1. \A o \in Deletes(u, n) : o.seq >= t => o.seq >= s
  BY DEF Deletes, OpsFor, QueueOK, OpRecord
<1>2. \/ /\ T[n] = S[n] /\ Writes(u, n) = Writes(r, n)
         /\ Deletes(r, n) \subseteq Deletes(u, n)
      \/ Live(T[n]) /\ T[n].dirty /\ Writes(u, n) # {}
      \/ Tombstone(T[n]) /\ Tombstone(S[n]) /\ Deletes(r, n) \subseteq Deletes(u, n)
      \/ Tombstone(T[n]) /\ \E o \in Deletes(u, n) : o.seq >= t
  BY DEF Effect
<1>3. \/ S[n] = R[n] /\ Writes(r, n) = Writes(q, n) /\ Deletes(q, n) \subseteq Deletes(r, n)
      \/ Live(S[n]) /\ S[n].dirty /\ Writes(r, n) # {}
      \/ Tombstone(S[n]) /\ Tombstone(R[n]) /\ Deletes(q, n) \subseteq Deletes(r, n)
      \/ Tombstone(S[n]) /\ \E o \in Deletes(r, n) : o.seq >= s
  BY DEF Effect
<1>4. ~(Live(S[n]) /\ Tombstone(S[n])) BY DEF Live, Tombstone
<1> QED BY <1>1, <1>2, <1>3, <1>4

LEMMA EditOK ==
  ASSUME NEW R, NEW q, NEW s \in Nat, NEW n \in NoteIds, NEW row \in Row, NEW from \in Paths,
         StoreOK(R, q, s), row.dirty, RowOK(row), row.deleted => Tombstone(R[n])
  PROVE  LET S == [R EXCEPT ![n] = row]
             r == QueueEdit(q, s, n, row, from)
         IN  StoreOK(S, r, s + 2) /\ Keeps(q, r, s) /\ Effect(R, q, S, r, s)
<1> DEFINE S == [R EXCEPT ![n] = row]
           w == QueueWrite(q, s, n, row, NoSeq)
           r == QueueEdit(q, s, n, row, from)
<1>1. /\ QueueOK(w, s + 1)
      /\ Keeps(q, w, s)
      /\ row.deleted => w = q
      /\ ~row.deleted => Writes(w, n) # {}
      /\ \A m \in NoteIds \ {n} : Writes(w, m) = Writes(q, m)
      /\ \A m \in NoteIds : Deletes(w, m) = Deletes(q, m)
  BY QueueWriteOK, NoSeq < s, NoSeq \in Int DEF StoreOK, NoSeq
<1>2. /\ QueueOK(r, s + 2)
      /\ Keeps(w, r, s + 1)
      /\ \A m \in NoteIds : Writes(r, m) = Writes(w, m)
      /\ \A m \in NoteIds : Deletes(r, m) = Deletes(w, m)
  <2>1. CASE row.path = from
    <3>1. r = w BY <2>1 DEF QueueEdit
    <3> QED BY <1>1, <3>1 DEF QueueOK, Keeps, OpRecord
  <2>2. CASE row.path # from
    <3>1. r = QueueMove(w, s + 1, n, row, from) BY <2>2 DEF QueueEdit
    <3>2. row.path \in Paths BY DEF Row
    <3>3. QueueOK(r, (s + 1) + 1) /\ Keeps(w, r, s + 1)
          /\ (\A m \in NoteIds : Writes(r, m) = Writes(w, m))
          /\ (\A m \in NoteIds : Deletes(r, m) = Deletes(w, m))
      BY <1>1, <3>1, <3>2, QueueMoveOK
    <3> QED BY <3>3
  <2> QED BY <2>1, <2>2
<1>3. Keeps(q, r, s)
  BY <1>1, <1>2, KeepsTrans DEF StoreOK, QueueOK
<1>4. S \in [NoteIds -> Row \cup {NoRow}] /\ S[n] = row /\ \A m \in NoteIds \ {n} : S[m] = R[m]
  BY DEF StoreOK
<1>5. row # NoRow BY StoreAssumption
<1>6. row.deleted \in BOOLEAN BY DEF Row
<1>7. \A m \in NoteIds : NoteOK(S[m], r, m)
  BY <1>1, <1>2, <1>4, <1>5, <1>6 DEF StoreOK, NoteOK, Live, Tombstone
<1>8. \A m \in NoteIds : S[m] # NoRow => RowOK(S[m])
  BY <1>4 DEF StoreOK
<1>9. Effect(R, q, S, r, s)
  BY <1>1, <1>2, <1>4, <1>5, <1>6 DEF Effect, Live, Tombstone
<1> QED BY <1>2, <1>3, <1>4, <1>7, <1>8, <1>9 DEF StoreOK

LEMMA DeleteOK ==
  ASSUME NEW R, NEW q, NEW s \in Nat, NEW n \in NoteIds, NEW row \in Row,
         StoreOK(R, q, s), RowOK(row), row.deleted
  PROVE  LET S == [R EXCEPT ![n] = row]
             r == QueueDelete(q, s, n, row)
         IN  StoreOK(S, r, s + 1) /\ Keeps(q, r, s) /\ Effect(R, q, S, r, s)
<1> DEFINE S == [R EXCEPT ![n] = row]
           op == NoteOp(s, "delete", n)
           r == QueueDelete(q, s, n, row)
<1>1. op \in OpRecord /\ op.seq = s /\ op.kind = "delete" /\ op.note = n
  BY DEF NoteOp, OpRecord
<1>2. r = (q \ Writes(q, n)) \cup {op} BY DEF QueueDelete
<1>3. \A o \in q : o.seq \in Nat /\ o.seq < s BY DEF StoreOK, QueueOK, OpRecord
<1>4. QueueOK(r, s + 1) BY <1>1, <1>2, <1>3 DEF StoreOK, QueueOK
<1>5. Keeps(q, r, s) BY <1>1, <1>2, <1>3 DEF Keeps
<1>6. /\ Writes(r, n) = {}
      /\ op \in Deletes(r, n)
      /\ \A m \in NoteIds \ {n} : Writes(r, m) = Writes(q, m) /\ Deletes(r, m) = Deletes(q, m)
  BY <1>1, <1>2 DEF Writes, Deletes, OpsFor
<1>7. S \in [NoteIds -> Row \cup {NoRow}] /\ S[n] = row /\ \A m \in NoteIds \ {n} : S[m] = R[m]
  BY DEF StoreOK
<1>8. Tombstone(S[n]) /\ ~Live(S[n]) BY <1>7, StoreAssumption DEF Tombstone, Live
<1>9. \A m \in NoteIds : NoteOK(S[m], r, m)
  BY <1>6, <1>7, <1>8 DEF StoreOK, NoteOK
<1>10. Effect(R, q, S, r, s)
  <2>1. op.seq >= s BY <1>1
  <2>2. Tombstone(S[n]) /\ \E o \in Deletes(r, n) : o.seq >= s BY <1>6, <1>8, <2>1
  <2> QED BY <1>6, <1>7, <2>2 DEF Effect
<1>11. \A m \in NoteIds : S[m] # NoRow => RowOK(S[m])
  BY <1>7 DEF StoreOK
<1>12. StoreOK(S, r, s + 1) BY <1>4, <1>7, <1>9, <1>11 DEF StoreOK
<1> QED BY <1>5, <1>10, <1>12

LEMMA RestoreOK ==
  ASSUME NEW R, NEW q, NEW s \in Nat, NEW n \in NoteIds, NEW row \in Row,
         StoreOK(R, q, s), RowOK(row), ~row.deleted, row.dirty
  PROVE  LET S == [R EXCEPT ![n] = row]
             r == QueueRestore(q, s, n, row)
         IN  StoreOK(S, r, s + 1) /\ Keeps(q, r, s) /\ Effect(R, q, S, r, s)
<1> DEFINE S == [R EXCEPT ![n] = row]
           d == q \ Deletes(q, n)
           r == QueueRestore(q, s, n, row)
<1>1. QueueOK(d, s) BY DEF StoreOK, QueueOK
<1>2. /\ QueueOK(r, s + 1)
      /\ Keeps(d, r, s)
      /\ Writes(r, n) # {}
      /\ \A m \in NoteIds \ {n} : Writes(r, m) = Writes(d, m)
      /\ \A m \in NoteIds : Deletes(r, m) = Deletes(d, m)
  <2>1. r = QueueWrite(d, s, n, row, NoSeq) BY DEF QueueRestore
  <2>2. NoSeq \in Int /\ NoSeq < s BY DEF NoSeq
  <2> HIDE DEF d, r
  <2> QED BY <1>1, <2>1, <2>2, QueueWriteOK
<1>3. \A m \in NoteIds \ {n} : Writes(d, m) = Writes(q, m) /\ Deletes(d, m) = Deletes(q, m)
  BY DEF Writes, Deletes, OpsFor
<1>4. Keeps(q, r, s) BY <1>2 DEF Keeps
<1>5. S \in [NoteIds -> Row \cup {NoRow}] /\ S[n] = row /\ \A m \in NoteIds \ {n} : S[m] = R[m]
  BY DEF StoreOK
<1>6. Live(S[n]) /\ ~Tombstone(S[n]) BY <1>5, StoreAssumption DEF Tombstone, Live
<1>7. \A m \in NoteIds : NoteOK(S[m], r, m)
  BY <1>2, <1>3, <1>5, <1>6 DEF StoreOK, NoteOK
<1>8. Effect(R, q, S, r, s)
  BY <1>2, <1>3, <1>5, <1>6 DEF Effect
<1> QED BY <1>2, <1>4, <1>5, <1>7, <1>8 DEF StoreOK

-----------------------------------------------------------------------------
(* The outcomes of ops, and the changes of a pull.                           *)

\* Removing one op, where it is not the write that a live note still needs or
\* the delete that a tombstone does.
LEMMA WithoutOK ==
  ASSUME NEW R, NEW q, NEW s \in Nat, NEW x, StoreOK(R, q, s),
         NEW n \in NoteIds, \A o \in q : o.seq = x => o.note = n,
         NoteOK(R[n], Without(q, x), n)
  PROVE  StoreOK(R, Without(q, x), s)
<1>1. QueueOK(Without(q, x), s) BY DEF Without, StoreOK, QueueOK
<1>2. \A m \in NoteIds \ {n} : /\ Writes(Without(q, x), m) = Writes(q, m)
                               /\ Deletes(Without(q, x), m) = Deletes(q, m)
  BY DEF Without, Writes, Deletes, OpsFor
<1>3. \A m \in NoteIds : NoteOK(R[m], Without(q, x), m)
  BY <1>2 DEF StoreOK, NoteOK
<1> QED BY <1>1, <1>3 DEF StoreOK

LEMMA PushedOK ==
  ASSUME NEW R, NEW q, NEW s \in Nat, NEW n \in NoteIds, NEW x \in Nat, x < s,
         NEW sent \in Texts, NEW at \in Paths, NEW file \in Files,
         StoreOK(R, q, s), R[n] # NoRow,
         \A o \in q : o.seq = x => o.note = n /\ o.kind = "write"
  PROVE  LET after == Pushed([rows |-> R, ops |-> q], s, x, n, sent, at, file)
         IN  StoreOK(after.rows, after.ops, s + 2)
<1> DEFINE same == R[n].text = sent
           row == [R[n] EXCEPT !.file = file, !.synced = sent, !.dirty = @ /\ ~same]
           S == [R EXCEPT ![n] = row]
           w == IF same THEN q ELSE QueueWrite(q, s, n, row, x)
           r == IF row.path = at THEN w ELSE QueueMove(w, s + 1, n, row, at)
           u == Without(r, x)
<1>1. /\ Pushed([rows |-> R, ops |-> q], s, x, n, sent, at, file).rows = S
      /\ Pushed([rows |-> R, ops |-> q], s, x, n, sent, at, file).ops = u
  BY DEF Pushed
<1>2. R[n] \in Row BY DEF StoreOK
<1>3. /\ row \in Row /\ row.file = file /\ row.synced = sent /\ row.text = R[n].text
      /\ row.deleted = R[n].deleted /\ row.dirty = (R[n].dirty /\ ~same)
      /\ row.file # NoFile /\ row # NoRow
  BY <1>2, StoreAssumption DEF Row
<1> HIDE DEF row
<1>4. /\ QueueOK(w, s + 1)
      /\ row.deleted => w = q
      /\ ~row.deleted /\ ~same => \E o \in Writes(w, n) : o.seq # x
      /\ \A m \in NoteIds \ {n} : Writes(w, m) = Writes(q, m)
      /\ \A m \in NoteIds : Deletes(w, m) = Deletes(q, m)
  <2>1. CASE same
    BY <2>1 DEF StoreOK, QueueOK, OpRecord
  <2>2. CASE ~same
    <3>1. w = QueueWrite(q, s, n, row, x) BY <2>2
    <3>2. x \in Int /\ QueueOK(q, s) BY DEF StoreOK
    <3> QED BY <2>2, <3>1, <3>2, <1>3, QueueWriteOK
  <2> QED BY <2>1, <2>2
<1>5. /\ QueueOK(r, s + 2)
      /\ \A m \in NoteIds : Writes(r, m) = Writes(w, m) /\ Deletes(r, m) = Deletes(w, m)
  <2>1. CASE row.path = at
    BY <2>1, <1>4 DEF QueueOK, OpRecord
  <2>2. CASE row.path # at
    <3>1. row.path \in Paths BY <1>3 DEF Row
    <3>2. r = QueueMove(w, s + 1, n, row, at) BY <2>2
    <3> HIDE DEF w, r
    <3>3. QueueOK(r, (s + 1) + 1)
          /\ \A m \in NoteIds : Writes(r, m) = Writes(w, m) /\ Deletes(r, m) = Deletes(w, m)
      BY <3>1, <3>2, <1>4, QueueMoveOK
    <3> QED BY <3>3
  <2> QED BY <2>1, <2>2
<1>6. QueueOK(u, s + 2) BY <1>5 DEF QueueOK, Without
<1>7. \A m \in NoteIds \ {n} : Writes(u, m) = Writes(q, m) /\ Deletes(u, m) = Deletes(q, m)
  <2> SUFFICES ASSUME NEW m \in NoteIds \ {n}
               PROVE  Writes(u, m) = Writes(q, m) /\ Deletes(u, m) = Deletes(q, m)
    OBVIOUS
  <2>1. Writes(r, m) = Writes(q, m) /\ Deletes(r, m) = Deletes(q, m)
    BY <1>4, <1>5
  <2>2. \A o \in Writes(q, m) \cup Deletes(q, m) : o.seq # x
    BY DEF Writes, Deletes, OpsFor
  <2>3. Writes(u, m) = {o \in Writes(r, m) : o.seq # x}
        /\ Deletes(u, m) = {o \in Deletes(r, m) : o.seq # x}
    BY DEF Writes, Deletes, OpsFor, Without
  <2> QED BY <2>1, <2>2, <2>3
<1>8. Deletes(u, n) = Deletes(q, n)
  <2>1. Deletes(r, n) = Deletes(q, n) BY <1>4, <1>5
  <2>2. \A o \in Deletes(q, n) : o.seq # x BY DEF Deletes, OpsFor
  <2>3. Deletes(u, n) = {o \in Deletes(r, n) : o.seq # x}
    BY DEF Deletes, OpsFor, Without
  <2> QED BY <2>1, <2>2, <2>3
<1>9. Writes(u, n) = {o \in Writes(w, n) : o.seq # x}
  <2>1. Writes(u, n) = {o \in Writes(r, n) : o.seq # x}
    BY DEF Writes, OpsFor, Without
  <2> QED BY <2>1, <1>5
<1>10. S \in [NoteIds -> Row \cup {NoRow}] /\ S[n] = row /\ \A m \in NoteIds \ {n} : S[m] = R[m]
  BY <1>3 DEF StoreOK
<1>11. NoteOK(row, u, n)
  <2>1. CASE row.deleted
    <3>1. Tombstone(R[n]) BY <1>2, <1>3, <2>1 DEF Tombstone
    <3>2. Deletes(q, n) # {} /\ Writes(q, n) = {} BY <3>1 DEF StoreOK, NoteOK
    <3>3. Writes(u, n) = {} BY <1>4, <1>9, <2>1, <3>2
    <3> QED BY <1>8, <2>1, <3>2, <3>3 DEF NoteOK, Live
  <2>2. CASE ~row.deleted /\ same
    BY <1>3, <2>2 DEF NoteOK, Live, Tombstone
  <2>3. CASE ~row.deleted /\ ~same
    <3>1. Writes(u, n) # {} BY <1>4, <1>9, <2>3
    <3> QED BY <3>1, <2>3 DEF NoteOK, Live, Tombstone
  <2>4. row.deleted \in BOOLEAN BY <1>3 DEF Row
  <2> QED BY <2>1, <2>2, <2>3, <2>4
<1>12. \A m \in NoteIds : NoteOK(S[m], u, m)
  BY <1>7, <1>10, <1>11 DEF StoreOK, NoteOK
<1>13. \A m \in NoteIds : S[m] # NoRow => RowOK(S[m])
  BY <1>3, <1>10 DEF StoreOK, RowOK
<1> QED BY <1>1, <1>6, <1>10, <1>12, <1>13 DEF StoreOK

\* One row replaced, and the queue changed for that note alone.
LEMMA RowChangeOK ==
  ASSUME NEW R, NEW q, NEW s \in Nat, NEW n \in NoteIds, NEW row \in Row \cup {NoRow},
         NEW u, NEW z \in Nat, StoreOK(R, q, s), QueueOK(u, z),
         row # NoRow => RowOK(row), NoteOK(row, u, n),
         \A m \in NoteIds \ {n} : /\ Writes(u, m) = {} <=> Writes(q, m) = {}
                                  /\ Deletes(u, m) = {} <=> Deletes(q, m) = {}
  PROVE  StoreOK([R EXCEPT ![n] = row], u, z)
<1> DEFINE S == [R EXCEPT ![n] = row]
<1>1. S \in [NoteIds -> Row \cup {NoRow}] /\ S[n] = row /\ \A m \in NoteIds \ {n} : S[m] = R[m]
  BY DEF StoreOK
<1>2. ASSUME NEW m \in NoteIds PROVE NoteOK(S[m], u, m)
  <2>1. CASE m = n BY <1>1, <2>1
  <2>2. CASE m # n
    <3>1. S[m] = R[m] /\ NoteOK(R[m], q, m) BY <1>1, <2>2 DEF StoreOK
    <3> QED BY <2>2, <3>1 DEF NoteOK
  <2> QED BY <2>1, <2>2
<1>3. \A m \in NoteIds : S[m] # NoRow => RowOK(S[m])
  BY <1>1 DEF StoreOK
<1> QED BY <1>1, <1>2, <1>3 DEF StoreOK

LEMMA WithoutQueue ==
  ASSUME NEW q, NEW s \in Nat, NEW x, NEW n \in NoteIds, QueueOK(q, s),
         \A o \in q : o.seq = x => o.note = n
  PROVE  /\ QueueOK(Without(q, x), s)
         /\ Keeps(q, Without(q, x), s)
         /\ \A m \in NoteIds \ {n} : /\ Writes(Without(q, x), m) = Writes(q, m)
                                     /\ Deletes(Without(q, x), m) = Deletes(q, m)
         /\ Writes(Without(q, x), n) = {o \in Writes(q, n) : o.seq # x}
         /\ Deletes(Without(q, x), n) = {o \in Deletes(q, n) : o.seq # x}
<1>1. QueueOK(Without(q, x), s) BY DEF Without, QueueOK
<1>2. Keeps(q, Without(q, x), s) BY DEF Without, Keeps
<1> QED BY <1>1, <1>2 DEF Without, Writes, Deletes, OpsFor

LEMMA OriginOK ==
  ASSUME NEW q, NEW s \in Nat, NEW n \in NoteIds, NEW at \in Paths, QueueOK(q, s)
  PROVE  /\ QueueOK(OriginIsNow(q, n, at), s)
         /\ Keeps(q, OriginIsNow(q, n, at), s)
         /\ \A m \in NoteIds : /\ Writes(OriginIsNow(q, n, at), m) = Writes(q, m)
                               /\ Deletes(OriginIsNow(q, n, at), m) = Deletes(q, m)
<1> DEFINE f(o) == IF o.note = n /\ o.kind = "move" THEN [o EXCEPT !.path = at] ELSE o
           u == OriginIsNow(q, n, at)
<1>1. u = {f(o) : o \in q} BY DEF OriginIsNow
<1>2. ASSUME NEW o \in OpRecord
      PROVE  /\ f(o) \in OpRecord
             /\ f(o).seq = o.seq /\ f(o).kind = o.kind /\ f(o).note = o.note
             /\ o.kind # "move" => f(o) = o
  BY <1>2 DEF OpRecord
<1> HIDE DEF f, u
<1>3. QueueOK(u, s) BY <1>1, <1>2 DEF QueueOK
<1>4. \A m \in NoteIds : Writes(u, m) = Writes(q, m) /\ Deletes(u, m) = Deletes(q, m)
  BY <1>1, <1>2 DEF QueueOK, Writes, Deletes, OpsFor
<1>5. Keeps(q, u, s) BY <1>1, <1>2 DEF QueueOK, Keeps
<1> QED BY <1>3, <1>4, <1>5 DEF u

LEMMA RebaseOK ==
  ASSUME NEW q, NEW s \in Nat, NEW n \in NoteIds, NEW from \in Paths, NEW to \in Paths,
         QueueOK(q, s)
  PROVE  LET u == RebaseOwnOps(q, n, from, to)
         IN  /\ QueueOK(u, s)
             /\ Keeps(q, u, s)
             /\ \A m \in NoteIds : /\ Writes(u, m) = {} <=> Writes(q, m) = {}
                                   /\ Deletes(u, m) = {} <=> Deletes(q, m) = {}
<1> DEFINE f(o) == IF o.note = n
                   THEN [o EXCEPT !.path   = IF @ = from THEN to ELSE @,
                                  !.target = IF @ = from THEN to ELSE @]
                   ELSE o
           u == RebaseOwnOps(q, n, from, to)
<1>1. u = {f(o) : o \in q} BY DEF RebaseOwnOps
<1>2. ASSUME NEW o \in OpRecord
      PROVE  /\ f(o) \in OpRecord
             /\ f(o).seq = o.seq /\ f(o).kind = o.kind /\ f(o).note = o.note
  BY <1>2 DEF OpRecord
<1> HIDE DEF f, u
<1>3. QueueOK(u, s) BY <1>1, <1>2 DEF QueueOK
<1>4. Keeps(q, u, s) BY <1>1, <1>2 DEF QueueOK, Keeps
<1>5. \A m \in NoteIds : /\ Writes(u, m) = {} <=> Writes(q, m) = {}
                         /\ Deletes(u, m) = {} <=> Deletes(q, m) = {}
  BY <1>1, <1>2 DEF QueueOK, OpsFor, Writes, Deletes
<1> QED BY <1>3, <1>4, <1>5 DEF u

\* A row rewritten in place: its flags as they were, or one the note still owes.
LEMMA MovedOK ==
  ASSUME NEW R, NEW q, NEW s \in Nat, NEW n \in NoteIds, NEW x \in Nat, x < s,
         NEW at \in Paths, NEW file \in Files,
         StoreOK(R, q, s), R[n] # NoRow,
         \A o \in q : o.seq = x => o.note = n /\ o.kind = "move"
  PROVE  LET after == Moved([rows |-> R, ops |-> q], s, x, n, at, file)
         IN  StoreOK(after.rows, after.ops, s + 1)
<1> DEFINE after == Moved([rows |-> R, ops |-> q], s, x, n, at, file)
           bound == [R[n] EXCEPT !.file = file]
           row == [bound EXCEPT !.path = at]
<1> SUFFICES StoreOK(after.rows, after.ops, s + 1) OBVIOUS
<1>1. R[n] \in Row BY DEF StoreOK
<1>2. /\ bound \in Row /\ bound # NoRow /\ bound.file # NoFile /\ bound.path \in Paths
      /\ bound.deleted = R[n].deleted /\ bound.dirty = R[n].dirty
      /\ bound.text = R[n].text /\ bound.synced = R[n].synced
  BY <1>1, StoreAssumption DEF Row
<1>3. /\ row \in Row /\ row # NoRow /\ row.file # NoFile
      /\ row.deleted = R[n].deleted /\ row.dirty = R[n].dirty
      /\ row.text = R[n].text /\ row.synced = R[n].synced
  BY <1>2, StoreAssumption DEF Row
<1>4. NoteOK(R[n], q, n) /\ QueueOK(q, s) BY DEF StoreOK
<1>5. CASE Queued(q, x)
  <2> DEFINE u == Without(q, x)
  <2>1. after.rows = [R EXCEPT ![n] = row] /\ after.ops = u BY <1>5 DEF Moved
  <2>2. /\ QueueOK(u, s)
        /\ \A m \in NoteIds \ {n} : Writes(u, m) = Writes(q, m) /\ Deletes(u, m) = Deletes(q, m)
        /\ Writes(u, n) = {o \in Writes(q, n) : o.seq # x}
        /\ Deletes(u, n) = {o \in Deletes(q, n) : o.seq # x}
    BY <1>4, WithoutQueue
  <2>3. Writes(u, n) = Writes(q, n) /\ Deletes(u, n) = Deletes(q, n)
    BY <2>2 DEF Writes, Deletes, OpsFor
  <2>4. QueueOK(u, s + 1) BY <2>2 DEF QueueOK, OpRecord
  <2> HIDE DEF row, after
  <2>5. NoteOK(row, u, n) BY <1>1, <1>3, <1>4, <2>3, StoreAssumption DEF NoteOK, Live, Tombstone
  <2>6. RowOK(row) BY <1>3 DEF RowOK
  <2> HIDE DEF u
  <2>9. s + 1 \in Nat OBVIOUS
  <2>10. StoreOK([R EXCEPT ![n] = row], u, s + 1) BY <1>3, <2>2, <2>4, <2>5, <2>6, <2>9, RowChangeOK
  <2> QED BY <2>1, <2>10
<1>6. CASE ~Queued(q, x)
  <2> DEFINE u == QueueMove(q, s, n, bound, at)
  <2>1. after.rows = [R EXCEPT ![n] = bound] /\ after.ops = u BY <1>6 DEF Moved
  <2> HIDE DEF bound, after
  <2>2. /\ QueueOK(u, s + 1)
        /\ \A m \in NoteIds : Writes(u, m) = Writes(q, m)
        /\ \A m \in NoteIds : Deletes(u, m) = Deletes(q, m)
    BY <1>2, <1>4, QueueMoveOK
  <2> HIDE DEF u
  <2>3. NoteOK(bound, u, n) BY <1>1, <1>2, <1>4, <2>2, StoreAssumption DEF NoteOK, Live, Tombstone
  <2>4. RowOK(bound) BY <1>2 DEF RowOK
  <2>9. s + 1 \in Nat OBVIOUS
  <2>10. StoreOK([R EXCEPT ![n] = bound], u, s + 1) BY <1>2, <2>2, <2>3, <2>4, <2>9, RowChangeOK
  <2> QED BY <2>1, <2>10
<1> QED BY <1>5, <1>6

LEMMA PurgedOK ==
  ASSUME NEW R, NEW q, NEW s \in Nat, NEW n \in NoteIds, NEW x \in Nat, x < s,
         StoreOK(R, q, s),
         \A o \in q : o.seq = x => o.note = n /\ o.kind = "delete"
  PROVE  LET after == Purged([rows |-> R, ops |-> q], s, x, n)
         IN  StoreOK(after.rows, after.ops, s + 1)
<1> DEFINE after == Purged([rows |-> R, ops |-> q], s, x, n)
           row == [WithoutRemote(R[n]) EXCEPT !.dirty = TRUE]
<1> SUFFICES StoreOK(after.rows, after.ops, s + 1) OBVIOUS
<1>1. QueueOK(q, s) /\ x \in Int /\ NoSeq \in Int /\ NoSeq < s BY DEF StoreOK, NoSeq
<1>2. CASE Live(R[n])
  <2> DEFINE w == QueueWrite(q, s, n, row, NoSeq)
             u == Without(w, x)
  <2>1. after.rows = [R EXCEPT ![n] = row] /\ after.ops = u BY <1>2 DEF Purged
  <2>2. R[n] \in Row /\ ~R[n].deleted BY <1>2 DEF StoreOK, Live
  <2>3. row \in Row /\ row # NoRow /\ ~row.deleted /\ RowOK(row)
    BY <2>2, StoreAssumption DEF Row, WithoutRemote, RowOK
  <2> HIDE DEF row, after
  <2>4. /\ QueueOK(w, s + 1) /\ Keeps(q, w, s)
        /\ \E o \in Writes(w, n) : o.seq # NoSeq
        /\ \A m \in NoteIds \ {n} : Writes(w, m) = Writes(q, m)
        /\ \A m \in NoteIds : Deletes(w, m) = Deletes(q, m)
    BY <1>1, <2>3, QueueWriteOK
  <2> HIDE DEF w
  <2>5. \A o \in w : o.seq = x => o.note = n /\ o.kind = "delete"
    BY <2>4 DEF Keeps
  <2>6. /\ QueueOK(u, s + 1)
        /\ \A m \in NoteIds \ {n} : Writes(u, m) = Writes(w, m) /\ Deletes(u, m) = Deletes(w, m)
        /\ Writes(u, n) = {o \in Writes(w, n) : o.seq # x}
    BY <2>4, <2>5, WithoutQueue
  <2>7. Writes(u, n) # {} BY <2>4, <2>5, <2>6 DEF Writes, OpsFor
  <2>8. NoteOK(row, u, n) BY <2>3, <2>7 DEF NoteOK, Live, Tombstone
  <2> HIDE DEF u
  <2>9. s + 1 \in Nat OBVIOUS
  <2>10. StoreOK([R EXCEPT ![n] = row], u, s + 1) BY <2>3, <2>4, <2>6, <2>8, <2>9, RowChangeOK
  <2> QED BY <2>1, <2>10
<1>3. CASE ~Live(R[n])
  <2> DEFINE u == Without(q, x)
  <2>1. after.rows = [R EXCEPT ![n] = NoRow] /\ after.ops = u BY <1>3 DEF Purged
  <2>2. /\ QueueOK(u, s)
        /\ \A m \in NoteIds \ {n} : Writes(u, m) = Writes(q, m) /\ Deletes(u, m) = Deletes(q, m)
    <3>1. \A o \in q : o.seq = x => o.note = n OBVIOUS
    <3> QED BY <1>1, <3>1, WithoutQueue
  <2>3. QueueOK(u, s + 1) BY <2>2 DEF QueueOK, OpRecord
  <2> HIDE DEF u, after
  <2>4. NoteOK(NoRow, u, n) BY DEF NoteOK, Live, Tombstone
  <2>9. s + 1 \in Nat OBVIOUS
  <2>10. StoreOK([R EXCEPT ![n] = NoRow], u, s + 1) BY <2>2, <2>3, <2>4, <2>9, RowChangeOK
  <2> QED BY <2>1, <2>10
<1> QED BY <1>2, <1>3

\* What a pull may count on when its change comes to be applied.
ChangeOK(c, R, q) ==
  /\ c.kind \in {"upsert", "adopt", "move", "conflict"} => c.file \in Files
  /\ c.kind = "conflict" => c.copy # c.note
  /\ Live(R[c.note]) =>
       /\ c.kind = "detach" => Writes(q, c.note) # {}
       /\ c.kind \in {"adopt", "move"} /\ Writes(q, c.note) = {} => c.synced = R[c.note].text

LEMMA UpsertOK ==
  ASSUME NEW R, NEW q, NEW s \in Nat, NEW c, c.note \in NoteIds, c.path \in Paths,
         c.text \in Texts, c.file \in Files, StoreOK(R, q, s), ~Unsent(R[c.note])
  PROVE  LET after == Upsert([rows |-> R, ops |-> q], c)
         IN  StoreOK(after.rows, after.ops, s)
<1> DEFINE after == Upsert([rows |-> R, ops |-> q], c)
           row == RowFromFile(R[c.note], c)
           u == OriginIsNow(q, c.note, c.path)
<1>1. after.rows = [R EXCEPT ![c.note] = row] /\ after.ops = u
  BY DEF Upsert, StoreOK
<1>2. /\ row \in Row /\ row # NoRow /\ row.file # NoFile /\ RowOK(row)
      /\ ~row.dirty /\ row.synced = row.text
      /\ row.deleted <=> Tombstone(R[c.note])
  <2>1. Tombstone(R[c.note]) \in BOOLEAN BY DEF StoreOK, Row, Tombstone
  <2> HIDE DEF row
  <2>2. row = [path |-> c.path, text |-> c.text, dirty |-> FALSE, file |-> c.file,
               deleted |-> Tombstone(R[c.note]), synced |-> c.text]
    BY DEF row, RowFromFile
  <2>3. row \in Row BY <2>1, <2>2 DEF Row
  <2> QED BY <2>1, <2>2, <2>3, StoreAssumption DEF RowOK
<1>3. QueueOK(q, s) /\ NoteOK(R[c.note], q, c.note) BY DEF StoreOK
<1>4. /\ QueueOK(u, s)
      /\ \A m \in NoteIds : Writes(u, m) = Writes(q, m) /\ Deletes(u, m) = Deletes(q, m)
  BY <1>3, OriginOK
<1> HIDE DEF row, u
<1>5. NoteOK(row, u, c.note) BY <1>2, <1>3, <1>4 DEF NoteOK, Live, Tombstone
<1>6. StoreOK([R EXCEPT ![c.note] = row], u, s) BY <1>2, <1>4, <1>5, RowChangeOK
<1> QED BY <1>1, <1>6

LEMMA AdoptOK ==
  ASSUME NEW R, NEW q, NEW s \in Nat, NEW c, c.note \in NoteIds, c.path \in Paths,
         c.synced \in Texts \cup {NoSynced}, c.file \in Files, StoreOK(R, q, s),
         R[c.note] # NoRow,
         Live(R[c.note]) /\ Writes(q, c.note) = {} => c.synced = R[c.note].text
  PROVE  LET after == AdoptVersion([rows |-> R, ops |-> q], c)
         IN  StoreOK(after.rows, after.ops, s)
<1> DEFINE after == AdoptVersion([rows |-> R, ops |-> q], c)
           row == [R[c.note] EXCEPT !.file = c.file, !.synced = c.synced]
           u == OriginIsNow(q, c.note, c.path)
<1>1. after.rows = [R EXCEPT ![c.note] = row] /\ after.ops = u
  BY DEF AdoptVersion, StoreOK
<1>2. R[c.note] \in Row BY DEF StoreOK
<1>3. /\ row \in Row /\ row # NoRow /\ row.file # NoFile /\ RowOK(row)
      /\ row.dirty = R[c.note].dirty /\ row.deleted = R[c.note].deleted
      /\ row.synced = c.synced /\ row.text = R[c.note].text
  BY <1>2, StoreAssumption DEF Row, RowOK
<1>4. QueueOK(q, s) /\ NoteOK(R[c.note], q, c.note) BY DEF StoreOK
<1>5. /\ QueueOK(u, s)
      /\ \A m \in NoteIds : Writes(u, m) = Writes(q, m) /\ Deletes(u, m) = Deletes(q, m)
  BY <1>4, OriginOK
<1> HIDE DEF row, u
<1>6. NoteOK(row, u, c.note) BY <1>3, <1>4, <1>5 DEF NoteOK, Live, Tombstone
<1>7. StoreOK([R EXCEPT ![c.note] = row], u, s) BY <1>3, <1>5, <1>6, RowChangeOK
<1> QED BY <1>1, <1>7

LEMMA MoveNoteOK ==
  ASSUME NEW R, NEW q, NEW s \in Nat, NEW c, c.note \in NoteIds, c.path \in Paths,
         c.synced \in Texts \cup {NoSynced}, c.file \in Files, StoreOK(R, q, s),
         R[c.note] # NoRow,
         Live(R[c.note]) /\ Writes(q, c.note) = {} => c.synced = R[c.note].text
  PROVE  LET after == MoveNote([rows |-> R, ops |-> q], c)
         IN  StoreOK(after.rows, after.ops, s)
<1> DEFINE after == MoveNote([rows |-> R, ops |-> q], c)
           row == [R[c.note] EXCEPT !.path = c.path, !.file = c.file, !.synced = c.synced]
           u == RebaseOwnOps(q, c.note, R[c.note].path, c.path)
<1>1. after.rows = [R EXCEPT ![c.note] = row] /\ after.ops = u
  BY DEF MoveNote, StoreOK
<1>2. R[c.note] \in Row /\ R[c.note].path \in Paths BY DEF StoreOK, Row
<1>3. /\ row \in Row /\ row # NoRow /\ row.file # NoFile /\ RowOK(row)
      /\ row.dirty = R[c.note].dirty /\ row.deleted = R[c.note].deleted
      /\ row.synced = c.synced /\ row.text = R[c.note].text
  BY <1>2, StoreAssumption DEF Row, RowOK
<1>4. QueueOK(q, s) /\ NoteOK(R[c.note], q, c.note) BY DEF StoreOK
<1>5. /\ QueueOK(u, s)
      /\ \A m \in NoteIds : /\ Writes(u, m) = {} <=> Writes(q, m) = {}
                            /\ Deletes(u, m) = {} <=> Deletes(q, m) = {}
  BY <1>2, <1>4, RebaseOK
<1> HIDE DEF row, u
<1>6. NoteOK(row, u, c.note) BY <1>3, <1>4, <1>5 DEF NoteOK, Live, Tombstone
<1>7. StoreOK([R EXCEPT ![c.note] = row], u, s) BY <1>3, <1>5, <1>6, RowChangeOK
<1> QED BY <1>1, <1>7

LEMMA DeleteNoteOK ==
  ASSUME NEW R, NEW q, NEW s \in Nat, NEW c, c.note \in NoteIds, StoreOK(R, q, s)
  PROVE  LET after == DeleteNote([rows |-> R, ops |-> q], c)
         IN  StoreOK(after.rows, after.ops, s)
<1>1. QueueOK(q, s) BY DEF StoreOK
<1>2. NoteOK(NoRow, q, c.note) BY DEF NoteOK, Live, Tombstone
<1>3. StoreOK([R EXCEPT ![c.note] = NoRow], q, s) BY <1>1, <1>2, RowChangeOK
<1> QED BY <1>3 DEF DeleteNote

\* The row a live note is left with owes a write, as it did.
LEMMA DetachOK ==
  ASSUME NEW R, NEW q, NEW s \in Nat, NEW c, c.note \in NoteIds, StoreOK(R, q, s),
         Live(R[c.note]) => Writes(q, c.note) # {}
  PROVE  LET after == DetachNote([rows |-> R, ops |-> q], c)
         IN  StoreOK(after.rows, after.ops, s)
<1> DEFINE after == DetachNote([rows |-> R, ops |-> q], c)
           row == WithoutRemote(R[c.note])
<1> SUFFICES StoreOK(after.rows, after.ops, s) OBVIOUS
<1>1. CASE R[c.note] = NoRow BY <1>1 DEF DetachNote
<1>2. CASE R[c.note] # NoRow
  <2>1. R[c.note] \in Row BY <1>2 DEF StoreOK
  <2>2. /\ row \in Row /\ row # NoRow /\ RowOK(row)
        /\ row.dirty = R[c.note].dirty /\ row.deleted = R[c.note].deleted
    BY <2>1, StoreAssumption DEF Row, RowOK, WithoutRemote
  <2>3. QueueOK(q, s) /\ NoteOK(R[c.note], q, c.note) BY DEF StoreOK
  <2> HIDE DEF row
  <2>4. NoteOK(row, q, c.note) BY <1>2, <2>2, <2>3 DEF NoteOK, Live, Tombstone
  <2>5. StoreOK([R EXCEPT ![c.note] = row], q, s) BY <2>2, <2>3, <2>4, RowChangeOK
  <2>6. after.rows = [R EXCEPT ![c.note] = row] /\ after.ops = q
    BY <1>2 DEF DetachNote, row, StoreOK
  <2> QED BY <2>5, <2>6
<1> QED BY <1>1, <1>2

LEMMA DisplaceOK ==
  ASSUME NEW R, NEW q, NEW s \in Nat, NEW c, c.note \in NoteIds, c.path \in Paths,
         StoreOK(R, q, s)
  PROVE  LET after == DisplaceNote([rows |-> R, ops |-> q], c)
         IN  /\ StoreOK(after.rows, after.ops, s)
             /\ Keeps(q, after.ops, s)
             /\ \A m \in NoteIds : Writes(after.ops, m) = {} <=> Writes(q, m) = {}
<1> DEFINE after == DisplaceNote([rows |-> R, ops |-> q], c)
           row == [R[c.note] EXCEPT !.path = c.path]
           u == RebaseOwnOps(q, c.note, R[c.note].path, c.path)
<1>1. CASE R[c.note] = NoRow
  <2>1. after.rows = R /\ after.ops = q BY <1>1 DEF DisplaceNote
  <2>2. Keeps(q, q, s) BY DEF Keeps
  <2> QED BY <2>1, <2>2
<1>2. CASE R[c.note] # NoRow
  <2>1. after.rows = [R EXCEPT ![c.note] = row] /\ after.ops = u
    BY <1>2 DEF DisplaceNote, StoreOK
  <2> SUFFICES /\ StoreOK(after.rows, after.ops, s) /\ Keeps(q, after.ops, s)
               /\ \A m \in NoteIds : Writes(after.ops, m) = {} <=> Writes(q, m) = {}
    OBVIOUS
  <2>2. R[c.note] \in Row /\ R[c.note].path \in Paths BY <1>2 DEF StoreOK, Row
  <2>3. /\ row \in Row /\ row # NoRow
        /\ row.dirty = R[c.note].dirty /\ row.deleted = R[c.note].deleted
        /\ row.synced = R[c.note].synced /\ row.text = R[c.note].text
        /\ row.file = R[c.note].file
    BY <2>2, StoreAssumption DEF Row
  <2>4. QueueOK(q, s) /\ NoteOK(R[c.note], q, c.note) /\ RowOK(R[c.note])
    BY <1>2 DEF StoreOK
  <2>5. /\ QueueOK(u, s)
        /\ \A m \in NoteIds : /\ Writes(u, m) = {} <=> Writes(q, m) = {}
                              /\ Deletes(u, m) = {} <=> Deletes(q, m) = {}
    BY <2>2, <2>4, RebaseOK
  <2>8. Keeps(q, u, s) BY <2>2, <2>4, RebaseOK
  <2> HIDE DEF row, u
  <2>6. NoteOK(row, u, c.note) /\ RowOK(row)
    BY <1>2, <2>3, <2>4, <2>5 DEF NoteOK, RowOK, Live, Tombstone
  <2>7. StoreOK([R EXCEPT ![c.note] = row], u, s) BY <2>3, <2>5, <2>6, RowChangeOK
  <2> QED BY <2>1, <2>5, <2>7, <2>8
<1> QED BY <1>1, <1>2

LEMMA ReuploadOK ==
  ASSUME NEW R, NEW q, NEW s \in Nat, NEW c, c.note \in NoteIds, StoreOK(R, q, s)
  PROVE  LET after == ReuploadNote([rows |-> R, ops |-> q], s, c)
         IN  StoreOK(after.rows, after.ops, s + 1)
<1> DEFINE after == ReuploadNote([rows |-> R, ops |-> q], s, c)
           row == [WithoutRemote(R[c.note]) EXCEPT !.dirty = TRUE]
           op == NoteOp(s, "write", c.note)
           u == q \cup {op}
<1> SUFFICES StoreOK(after.rows, after.ops, s + 1) OBVIOUS
<1>1. QueueOK(q, s) BY DEF StoreOK
<1>2. op \in OpRecord /\ op.seq = s /\ op.kind = "write" /\ op.note = c.note
  BY DEF NoteOp, OpRecord
<1>3. QueueOK(q, s + 1) BY <1>1 DEF QueueOK, OpRecord
<1>4. CASE ~Live(R[c.note])
  <2>1. after.rows = R /\ after.ops = q BY <1>4 DEF ReuploadNote
  <2> QED BY <1>3, <2>1 DEF StoreOK
<1>5. CASE Live(R[c.note])
  <2>1. after.rows = [R EXCEPT ![c.note] = row] /\ after.ops = u
    BY <1>5 DEF ReuploadNote
  <2>2. R[c.note] \in Row /\ ~R[c.note].deleted BY <1>5 DEF Live, StoreOK
  <2>3. row \in Row /\ row # NoRow /\ ~row.deleted /\ RowOK(row)
    BY <2>2, StoreAssumption DEF Row, WithoutRemote, RowOK
  <2> HIDE DEF op, row
  <2>4. QueueOK(u, s + 1) BY <1>1, <1>2 DEF QueueOK, OpRecord
  <2>5. /\ op \in Writes(u, c.note)
        /\ \A m \in NoteIds \ {c.note} : Writes(u, m) = Writes(q, m) /\ Deletes(u, m) = Deletes(q, m)
    BY <1>2 DEF Writes, Deletes, OpsFor
  <2> HIDE DEF u
  <2>6. NoteOK(row, u, c.note) BY <2>3, <2>5 DEF NoteOK, Live, Tombstone
  <2>7. s + 1 \in Nat OBVIOUS
  <2>8. StoreOK([R EXCEPT ![c.note] = row], u, s + 1)
    BY <2>3, <2>4, <2>5, <2>6, <2>7, RowChangeOK
  <2> QED BY <2>1, <2>8
<1> QED BY <1>4, <1>5

LEMMA ConflictOK ==
  ASSUME NEW R, NEW q, NEW s \in Nat, NEW c, c.note \in NoteIds, c.path \in Paths,
         c.text \in Texts, c.file \in Files, c.copy \in NoteIds \ {c.note},
         c.copyPath \in Paths, StoreOK(R, q, s), R[c.note] # NoRow,
         Live(R[c.note]) => R[c.copy] = NoRow
  PROVE  LET after == Conflict([rows |-> R, ops |-> q], s, c)
         IN  /\ StoreOK(after.rows, after.ops, s + 1)
             /\ Keeps(q, after.ops, s)
             /\ Deletes(after.ops, c.note) = Deletes(q, c.note)
             /\ Writes(after.ops, c.note) = {}
             /\ Live(after.rows[c.note]) => /\ ~after.rows[c.note].dirty
                                            /\ after.rows[c.note].file # NoFile
                                            /\ after.rows[c.note].synced = after.rows[c.note].text
<1> DEFINE after == Conflict([rows |-> R, ops |-> q], s, c)
           n == c.note
           row == RowFromFile(R[n], c)
           over == [R EXCEPT ![n] = row]
           d == q \ Writes(q, n)
           kept == OriginIsNow(d, n, c.path)
           op == NoteOp(s, "write", c.copy)
           copy == [path |-> c.copyPath, text |-> R[n].text, dirty |-> TRUE, deleted |-> FALSE,
                    file |-> NoFile, synced |-> NoSynced]
<1>1. /\ row \in Row /\ row # NoRow /\ row.file # NoFile /\ RowOK(row)
      /\ ~row.dirty /\ row.synced = row.text
      /\ row.deleted <=> Tombstone(R[n])
  <2>1. Tombstone(R[n]) \in BOOLEAN BY DEF StoreOK, Row, Tombstone
  <2> HIDE DEF row
  <2>2. row = [path |-> c.path, text |-> c.text, dirty |-> FALSE, file |-> c.file,
               deleted |-> Tombstone(R[n]), synced |-> c.text]
    BY DEF row, RowFromFile
  <2>3. row \in Row BY <2>1, <2>2 DEF Row
  <2> QED BY <2>1, <2>2, <2>3, StoreAssumption DEF RowOK
<1>2. R[n] \in Row /\ QueueOK(q, s) /\ NoteOK(R[n], q, n) BY DEF StoreOK
<1>3. QueueOK(d, s) BY <1>2 DEF QueueOK
<1>4. /\ Writes(d, n) = {} /\ Deletes(d, n) = Deletes(q, n)
      /\ \A m \in NoteIds \ {n} : Writes(d, m) = Writes(q, m) /\ Deletes(d, m) = Deletes(q, m)
  BY DEF Writes, Deletes, OpsFor
<1>5. /\ QueueOK(kept, s) /\ Keeps(d, kept, s)
      /\ \A m \in NoteIds : Writes(kept, m) = Writes(d, m) /\ Deletes(kept, m) = Deletes(d, m)
  <2> HIDE DEF d
  <2> QED BY <1>3, OriginOK
<1>6. Keeps(q, kept, s) BY <1>5 DEF Keeps
<1> HIDE DEF row, d, kept
<1>7. Tombstone(R[n]) <=> R[n].deleted BY DEF Tombstone
<1>8. NoteOK(row, kept, n)
  BY <1>1, <1>2, <1>4, <1>5 DEF NoteOK, Live, Tombstone
<1>9. StoreOK(over, kept, s) BY <1>1, <1>4, <1>5, <1>8, RowChangeOK
<1>10. over[n] = row /\ over[c.copy] = R[c.copy] BY DEF StoreOK
<1>11. CASE R[n].deleted
  <2>1. after.rows = over /\ after.ops = kept BY <1>11 DEF Conflict, row, kept, d
  <2>2. QueueOK(kept, s + 1) BY <1>5 DEF QueueOK, OpRecord
  <2> HIDE DEF over, after
  <2>3. StoreOK(over, kept, s + 1) BY <1>9, <2>2 DEF StoreOK
  <2>4. ~Live(row) BY <1>1, <1>7, <1>11 DEF Live
  <2>5. StoreOK(after.rows, after.ops, s + 1) BY <2>1, <2>3
  <2>6. Keeps(q, after.ops, s) BY <2>1, <1>6
  <2>7. Deletes(after.ops, n) = Deletes(q, n) /\ Writes(after.ops, n) = {} BY <2>1, <1>4, <1>5
  <2>8. ~Live(after.rows[n]) BY <2>1, <2>4, <1>10
  <2> QED BY <2>5, <2>6, <2>7, <2>8 DEF after
<1>12. CASE ~R[n].deleted
  <2> DEFINE u == kept \cup {op}
             S == [over EXCEPT ![c.copy] = copy]
  <2>1. after.rows = S /\ after.ops = u BY <1>12 DEF Conflict, row, kept, d
  <2>2. op \in OpRecord /\ op.seq = s /\ op.kind = "write" /\ op.note = c.copy
    BY DEF NoteOp, OpRecord
  <2>3. copy \in Row /\ copy # NoRow /\ ~copy.deleted /\ RowOK(copy)
    <3>1. R[n].text \in Texts BY <1>2 DEF Row
    <3>2. copy \in Row BY <3>1 DEF Row
    <3> QED BY <3>2, StoreAssumption DEF RowOK
  <2> HIDE DEF op, copy, over
  <2>4. QueueOK(u, s + 1) BY <1>5, <2>2 DEF QueueOK, OpRecord
  <2>5. /\ op \in Writes(u, c.copy)
        /\ \A m \in NoteIds \ {c.copy} : Writes(u, m) = Writes(kept, m) /\ Deletes(u, m) = Deletes(kept, m)
    BY <2>2 DEF Writes, Deletes, OpsFor
  <2>6. Keeps(q, u, s) BY <1>6, <2>2 DEF Keeps
  <2> HIDE DEF u
  <2>7. NoteOK(copy, u, c.copy) BY <2>3, <2>5 DEF NoteOK, Live, Tombstone
  <2>8. s + 1 \in Nat OBVIOUS
  <2>9. StoreOK([over EXCEPT ![c.copy] = copy], u, s + 1)
    BY <1>9, <2>3, <2>4, <2>5, <2>7, <2>8, RowChangeOK
  <2>10. S[n] = row BY <1>9, <1>10 DEF StoreOK
  <2> HIDE DEF after
  <2>11. StoreOK(after.rows, after.ops, s + 1) BY <2>1, <2>9
  <2>12. Keeps(q, after.ops, s) BY <2>1, <2>6
  <2>13. Deletes(after.ops, n) = Deletes(q, n) /\ Writes(after.ops, n) = {}
    BY <2>1, <2>5, <1>4, <1>5
  <2>14. Live(after.rows[n]) => /\ ~after.rows[n].dirty
                               /\ after.rows[n].file # NoFile
                               /\ after.rows[n].synced = after.rows[n].text
    BY <1>1, <2>1, <2>10
  <2> QED BY <2>11, <2>12, <2>13, <2>14 DEF after
<1>13. R[n].deleted \in BOOLEAN BY <1>2 DEF Row
<1> QED BY <1>11, <1>12, <1>13

LEMMA ResolveOK ==
  ASSUME NEW R, NEW q, NEW s \in Nat, NEW x \in Nat, x < s,
         NEW c, c.note \in NoteIds, c.path \in Paths,
         c.text \in Texts, c.file \in Files, c.copy \in NoteIds \ {c.note},
         c.copyPath \in Paths, StoreOK(R, q, s), R[c.note] # NoRow,
         Live(R[c.note]) => R[c.copy] = NoRow,
         \A o \in q : o.seq = x => o.note = c.note /\ o.kind = "write"
  PROVE  LET after == ResolveConflict([rows |-> R, ops |-> q], s, x, c)
         IN  StoreOK(after.rows, after.ops, s + 1)
<1> DEFINE met == Conflict([rows |-> R, ops |-> q], s, c)
           after == ResolveConflict([rows |-> R, ops |-> q], s, x, c)
           n == c.note
           row == met.rows[n]
           u == Without(met.ops, x)
<1> SUFFICES StoreOK(after.rows, after.ops, s + 1) OBVIOUS
<1>1. after.rows = met.rows /\ after.ops = u
  BY DEF ResolveConflict, Conflict
<1>2. /\ StoreOK(met.rows, met.ops, s + 1)
      /\ Keeps(q, met.ops, s)
      /\ Deletes(met.ops, n) = Deletes(q, n)
      /\ Writes(met.ops, n) = {}
      /\ Live(row) => ~row.dirty /\ row.file # NoFile /\ row.synced = row.text
  BY ConflictOK
<1> HIDE DEF met
<1>3. s + 1 \in Nat /\ QueueOK(met.ops, s + 1) BY <1>2 DEF StoreOK
<1>4. \A o \in met.ops : o.seq = x => o.note = n /\ o.kind = "write"
  BY <1>2 DEF Keeps
<1>5. /\ Writes(u, n) = {o \in Writes(met.ops, n) : o.seq # x}
      /\ Deletes(u, n) = {o \in Deletes(met.ops, n) : o.seq # x}
  BY <1>3, <1>4, WithoutQueue
<1>6. Writes(u, n) = {} /\ Deletes(u, n) = Deletes(met.ops, n)
  BY <1>2, <1>4, <1>5 DEF Deletes, OpsFor
<1>7. NoteOK(row, met.ops, n) BY <1>2 DEF StoreOK
<1>8. NoteOK(row, u, n) BY <1>2, <1>6, <1>7 DEF NoteOK
<1>9. StoreOK(met.rows, u, s + 1) BY <1>2, <1>3, <1>4, <1>8, WithoutOK
<1> QED BY <1>1, <1>9

-----------------------------------------------------------------------------
(* The inductive invariant.                                                  *)

AtNetwork == pc \in {"sent", "clash", "aside"}

TypesOK ==
  /\ drawn \subseteq NoteIds
  /\ hand \in Hand
  /\ pc \in {"idle", "drain", "sent", "clash", "aside", "pull"}
  /\ plan \subseteq Nat
  /\ held \in OpRecord \cup {NoOp}
  /\ seen \in Row \cup {NoRow}
  /\ spot \in Paths \cup {NoSpot}
  /\ change \in Change \cup {NoChange}

\* Every id in use has been drawn, so a fresh one is nobody's.
DrawnOK ==
  /\ \A n \in NoteIds : rows[n] # NoRow => n \in drawn
  /\ \A o \in ops : o.note \in drawn
  /\ hand.kind # "none" => hand.note \in drawn
  /\ AtNetwork => held.note \in drawn
  /\ pc = "pull" => change.note \in drawn /\ change.copy \in drawn

\* The op at the network: if its number is still queued, it is that op.
HeldOK ==
  AtNetwork =>
    /\ held \in OpRecord
    /\ held.seq < next
    /\ \A o \in ops : o.seq = held.seq => o.note = held.note /\ o.kind = held.kind
    /\ pc # "sent" => held.kind = "write" /\ seen \in Row /\ spot \in Paths
    /\ held.kind = "write" /\ Live(rows[held.note]) => Writes(ops, held.note) # {}

\* An op with nothing to send owes nothing when it is completed.
NothingOK ==
  pc = "sent" /\ seen = NoRow =>
    /\ held.kind = "write" => rows[held.note] = NoRow
    /\ held.kind = "delete" /\ Tombstone(rows[held.note]) =>
         \E o \in Deletes(ops, held.note) : o.seq # held.seq

PullOK == pc = "pull" => change \in Change /\ ChangeOK(change, rows, ops)

Inv ==
  /\ next \in Nat
  /\ StoreOK(rows, ops, next)
  /\ TypesOK
  /\ DrawnOK
  /\ HeldOK
  /\ NothingOK
  /\ PullOK

-----------------------------------------------------------------------------
(* Steps of the user.                                                        *)

\* What a step of the user's does, as far as the invariant is concerned.
UserOK ==
  /\ next' \in Nat /\ next <= next'
  /\ StoreOK(rows', ops', next')
  /\ Keeps(ops, ops', next)
  /\ Effect(rows, ops, rows', ops', next)
  /\ \A n \in NoteIds : rows'[n] # NoRow => n \in drawn'
  /\ \A o \in ops' : o.note \in drawn'
  /\ drawn \subseteq drawn' /\ drawn' \subseteq NoteIds
  /\ hand' \in Hand /\ (hand'.kind # "none" => hand'.note \in drawn')
  /\ WriteOfNothing(held.note) => rows'[held.note] = NoRow
  /\ UNCHANGED engine

LEMMA UserKeepsInv == Inv /\ UserOK => Inv'
<1> SUFFICES ASSUME Inv, UserOK PROVE Inv' OBVIOUS
<1> USE DEF UserOK, engine
<1>1. StoreOK(rows', ops', next') /\ next' \in Nat /\ next \in Nat BY DEF Inv
<1>2. TypesOK' BY DEF Inv, TypesOK
<1>3. DrawnOK' BY DEF Inv, DrawnOK, AtNetwork
<1>4. HeldOK'
  <2> SUFFICES ASSUME AtNetwork' PROVE HeldOK' BY DEF HeldOK
  <2>1. AtNetwork /\ HeldOK BY DEF Inv, AtNetwork
  <2>2. /\ held \in OpRecord /\ held.seq \in Nat /\ held.seq < next /\ held.note \in NoteIds
        /\ \A o \in ops : o.seq = held.seq => o.note = held.note /\ o.kind = held.kind
        /\ pc # "sent" => held.kind = "write" /\ seen \in Row /\ spot \in Paths
        /\ held.kind = "write" /\ Live(rows[held.note]) => Writes(ops, held.note) # {}
    BY <2>1 DEF HeldOK, OpRecord
  <2>3. \A o \in ops' : o.seq = held.seq => o.note = held.note /\ o.kind = held.kind
    BY <2>2 DEF Keeps
  <2>4. held.kind = "write" /\ Live(rows'[held.note]) => Writes(ops', held.note) # {}
    BY <2>2 DEF Effect, Live, Tombstone
  <2>5. held.seq < next' BY <1>1, <2>2
  <2> QED BY <2>2, <2>3, <2>4, <2>5 DEF HeldOK
<1>5. NothingOK'
  <2> SUFFICES ASSUME pc = "sent", seen = NoRow PROVE NothingOK' BY DEF NothingOK
  <2>1. /\ held.kind = "write" => rows[held.note] = NoRow
        /\ held.kind = "delete" /\ Tombstone(rows[held.note]) =>
             \E o \in Deletes(ops, held.note) : o.seq # held.seq
    BY DEF Inv, NothingOK
  <2>2. held.seq \in Nat /\ held.seq < next /\ held.note \in NoteIds
    BY DEF Inv, HeldOK, AtNetwork, OpRecord
  <2>3. held.kind = "write" => rows'[held.note] = NoRow
    BY DEF WriteOfNothing, Sending
  <2>4. ASSUME held.kind = "delete", Tombstone(rows'[held.note])
        PROVE  \E o \in Deletes(ops', held.note) : o.seq # held.seq
    <3>1. \/ /\ Tombstone(rows[held.note])
             /\ Deletes(ops, held.note) \subseteq Deletes(ops', held.note)
          \/ \E o \in Deletes(ops', held.note) : o.seq >= next
      BY <2>2, <2>4 DEF Effect, Live, Tombstone
    <3>2. \A o \in Deletes(ops', held.note) : o.seq >= next => o.seq # held.seq
      BY <2>2, <1>1 DEF StoreOK, QueueOK, OpRecord, Deletes, OpsFor
    <3> QED BY <2>1, <2>4, <3>1, <3>2
  <2> QED BY <2>3, <2>4 DEF NothingOK
<1>6. PullOK'
  <2> SUFFICES ASSUME pc = "pull" PROVE PullOK' BY DEF PullOK
  <2>1. change \in Change /\ ChangeOK(change, rows, ops) BY DEF Inv, PullOK
  <2>2. change.note \in NoteIds BY <2>1 DEF Change
  <2>3. \/ /\ rows'[change.note] = rows[change.note]
           /\ Writes(ops', change.note) = Writes(ops, change.note)
        \/ Live(rows'[change.note]) /\ Writes(ops', change.note) # {}
        \/ Tombstone(rows'[change.note])
    BY <2>2 DEF Effect
  <2>4. ChangeOK(change, rows', ops')
    BY <2>1, <2>3 DEF ChangeOK, Live, Tombstone
  <2> QED BY <2>1, <2>4 DEF PullOK
<1> QED BY <1>1, <1>2, <1>3, <1>4, <1>5, <1>6 DEF Inv

LEMMA SettleOK ==
  ASSUME NEW R, NEW q, NEW s \in Nat, NEW k \in 0..4, StoreOK(R, q, s + k)
  PROVE  /\ NextSeq(q, s) \in Nat /\ s <= NextSeq(q, s)
         /\ StoreOK(R, q, NextSeq(q, s))
<1>1. QueueOK(q, s + 4) BY DEF StoreOK, QueueOK, OpRecord
<1>2. NextSeq(q, s) \in Nat /\ NextSeq(q, s) >= s /\ QueueOK(q, NextSeq(q, s))
  BY <1>1, NextSeqAbove
<1> QED BY <1>2 DEF StoreOK

\* A new or restored note, or one whose text alone changed.
LEMMA WriteOK ==
  ASSUME NEW R, NEW q, NEW s \in Nat, NEW n \in NoteIds, NEW row \in Row,
         StoreOK(R, q, s), RowOK(row), ~row.deleted, row.dirty
  PROVE  LET S == [R EXCEPT ![n] = row]
             r == QueueWrite(q, s, n, row, NoSeq)
         IN  StoreOK(S, r, s + 1) /\ Keeps(q, r, s) /\ Effect(R, q, S, r, s)
<1> DEFINE S == [R EXCEPT ![n] = row]
           r == QueueWrite(q, s, n, row, NoSeq)
<1>1. QueueOK(q, s) /\ NoSeq \in Int /\ NoSeq < s BY DEF StoreOK, NoSeq
<1>2. /\ QueueOK(r, s + 1)
      /\ Keeps(q, r, s)
      /\ Writes(r, n) # {}
      /\ \A m \in NoteIds \ {n} : Writes(r, m) = Writes(q, m)
      /\ \A m \in NoteIds : Deletes(r, m) = Deletes(q, m)
  BY <1>1, QueueWriteOK
<1> HIDE DEF r
<1>3. S \in [NoteIds -> Row \cup {NoRow}] /\ S[n] = row /\ \A m \in NoteIds \ {n} : S[m] = R[m]
  BY DEF StoreOK
<1>4. row # NoRow BY StoreAssumption
<1>5. Live(S[n]) /\ S[n].dirty BY <1>3, <1>4 DEF Live
<1> HIDE DEF S
<1>6. NoteOK(row, r, n) BY <1>2, <1>4 DEF NoteOK, Live, Tombstone
<1>7. s + 1 \in Nat OBVIOUS
<1>8. StoreOK(S, r, s + 1) BY <1>2, <1>6, <1>7, RowChangeOK DEF S
<1>9. Effect(R, q, S, r, s) BY <1>2, <1>3, <1>5 DEF Effect
<1> QED BY <1>2, <1>8, <1>9 DEF S, r

\* Every queued op is one of a note in D.
NotesIn(q, D) == \A o \in q : o.note \in D

LEMMA NotesQueued ==
  ASSUME NEW q, NEW D, NEW s, NEW n \in D, NEW row, NEW x, NEW from, NotesIn(q, D)
  PROVE  /\ NotesIn(QueueWrite(q, s, n, row, x), D)
         /\ NotesIn(QueueMove(q, s, n, row, from), D)
         /\ NotesIn(QueueDelete(q, s, n, row), D)
         /\ NotesIn(Without(q, x), D)
         /\ NotesIn(q \ Deletes(q, x), D)
         /\ NotesIn(q \ Writes(q, x), D)
<1>1. NotesIn(QueueWrite(q, s, n, row, x), D) BY DEF NotesIn, QueueWrite, NoteOp
<1>2. NotesIn(QueueMove(q, s, n, row, from), D)
  <2> DEFINE origin == IF Moves(q, n) = {} THEN from ELSE (CHOOSE o \in Moves(q, n) : TRUE).path
  <2>1. MoveOp(s, n, origin, row.path).note = n BY DEF MoveOp
  <2>2. \A o \in QueueMove(q, s, n, row, from) : o \in q \/ o = MoveOp(s, n, origin, row.path)
    BY DEF QueueMove
  <2> QED BY <2>1, <2>2 DEF NotesIn
<1>3. NotesIn(QueueDelete(q, s, n, row), D) BY DEF NotesIn, QueueDelete, NoteOp
<1>4. NotesIn(Without(q, x), D) /\ NotesIn(q \ Deletes(q, x), D) /\ NotesIn(q \ Writes(q, x), D)
  BY DEF NotesIn, Without
<1> QED BY <1>1, <1>2, <1>3, <1>4

LEMMA NotesEdited ==
  ASSUME NEW q, NEW D, NEW s, NEW n \in D, NEW row, NEW from, NotesIn(q, D)
  PROVE  /\ NotesIn(QueueEdit(q, s, n, row, from), D)
         /\ NotesIn(QueueRestore(q, s, n, row), D)
<1>1. NotesIn(QueueWrite(q, s, n, row, NoSeq), D) BY NotesQueued
<1>2. NotesIn(QueueMove(QueueWrite(q, s, n, row, NoSeq), s + 1, n, row, from), D)
  BY <1>1, NotesQueued
<1>3. NotesIn(q \ Deletes(q, n), D) BY NotesQueued
<1>4. NotesIn(QueueWrite(q \ Deletes(q, n), s, n, row, NoSeq), D) BY <1>3, NotesQueued
<1> QED BY <1>1, <1>2, <1>4 DEF QueueEdit, QueueRestore

\* A transaction of the user's that changes rows and queue.
LEMMA UserWritesOK ==
  ASSUME Inv, NEW S, NEW r, NEW k \in 0..4, UserWrites(S, r),
         StoreOK(S, r, next + k), Keeps(ops, r, next), Effect(rows, ops, S, r, next),
         drawn \subseteq drawn', drawn' \subseteq NoteIds,
         \A n \in NoteIds : S[n] # NoRow => n \in drawn', NotesIn(r, drawn'),
         hand' \in Hand, hand'.kind # "none" => hand'.note \in drawn',
         WriteOfNothing(held.note) => S[held.note] = NoRow
  PROVE  Inv'
<1>1. rows' = S /\ ops' = r /\ next' = NextSeq(r, next) /\ UNCHANGED engine
  BY DEF UserWrites
<1>2. next \in Nat BY DEF Inv
<1>3. next' \in Nat /\ next <= next' /\ StoreOK(rows', ops', next')
  BY <1>1, <1>2, SettleOK
<1>4. UserOK BY <1>1, <1>3 DEF UserOK, NotesIn
<1> QED BY <1>4, UserKeepsInv

LEMMA InvFacts ==
  ASSUME Inv
  PROVE  /\ next \in Nat /\ StoreOK(rows, ops, next) /\ NotesIn(ops, drawn)
         /\ \A n \in NoteIds : rows[n] # NoRow => n \in drawn /\ rows[n] \in Row /\ RowOK(rows[n])
         /\ hand \in Hand /\ (hand.kind # "none" => hand.note \in drawn)
         /\ drawn \subseteq NoteIds
         /\ WriteOfNothing(held.note) => held.note \in drawn /\ rows[held.note] = NoRow
BY DEF Inv, DrawnOK, TypesOK, StoreOK, NotesIn, WriteOfNothing, Sending, NothingOK, AtNetwork

\* A note, new or made again, with the text typed.
LEMMA NewNoteOK ==
  ASSUME NEW R, NEW q, NEW s \in Nat, NEW n \in NoteIds, NEW p \in Paths, NEW t \in Texts,
         NEW D, StoreOK(R, q, s), NotesIn(q, D), n \in D
  PROVE  LET S == [R EXCEPT ![n] = NewRow(p, t)]
             r == QueueWrite(q, s, n, NewRow(p, t), NoSeq)
         IN  StoreOK(S, r, s + 1) /\ Keeps(q, r, s) /\ Effect(R, q, S, r, s) /\ NotesIn(r, D)
<1>1. /\ NewRow(p, t) \in Row /\ RowOK(NewRow(p, t))
      /\ ~NewRow(p, t).deleted /\ NewRow(p, t).dirty
  BY DEF NewRow, Row, RowOK
<1> QED BY <1>1, WriteOK, NotesQueued

LEMMA CreateInv ==
  ASSUME Inv, NEW n \in NoteIds, NEW p \in Paths, NEW t \in Texts, Create(n, p, t)
  PROVE  Inv'
<1> DEFINE S == [rows EXCEPT ![n] = NewRow(p, t)]
           r == QueueWrite(ops, next, n, NewRow(p, t), NoSeq)
<1>1. /\ UserWrites(S, r) /\ drawn' = drawn \cup {n} /\ hand' = hand /\ n \notin drawn
  BY DEF Create, Fresh
<1>2. NotesIn(ops, drawn') BY <1>1, InvFacts DEF NotesIn
<1>3. StoreOK(S, r, next + 1) /\ Keeps(ops, r, next) /\ Effect(rows, ops, S, r, next)
      /\ NotesIn(r, drawn')
  BY <1>1, <1>2, InvFacts, NewNoteOK
<1>4. \A m \in NoteIds : S[m] # NoRow => m \in drawn' BY <1>1, InvFacts
<1>5. WriteOfNothing(held.note) => S[held.note] = NoRow BY <1>1, InvFacts DEF StoreOK
<1>6. drawn \subseteq drawn' /\ drawn' \subseteq NoteIds BY <1>1, InvFacts
<1>7. hand' \in Hand /\ (hand'.kind # "none" => hand'.note \in drawn')
  BY <1>1, InvFacts
<1> HIDE DEF S, r
<1> QED BY <1>1, <1>3, <1>4, <1>5, <1>6, <1>7, 1 \in 0..4, UserWritesOK

LEMMA HandOnlyInv ==
  ASSUME Inv, UNCHANGED <<store, engine>>, hand' \in Hand,
         hand'.kind # "none" => hand'.note \in drawn
  PROVE  Inv'
<1>1. rows' = rows /\ ops' = ops /\ next' = next /\ drawn' = drawn /\ UNCHANGED engine
  BY DEF store
<1>2. next \in Nat /\ next <= next BY InvFacts
<1>3. Keeps(ops, ops, next) BY DEF Keeps
<1>4. Effect(rows, ops, rows, ops, next) BY DEF Effect
<1>5. UserOK BY <1>1, <1>2, <1>3, <1>4, InvFacts DEF UserOK, NotesIn
<1> QED BY <1>5, UserKeepsInv

LEMMA HandFacts ==
  ASSUME hand \in Hand, hand.kind # "none"
  PROVE  hand.note \in NoteIds /\ hand.base \in Texts /\ hand.kind \in {"typing", "undo"}
BY DEF Hand, NoHand

LEMMA NoHandOK == NoHand \in Hand /\ NoHand.kind = "none"
BY DEF Hand, NoHand

LEMMA StartTypingInv ==
  ASSUME Inv, NEW n \in NoteIds, StartTyping(n)
  PROVE  Inv'
<1>1. rows[n] \in Row /\ n \in drawn BY InvFacts DEF StartTyping, Live
<1>2. hand' = InHand("typing", n, rows[n].text) /\ UNCHANGED <<store, engine>>
  BY DEF StartTyping
<1>3. hand' \in Hand /\ hand'.note = n BY <1>1, <1>2 DEF InHand, Hand, Row
<1> QED BY <1>1, <1>2, <1>3, HandOnlyInv

\* Rename and SaveInto: a row rewritten where it stands.
LEMMA EditedInv ==
  ASSUME Inv, NEW n \in NoteIds, NEW p \in Paths, NEW t \in Texts, NEW from \in Paths,
         rows[n] # NoRow, drawn' = drawn,
         UserWrites([rows EXCEPT ![n] = Edited(n, p, t)],
                    QueueEdit(ops, next, n, Edited(n, p, t), from)),
         hand' \in Hand, hand'.kind # "none" => hand'.note \in drawn
  PROVE  Inv'
<1> DEFINE row == Edited(n, p, t)
           S == [rows EXCEPT ![n] = row]
           r == QueueEdit(ops, next, n, row, from)
<1>1. rows[n] \in Row /\ n \in drawn /\ RowOK(rows[n]) BY InvFacts
<1>2. /\ row \in Row /\ row.dirty /\ RowOK(row)
      /\ row.deleted => Tombstone(rows[n])
  BY <1>1, StoreAssumption DEF Edited, Row, RowOK, Tombstone
<1> HIDE DEF row
<1>3. StoreOK(S, r, next + 2) /\ Keeps(ops, r, next) /\ Effect(rows, ops, S, r, next)
  BY <1>2, InvFacts, EditOK
<1>4. NotesIn(r, drawn) BY <1>1, InvFacts, NotesEdited
<1>5. \A m \in NoteIds : S[m] # NoRow => m \in drawn BY <1>1, InvFacts
<1>6. WriteOfNothing(held.note) => S[held.note] = NoRow BY <1>1, InvFacts DEF StoreOK
<1>7. UserWrites(S, r) BY DEF row
<1>8. drawn \subseteq drawn' /\ drawn' \subseteq NoteIds BY InvFacts
<1> HIDE DEF S, r
<1> QED BY <1>3, <1>4, <1>5, <1>6, <1>7, <1>8, 2 \in 0..4, UserWritesOK

LEMMA SaveIntoInv ==
  ASSUME Inv, NEW t \in Texts, SaveInto(t)
  PROVE  Inv'
<1> DEFINE n == hand.note
           p == rows[n].path
<1>1. hand.kind = "typing" /\ n \in NoteIds /\ rows[n] # NoRow
  BY InvFacts, HandFacts DEF SaveInto
<1>2. p \in Paths BY <1>1, InvFacts DEF Row
<1>3. Edited(n, p, t).path = p BY <1>1, InvFacts DEF Edited, Row
<1>4. /\ UserWrites([rows EXCEPT ![n] = Edited(n, p, t)],
                    QueueEdit(ops, next, n, Edited(n, p, t), p))
      /\ hand' = NoHand /\ drawn' = drawn
  BY <1>3 DEF SaveInto
<1>5. hand' \in Hand /\ hand'.kind = "none" BY <1>4, NoHandOK
<1> HIDE DEF n, p
<1> QED BY <1>1, <1>2, <1>4, <1>5, EditedInv

LEMMA RenameInv ==
  ASSUME Inv, NEW n \in NoteIds, NEW p \in Paths, NEW t \in Texts, Rename(n, p, t)
  PROVE  Inv'
<1>1. /\ rows[n] # NoRow /\ rows[n].path \in Paths
  BY InvFacts DEF Rename, Row
<1>2. /\ UserWrites([rows EXCEPT ![n] = Edited(n, p, t)],
                    QueueEdit(ops, next, n, Edited(n, p, t), rows[n].path))
      /\ drawn' = drawn
      /\ hand' = IF hand.kind # "none" /\ hand.note = n /\ hand.base = rows[n].text
                 THEN [hand EXCEPT !.base = t] ELSE hand
  BY DEF Rename
<1>3. hand' \in Hand /\ (hand'.kind # "none" => hand'.note \in drawn)
  BY <1>2, InvFacts DEF Hand, NoHand
<1> QED BY <1>1, <1>2, <1>3, EditedInv

LEMMA DeleteInv ==
  ASSUME Inv, NEW n \in NoteIds, Delete(n)
  PROVE  Inv'
<1> DEFINE row == [rows[n] EXCEPT !.deleted = TRUE, !.dirty = TRUE]
           S == [rows EXCEPT ![n] = row]
           r == QueueDelete(ops, next, n, row)
<1>1. UserWrites(S, r) /\ drawn' = drawn /\ rows[n] # NoRow
  BY DEF Delete, Live
<1>2. rows[n] \in Row /\ n \in drawn /\ RowOK(rows[n]) BY <1>1, InvFacts
<1>3. row \in Row /\ RowOK(row) /\ row.deleted BY <1>2 DEF Row, RowOK
<1> HIDE DEF row
<1>4. StoreOK(S, r, next + 1) /\ Keeps(ops, r, next) /\ Effect(rows, ops, S, r, next)
  BY <1>3, InvFacts, DeleteOK
<1>5. NotesIn(r, drawn) BY <1>2, InvFacts, NotesQueued
<1>6. \A m \in NoteIds : S[m] # NoRow => m \in drawn BY <1>2, InvFacts
<1>7. WriteOfNothing(held.note) => S[held.note] = NoRow BY <1>1, InvFacts DEF StoreOK
<1>8. drawn \subseteq drawn' /\ drawn' \subseteq NoteIds BY <1>1, InvFacts
<1>9. hand' \in Hand /\ (hand'.kind # "none" => hand'.note \in drawn')
  <2>1. CASE hand' = IF hand.kind # "none" /\ hand.note = n
                     THEN [hand EXCEPT !.mark = TRUE, !.dropped = TRUE] ELSE hand
    <3>1. hand.kind # "none" => [hand EXCEPT !.mark = TRUE, !.dropped = TRUE] \in Hand
      BY InvFacts DEF Hand, NoHand
    <3>2. hand.kind # "none" => [hand EXCEPT !.mark = TRUE, !.dropped = TRUE].note = hand.note
      BY InvFacts DEF Hand, NoHand
    <3> QED BY <1>1, <2>1, <3>1, <3>2, InvFacts
  <2>2. CASE hand' = InHand("undo", n, rows[n].text)
    BY <1>1, <1>2, <2>2 DEF Hand, InHand, Row
  <2> QED BY <2>1, <2>2 DEF Delete
<1> HIDE DEF S, r
<1> QED BY <1>1, <1>4, <1>5, <1>6, <1>7, <1>8, <1>9, 1 \in 0..4, UserWritesOK

LEMMA BringBackInv ==
  ASSUME Inv, hand.kind # "none", ~WriteOfNothing(hand.note),
         NEW t \in Texts, NEW p \in Paths, BringBack(t, p)
  PROVE  Inv'
<1> DEFINE n == hand.note
           S == [rows EXCEPT ![n] = NewRow(p, t)]
           r == QueueWrite(ops, next, n, NewRow(p, t), NoSeq)
<1>1. UserWrites(S, r) /\ drawn' = drawn /\ hand' = NoHand BY DEF BringBack
<1>2. n \in NoteIds /\ n \in drawn BY InvFacts, HandFacts
<1>3. StoreOK(S, r, next + 1) /\ Keeps(ops, r, next) /\ Effect(rows, ops, S, r, next)
      /\ NotesIn(r, drawn)
  <2> HIDE DEF n
  <2> QED BY <1>2, InvFacts, NewNoteOK
<1>4. \A m \in NoteIds : S[m] # NoRow => m \in drawn BY <1>2, InvFacts
<1>5. WriteOfNothing(held.note) => S[held.note] = NoRow
  BY InvFacts DEF StoreOK, WriteOfNothing
<1>6. drawn \subseteq drawn' /\ drawn' \subseteq NoteIds BY <1>1, InvFacts
<1>7. hand' \in Hand /\ hand'.kind = "none" BY <1>1, NoHandOK
<1> HIDE DEF S, r
<1> QED BY <1>1, <1>3, <1>4, <1>5, <1>6, <1>7, 1 \in 0..4, UserWritesOK

\* A copy beside the note, after a transaction that has used k numbers.
LEMMA BesideInv ==
  ASSUME Inv, hand.kind # "none", NEW R, NEW q, NEW k \in 0..3,
         StoreOK(R, q, next + k), Keeps(ops, q, next), Effect(rows, ops, R, q, next),
         NotesIn(q, drawn), \A n \in NoteIds : R[n] # NoRow => n \in drawn,
         WriteOfNothing(held.note) => R[held.note] = NoRow,
         NEW c \in NoteIds, NEW p \in Paths, NEW t \in Texts,
         Beside(R, q, next + k, c, p, t), hand' = NoHand
  PROVE  Inv'
<1> DEFINE s == next + k
           S == [R EXCEPT ![c] = NewRow(p, t)]
           r == QueueWrite(q, s, c, NewRow(p, t), NoSeq)
<1>1. UserWrites(S, r) /\ drawn' = drawn \cup {c} /\ c \notin drawn
  BY DEF Beside, Fresh
<1>2. NotesIn(q, drawn') BY <1>1 DEF NotesIn
<1>3. next \in Nat /\ s \in Nat /\ next <= s /\ s + 1 = next + (k + 1) /\ k + 1 \in 0..4
  BY InvFacts
<1>4. StoreOK(S, r, s + 1) /\ Keeps(q, r, s) /\ Effect(R, q, S, r, s) /\ NotesIn(r, drawn')
  <2> HIDE DEF s
  <2> QED BY <1>1, <1>2, <1>3, NewNoteOK DEF s
<1>5. StoreOK(S, r, next + (k + 1)) BY <1>3, <1>4
<1> HIDE DEF s, r
<1>6. QueueOK(ops, next) /\ QueueOK(q, s) /\ r \subseteq OpRecord /\ QueueOK(r, s + 4)
  BY <1>3, <1>4, InvFacts DEF StoreOK, QueueOK, OpRecord, s
<1>7. Keeps(ops, r, next) BY <1>3, <1>4, <1>6, KeepsTrans
<1>8. Effect(rows, ops, S, r, next) BY <1>3, <1>4, <1>6, EffectTrans
<1>9. \A m \in NoteIds : S[m] # NoRow => m \in drawn' BY <1>1 DEF StoreOK
<1>10. WriteOfNothing(held.note) => S[held.note] = NoRow BY <1>1, InvFacts DEF StoreOK
<1>11. drawn \subseteq drawn' /\ drawn' \subseteq NoteIds BY <1>1, InvFacts
<1>12. hand' \in Hand /\ hand'.kind = "none" BY NoHandOK
<1> HIDE DEF S
<1> QED BY <1>1, <1>3, <1>4, <1>5, <1>7, <1>8, <1>9, <1>10, <1>11, <1>12, UserWritesOK

LEMMA BesideNowInv ==
  ASSUME Inv, hand.kind # "none", NEW c \in NoteIds, NEW p \in Paths, NEW t \in Texts,
         Beside(rows, ops, next, c, p, t), hand' = NoHand
  PROVE  Inv'
<1>1. next \in Nat /\ next + 0 = next /\ 0 \in 0..3 BY InvFacts
<1>2. Keeps(ops, ops, next) /\ Effect(rows, ops, rows, ops, next) BY DEF Keeps, Effect
<1>3. StoreOK(rows, ops, next + 0) /\ Beside(rows, ops, next + 0, c, p, t) BY <1>1, InvFacts
<1> QED BY <1>1, <1>2, <1>3, InvFacts, BesideInv

LEMMA SaveBesideInv ==
  ASSUME Inv, NEW t \in Texts, NEW c \in NoteIds, NEW p \in Paths, SaveBeside(t, c, p)
  PROVE  Inv'
BY BesideNowInv DEF SaveBeside

LEMMA LetGoInv ==
  ASSUME Inv, (\E t \in Texts : SaveSame(t)) \/ SaveLetGo
  PROVE  Inv'
BY HandOnlyInv, NoHandOK DEF SaveSame, SaveLetGo

\* The row lifted if it is a tombstone, and what took its name moved away.
LEMMA LiftedOK ==
  ASSUME Inv, NEW q \in Paths, hand.kind # "none", rows[hand.note] # NoRow
  PROVE  LET lifted == Lifted(hand.note, q)
         IN  /\ StoreOK(lifted.rows, lifted.ops, next + 3)
             /\ Keeps(ops, lifted.ops, next)
             /\ Effect(rows, ops, lifted.rows, lifted.ops, next)
             /\ NotesIn(lifted.ops, drawn)
             /\ \A m \in NoteIds : lifted.rows[m] = NoRow <=> rows[m] = NoRow
<1> DEFINE n == hand.note
           lifted == Lifted(n, q)
           row == [rows[n] EXCEPT !.deleted = FALSE, !.dirty = @ \/ rows[n].deleted]
           R == [rows EXCEPT ![n] = row]
           back == IF rows[n].deleted THEN QueueRestore(ops, next, n, row) ELSE ops
<1>1. n \in NoteIds /\ rows[n] # NoRow /\ rows[n] \in Row /\ n \in drawn /\ RowOK(rows[n])
  BY InvFacts, HandFacts
<1>2. row \in Row /\ RowOK(row) /\ ~row.deleted /\ row # NoRow
  BY <1>1, StoreAssumption DEF Row, RowOK
<1>3. next \in Nat BY InvFacts
<1> SUFFICES /\ StoreOK(lifted.rows, lifted.ops, next + 3)
             /\ Keeps(ops, lifted.ops, next)
             /\ Effect(rows, ops, lifted.rows, lifted.ops, next)
             /\ NotesIn(lifted.ops, drawn)
             /\ \A m \in NoteIds : lifted.rows[m] = NoRow <=> rows[m] = NoRow
  OBVIOUS
<1>4. /\ StoreOK(R, back, next + 1) /\ Keeps(ops, back, next) /\ Effect(rows, ops, R, back, next)
      /\ NotesIn(back, drawn)
  <2>1. CASE rows[n].deleted
    <3>1. row.dirty /\ back = QueueRestore(ops, next, n, row) BY <1>1, <2>1 DEF Row
    <3> HIDE DEF row, n, back
    <3> QED BY <1>1, <1>2, <3>1, InvFacts, RestoreOK, NotesEdited
  <2>2. CASE ~rows[n].deleted
    <3>1. row = rows[n] BY <1>1, <2>2 DEF Row
    <3>2. R = rows /\ back = ops BY <1>1, <2>2, <3>1, InvFacts DEF StoreOK
    <3>3. Keeps(ops, ops, next) /\ Effect(rows, ops, rows, ops, next) BY DEF Keeps, Effect
    <3>4. StoreOK(rows, ops, next + 1) BY <1>3, InvFacts DEF StoreOK, QueueOK, OpRecord
    <3> HIDE DEF R, back
    <3> QED BY <3>2, <3>3, <3>4, InvFacts
  <2> QED BY <2>1, <2>2
<1>5. R \in [NoteIds -> Row \cup {NoRow}] /\ R[n] = row /\ \A m \in NoteIds \ {n} : R[m] = rows[m]
  BY <1>2, InvFacts DEF StoreOK
<1>6. \A m \in NoteIds : R[m] = NoRow <=> rows[m] = NoRow
  BY <1>1, <1>2, <1>5
<1>7. CASE InTheWay(n) = {}
  <2>1. lifted.rows = R /\ lifted.ops = back BY <1>7 DEF Lifted
  <2> HIDE DEF lifted, R, back, row
  <2>2. StoreOK(R, back, next + 3) BY <1>3, <1>4 DEF StoreOK, QueueOK, OpRecord
  <2> QED BY <1>4, <1>6, <2>1, <2>2
<1>8. CASE InTheWay(n) # {}
  <2> DEFINE m == CHOOSE m \in NoteIds : m \in InTheWay(n)
             off == Edited(m, q, rows[m].text)
             S == [R EXCEPT ![m] = off]
             r == QueueEdit(back, next + 1, m, off, rows[m].path)
  <2>1. m \in NoteIds \ {n} /\ Live(rows[m])
    BY <1>8 DEF InTheWay
  <2>2. lifted.rows = S /\ lifted.ops = r BY <1>8 DEF Lifted
  <2> HIDE DEF lifted, R, back, row, m
  <2>3. rows[m] \in Row /\ m \in drawn /\ RowOK(rows[m]) /\ ~rows[m].deleted
    BY <2>1, InvFacts DEF Live
  <2>4. off \in Row /\ off.dirty /\ RowOK(off) /\ ~off.deleted /\ off # NoRow
    BY <2>3, StoreAssumption DEF Edited, Row, RowOK
  <2>5. rows[m].path \in Paths BY <2>3 DEF Row
  <2> HIDE DEF off
  <2>6. /\ StoreOK(S, r, (next + 1) + 2) /\ Keeps(back, r, next + 1)
        /\ Effect(R, back, S, r, next + 1)
    <3>1. next + 1 \in Nat BY <1>3
    <3> QED BY <1>4, <2>1, <2>4, <2>5, <3>1, EditOK
  <2>7. NotesIn(r, drawn) BY <1>4, <2>3, NotesEdited
  <2> HIDE DEF r
  <2>8. QueueOK(ops, next) /\ QueueOK(back, next + 1) /\ r \subseteq OpRecord
        /\ QueueOK(r, (next + 1) + 4)
    BY <1>3, <1>4, <2>6, InvFacts DEF StoreOK, QueueOK, OpRecord
  <2>9. next + 1 \in Nat /\ next <= next + 1 BY <1>3
  <2>10. Keeps(ops, r, next) BY <1>3, <1>4, <2>6, <2>8, <2>9, KeepsTrans
  <2>11. Effect(rows, ops, S, r, next) BY <1>3, <1>4, <2>6, <2>8, <2>9, EffectTrans
  <2>12. \A k \in NoteIds : S[k] = NoRow <=> rows[k] = NoRow
    BY <1>5, <1>6, <2>1, <2>3, <2>4, StoreAssumption
  <2>13. StoreOK(S, r, next + 3) BY <1>3, <2>6
  <2> QED BY <2>2, <2>7, <2>10, <2>11, <2>12, <2>13
<1> QED BY <1>7, <1>8

LEMMA UndoLiftInv ==
  ASSUME Inv, NEW q \in Paths, UndoLift(q)
  PROVE  Inv'
<1> DEFINE S == Lifted(hand.note, q).rows
           r == Lifted(hand.note, q).ops
<1>1. /\ hand.kind # "none" /\ rows[hand.note] # NoRow /\ UserWrites(S, r)
      /\ hand' = NoHand /\ drawn' = drawn
  BY DEF UndoLift, CanLift
<1>2. /\ StoreOK(S, r, next + 3) /\ Keeps(ops, r, next) /\ Effect(rows, ops, S, r, next)
      /\ NotesIn(r, drawn) /\ \A m \in NoteIds : S[m] = NoRow <=> rows[m] = NoRow
  BY <1>1, LiftedOK
<1> HIDE DEF S, r
<1>3. \A m \in NoteIds : S[m] # NoRow => m \in drawn BY <1>2, InvFacts
<1>4. WriteOfNothing(held.note) => S[held.note] = NoRow BY <1>2, InvFacts
<1>5. drawn \subseteq drawn' /\ drawn' \subseteq NoteIds BY <1>1, InvFacts
<1>6. hand' \in Hand /\ hand'.kind = "none" BY <1>1, NoHandOK
<1> QED BY <1>1, <1>2, <1>3, <1>4, <1>5, <1>6, 3 \in 0..4, UserWritesOK

LEMMA UndoBesideInv ==
  ASSUME Inv, NEW q \in Paths, NEW p \in Paths, NEW c \in NoteIds, UndoBeside(q, c, p)
  PROVE  Inv'
<1> DEFINE S == Lifted(hand.note, q).rows
           r == Lifted(hand.note, q).ops
<1>1. /\ hand.kind # "none" /\ rows[hand.note] # NoRow
      /\ Beside(S, r, next + 3, c, p, hand.base) /\ hand' = NoHand
  BY DEF UndoBeside, CanLift
<1>2. /\ StoreOK(S, r, next + 3) /\ Keeps(ops, r, next) /\ Effect(rows, ops, S, r, next)
      /\ NotesIn(r, drawn) /\ \A m \in NoteIds : S[m] = NoRow <=> rows[m] = NoRow
  BY <1>1, LiftedOK
<1> HIDE DEF S, r
<1>3. \A m \in NoteIds : S[m] # NoRow => m \in drawn BY <1>2, InvFacts
<1>4. WriteOfNothing(held.note) => S[held.note] = NoRow BY <1>2, InvFacts
<1>5. hand.base \in Texts BY <1>1, InvFacts, HandFacts
<1> QED BY <1>1, <1>2, <1>3, <1>4, <1>5, 3 \in 0..3, BesideInv

LEMMA UserInv ==
  ASSUME Inv, UserApart \/ (BringsBack /\ ~WriteOfNothing(hand.note))
  PROVE  Inv'
<1>1. ASSUME NEW n \in NoteIds, NEW p \in Paths, NEW t \in Texts,
             Create(n, p, t) \/ Rename(n, p, t)
      PROVE  Inv'
  BY <1>1, CreateInv, RenameInv
<1>2. ASSUME NEW n \in NoteIds, StartTyping(n) \/ Delete(n) PROVE Inv'
  BY <1>2, StartTypingInv, DeleteInv
<1>3. ASSUME NEW t \in Texts, SaveInto(t) \/ SaveSame(t) PROVE Inv'
  BY <1>3, SaveIntoInv, LetGoInv
<1>4. ASSUME NEW t \in Texts, NEW c \in NoteIds, NEW p \in Paths, SaveBeside(t, c, p)
      PROVE  Inv'
  BY <1>4, SaveBesideInv
<1>5. CASE SaveLetGo BY <1>5, LetGoInv
<1>6. ASSUME NEW q \in Paths, UndoLift(q) PROVE Inv' BY <1>6, UndoLiftInv
<1>7. ASSUME NEW q \in Paths, NEW p \in Paths, NEW c \in NoteIds, UndoBeside(q, c, p)
      PROVE  Inv'
  BY <1>7, UndoBesideInv
<1>8. CASE BringsBack /\ ~WriteOfNothing(hand.note)
  <2>1. ASSUME NEW t \in Texts, NEW p \in Paths, SaveGone(t, p) PROVE Inv'
    BY <1>8, <2>1, BringBackInv DEF SaveGone
  <2>2. ASSUME NEW p \in Paths, UndoGone(p) PROVE Inv'
    <3>1. hand.kind # "none" /\ hand.base \in Texts BY <2>2, InvFacts, HandFacts DEF UndoGone
    <3> QED BY <1>8, <2>2, <3>1, BringBackInv DEF UndoGone
  <2> QED BY <1>8, <2>1, <2>2 DEF BringsBack
<1> QED BY <1>1, <1>2, <1>3, <1>4, <1>5, <1>6, <1>7, <1>8 DEF UserApart

-----------------------------------------------------------------------------
(* Steps of the engine, pushing.                                             *)

LEMMA IdleInv ==
  ASSUME Inv, Idle, UNCHANGED drawn, NEW k \in 0..4, StoreOK(rows', ops', next + k),
         next' = NextSeq(ops', next), NotesIn(ops', drawn),
         \A n \in NoteIds : rows'[n] # NoRow => n \in drawn,
         hand' \in Hand, hand'.kind # "none" => hand'.note \in drawn
  PROVE  Inv'
<1> USE DEF Idle
<1>1. next' \in Nat /\ StoreOK(rows', ops', next') BY InvFacts, SettleOK
<1>2. TypesOK' BY InvFacts DEF TypesOK
<1>3. DrawnOK' BY DEF DrawnOK, AtNetwork, NotesIn
<1>4. HeldOK' /\ NothingOK' /\ PullOK' BY DEF HeldOK, NothingOK, PullOK, AtNetwork
<1> QED BY <1>1, <1>2, <1>3, <1>4 DEF Inv

LEMMA NextSame ==
  ASSUME NEW R, NEW q, NEW s \in Nat, StoreOK(R, q, s)
  PROVE  NextSeq(q, s) = s
<1>1. \A o \in q : o.seq \in Nat /\ o.seq < s BY DEF StoreOK, QueueOK, OpRecord
<1>2. QueueOK(q, s + 4) BY <1>1 DEF StoreOK, QueueOK
<1>3. NextSeq(q, s) \in s..(s + 4)
      /\ (NextSeq(q, s) = s \/ Queued(q, NextSeq(q, s) - 1))
  <2> DEFINE P(k) == /\ \A j \in k..(s + 3) : ~Queued(q, j)
                     /\ k = s \/ Queued(q, k - 1)
  <2>1. s \in s..(s + 4) /\ P(s) BY <1>1 DEF Queued
  <2> QED BY <2>1 DEF NextSeq
<1> QED BY <1>1, <1>3 DEF Queued

LEMMA StayIdleInv ==
  ASSUME Inv, Idle, UNCHANGED <<store, hand>> \/ (UNCHANGED store /\ hand' = NoHand)
  PROVE  Inv'
<1>1. rows' = rows /\ ops' = ops /\ next' = next /\ drawn' = drawn BY DEF store
<1>2. StoreOK(rows', ops', next + 0) /\ 0 \in 0..4 BY <1>1, InvFacts
<1>3. next' = NextSeq(ops', next) BY <1>1, InvFacts, NextSame
<1>4. hand' \in Hand /\ (hand'.kind # "none" => hand'.note \in drawn)
  BY InvFacts, NoHandOK
<1> QED BY <1>1, <1>2, <1>3, <1>4, InvFacts, IdleInv

LEMMA SettledInv ==
  ASSUME Inv, NEW R, NEW q, NEW after, after.rows = R, after.ops = q, NEW k \in 0..4,
         Settle(after), StoreOK(R, q, next + k), NotesIn(q, drawn),
         \A n \in NoteIds : R[n] # NoRow => n \in drawn, hand' = hand
  PROVE  Inv'
<1>1. next' \in Nat /\ StoreOK(rows', ops', next') BY InvFacts, SettleOK DEF Settle
<1>2. TypesOK' BY DEF Inv, TypesOK, Settle
<1>3. DrawnOK' BY InvFacts DEF DrawnOK, AtNetwork, NotesIn, Settle
<1>4. HeldOK' /\ NothingOK' /\ PullOK' BY DEF HeldOK, NothingOK, PullOK, AtNetwork, Settle
<1> QED BY <1>1, <1>2, <1>3, <1>4 DEF Inv

LEMMA StartPushInv == ASSUME Inv, StartPush PROVE Inv'
<1>1. plan' \subseteq Nat BY InvFacts DEF StartPush, StoreOK, QueueOK, OpRecord
<1> QED BY <1>1 DEF StartPush, store, Inv, TypesOK, DrawnOK, AtNetwork, HeldOK, NothingOK, PullOK

LEMMA AskInv == ASSUME Inv, Ask PROVE Inv'
<1> USE DEF store
<1>1. pc = "drain" /\ UNCHANGED <<store, hand, spot, change>> /\ plan' \subseteq Nat
  BY DEF Ask, Inv, TypesOK
<1>2. StoreOK(rows', ops', next') /\ next' \in Nat BY <1>1, InvFacts
<1>3. CASE UNCHANGED <<held, seen, pc>>
  <2>1. TypesOK' BY <1>1, <1>3 DEF Inv, TypesOK
  <2>2. DrawnOK' BY <1>1, <1>3 DEF Inv, DrawnOK, AtNetwork
  <2> QED BY <1>1, <1>2, <1>3, <2>1, <2>2 DEF Inv, HeldOK, NothingOK, PullOK, AtNetwork
<1>4. CASE \E o \in ops : held' = o /\ seen' = rows[o.note] /\ pc' = "sent"
  <2>1. PICK o \in ops : held' = o /\ seen' = rows[o.note] /\ pc' = "sent" BY <1>4
  <2>2. o \in OpRecord /\ o.note \in NoteIds /\ o.seq < next /\ o.note \in drawn
        /\ \A r \in ops : r.seq = o.seq => r = o
    BY InvFacts DEF StoreOK, QueueOK, OpRecord, NotesIn
  <2>3. TypesOK' BY <1>1, <2>1, <2>2, InvFacts DEF Inv, TypesOK
  <2>4. DrawnOK' BY <1>1, <2>1, <2>2 DEF Inv, DrawnOK, AtNetwork
  <2>5. o.kind = "write" => o \in Writes(ops, o.note) BY DEF Writes, OpsFor
  <2>6. HeldOK' BY <1>1, <2>1, <2>2, <2>5 DEF HeldOK, AtNetwork
  <2>7. NothingOK' BY <1>1, <2>1 DEF NothingOK, Tombstone
  <2>8. PullOK' BY <2>1 DEF PullOK
  <2> QED BY <1>2, <2>3, <2>4, <2>6, <2>7, <2>8 DEF Inv
<1> QED BY <1>3, <1>4 DEF Ask

LEMMA EndDrainInv == ASSUME Inv, EndDrain PROVE Inv'
BY StayIdleInv DEF EndDrain

\* What is known of the op at the network.
LEMMA NetworkFacts ==
  ASSUME Inv, AtNetwork
  PROVE  /\ held.seq \in Nat /\ held.seq < next /\ held.note \in NoteIds /\ held.note \in drawn
         /\ \A o \in ops : o.seq = held.seq => o.note = held.note /\ o.kind = held.kind
         /\ held.kind \in {"write", "move", "delete"}
         /\ seen # NoRow => seen \in Row /\ seen.text \in Texts /\ seen.path \in Paths
         /\ pc # "sent" => held.kind = "write" /\ seen \in Row /\ seen # NoRow /\ spot \in Paths
         /\ held.kind = "write" /\ Live(rows[held.note]) => Writes(ops, held.note) # {}
<1>1. held \in OpRecord BY DEF Inv, HeldOK
<1>2. held.seq \in Nat /\ held.note \in NoteIds /\ held.kind \in {"write", "move", "delete"}
  BY <1>1 DEF OpRecord
<1>3. seen \in Row \cup {NoRow} BY DEF Inv, TypesOK
<1>4. seen # NoRow => seen \in Row /\ seen.text \in Texts /\ seen.path \in Paths
  BY <1>3 DEF Row
<1> QED BY <1>2, <1>4, StoreAssumption DEF Inv, HeldOK, DrawnOK

LEMMA SendNothingInv == ASSUME Inv, SendNothing PROVE Inv'
<1> DEFINE n == held.note
           u == Without(ops, held.seq)
<1>1. AtNetwork /\ pc = "sent" /\ (seen = NoRow \/ held.kind = "move")
  BY DEF SendNothing, AtNetwork
<1>2. Settle(Done(Now, held.seq)) /\ hand' = hand BY DEF SendNothing
<1>3. Done(Now, held.seq).rows = rows /\ Done(Now, held.seq).ops = u BY DEF Done, Now
<1>4. \A o \in ops : o.seq = held.seq => o.note = n /\ o.kind = held.kind
  BY <1>1, NetworkFacts
<1>5. n \in NoteIds /\ QueueOK(ops, next) /\ NoteOK(rows[n], ops, n)
  BY <1>1, NetworkFacts, InvFacts DEF StoreOK
<1>6. /\ Writes(u, n) = {o \in Writes(ops, n) : o.seq # held.seq}
      /\ Deletes(u, n) = {o \in Deletes(ops, n) : o.seq # held.seq}
  <2> HIDE DEF n
  <2> QED BY <1>4, <1>5, InvFacts, WithoutQueue
<1>7. NoteOK(rows[n], u, n)
  <2>1. CASE held.kind = "move"
    BY <2>1, <1>4, <1>5, <1>6 DEF NoteOK, Writes, Deletes, OpsFor
  <2>2. CASE held.kind = "write" /\ seen = NoRow
    BY <2>2, <1>1 DEF Inv, NothingOK, NoteOK, Live, Tombstone
  <2>3. CASE held.kind = "delete" /\ seen = NoRow
    <3>1. Writes(u, n) = Writes(ops, n)
      BY <2>3, <1>4, <1>6 DEF Writes, OpsFor
    <3>2. Tombstone(rows[n]) => Deletes(u, n) # {}
      BY <2>3, <1>1, <1>6 DEF Inv, NothingOK
    <3> QED BY <3>1, <3>2, <1>5 DEF NoteOK
  <2> QED BY <1>1, <2>1, <2>2, <2>3, NetworkFacts
<1>8. StoreOK(rows, u, next) BY <1>4, <1>5, <1>7, InvFacts, WithoutOK
<1>9. next \in Nat /\ next + 0 = next /\ 0 \in 0..4 BY InvFacts
<1>10. NotesIn(u, drawn) BY InvFacts DEF NotesIn, Without
<1> HIDE DEF u
<1> QED BY <1>2, <1>3, <1>8, <1>9, <1>10, InvFacts, SettledInv

LEMMA PushedInv ==
  ASSUME Inv, AtNetwork, held.kind = "write", seen \in Row, rows[held.note] # NoRow,
         NEW at \in Paths, NEW file \in Files, hand' = hand,
         Settle(Pushed(Now, next, held.seq, held.note, seen.text, at, file))
  PROVE  Inv'
<1> DEFINE n == held.note
           x == held.seq
           after == Pushed(Now, next, x, n, seen.text, at, file)
           row == [rows[n] EXCEPT !.file = file, !.synced = seen.text,
                                  !.dirty = @ /\ ~(rows[n].text = seen.text)]
           w == IF rows[n].text = seen.text THEN ops ELSE QueueWrite(ops, next, n, row, x)
           r == IF row.path = at THEN w ELSE QueueMove(w, next + 1, n, row, at)
<1>1. /\ x \in Nat /\ x < next /\ n \in NoteIds /\ n \in drawn /\ next \in Nat
      /\ rows[n] # NoRow
      /\ \A o \in ops : o.seq = x => o.note = n /\ o.kind = "write"
  BY NetworkFacts, InvFacts
<1>2. seen.text \in Texts BY DEF Row
<1>3. after.rows = [rows EXCEPT ![n] = row] /\ after.ops = Without(r, x)
  BY DEF Pushed, Now
<1>4. StoreOK(after.rows, after.ops, next + 2)
  <2> HIDE DEF n, x
  <2> QED BY <1>1, <1>2, InvFacts, PushedOK DEF Now
<1>5. NotesIn(after.ops, drawn)
  <2> HIDE DEF row, n, x, after
  <2>1. NotesIn(w, drawn) BY <1>1, InvFacts, NotesQueued
  <2> HIDE DEF w
  <2>2. NotesIn(r, drawn) BY <1>1, <2>1, NotesQueued
  <2> HIDE DEF r
  <2> QED BY <1>3, <2>2 DEF NotesIn, Without
<1>6. \A m \in NoteIds : after.rows[m] # NoRow => m \in drawn
  <2> HIDE DEF row, after
  <2> QED BY <1>1, <1>3, InvFacts
<1>7. Settle(after) OBVIOUS
<1> HIDE DEF after
<1> QED BY <1>4, <1>5, <1>6, <1>7, 2 \in 0..4, SettledInv

LEMMA PushInv == ASSUME Inv, NEW f \in Files, Push(f) PROVE Inv'
<1>1. AtNetwork /\ held.kind = "write" /\ seen # NoRow /\ rows[held.note] # NoRow
  BY DEF Push, Sending, AtNetwork
<1>2. seen \in Row /\ seen.path \in Paths BY <1>1, NetworkFacts
<1> QED BY <1>1, <1>2, PushedInv DEF Push

LEMMA PushOverInv == ASSUME Inv, NEW f \in Files, NEW p \in Paths, PushOver(f, p) PROVE Inv'
<1>1. AtNetwork /\ rows[held.note] # NoRow /\ pc # "sent" BY DEF PushOver, AtNetwork
<1>2. seen \in Row /\ held.kind = "write" BY <1>1, NetworkFacts
<1> QED BY <1>1, <1>2, PushedInv DEF PushOver

LEMMA PushAsideInv == ASSUME Inv, NEW f \in Files, PushAside(f) PROVE Inv'
<1>1. AtNetwork /\ rows[held.note] # NoRow /\ pc # "sent" BY DEF PushAside, AtNetwork
<1>2. seen \in Row /\ held.kind = "write" /\ seen.path \in Paths BY <1>1, NetworkFacts
<1> QED BY <1>1, <1>2, PushedInv DEF PushAside

LEMMA MoveInv == ASSUME Inv, NEW at \in Paths, Move(at) PROVE Inv'
<1> DEFINE n == held.note
           x == held.seq
           after == Moved(Now, next, x, n, at, seen.file)
           bound == [rows[n] EXCEPT !.file = seen.file]
           row == [bound EXCEPT !.path = at]
<1>1. AtNetwork /\ held.kind = "move" /\ seen # NoRow /\ rows[n] # NoRow
      /\ seen.file # NoFile /\ Settle(after) /\ hand' = hand
  BY DEF Move, Sending, AtNetwork
<1>2. /\ x \in Nat /\ x < next /\ n \in NoteIds /\ n \in drawn /\ next \in Nat
      /\ \A o \in ops : o.seq = x => o.note = n /\ o.kind = "move"
  BY <1>1, NetworkFacts, InvFacts
<1>3. seen.file \in Files BY <1>1, NetworkFacts DEF Row
<1>4. StoreOK(after.rows, after.ops, next + 1)
  <2> HIDE DEF n, x
  <2> QED BY <1>1, <1>2, <1>3, InvFacts, MovedOK DEF Now
<1>5. NotesIn(Without(ops, x), drawn) /\ NotesIn(QueueMove(ops, next, n, bound, at), drawn)
  BY <1>2, InvFacts, NotesQueued
<1>6. /\ after.ops \in {Without(ops, x), QueueMove(ops, next, n, bound, at)}
      /\ after.rows \in {[rows EXCEPT ![n] = row], [rows EXCEPT ![n] = bound]}
  BY DEF Moved, Now
<1> HIDE DEF after, bound, row
<1>7. NotesIn(after.ops, drawn) BY <1>5, <1>6
<1>8. \A m \in NoteIds : after.rows[m] # NoRow => m \in drawn
  <2> HIDE DEF n
  <2> QED BY <1>2, <1>6, InvFacts DEF StoreOK
<1> QED BY <1>1, <1>4, <1>7, <1>8, 1 \in 0..4, SettledInv

LEMMA PurgeInv == ASSUME Inv, Purge PROVE Inv'
<1> DEFINE n == held.note
           x == held.seq
           after == Purged(Now, next, x, n)
           row == [WithoutRemote(rows[n]) EXCEPT !.dirty = TRUE]
<1>1. AtNetwork /\ held.kind = "delete" /\ Settle(after) /\ hand' = hand
  BY DEF Purge, Sending, AtNetwork
<1>2. /\ x \in Nat /\ x < next /\ n \in NoteIds /\ n \in drawn /\ next \in Nat
      /\ \A o \in ops : o.seq = x => o.note = n /\ o.kind = "delete"
  BY <1>1, NetworkFacts, InvFacts
<1>3. StoreOK(after.rows, after.ops, next + 1)
  <2> HIDE DEF n, x
  <2> QED BY <1>2, InvFacts, PurgedOK DEF Now
<1>4. NotesIn(Without(ops, x), drawn)
      /\ NotesIn(Without(QueueWrite(ops, next, n, row, NoSeq), x), drawn)
  BY <1>2, InvFacts, NotesQueued
<1>5. /\ after.ops \in {Without(ops, x), Without(QueueWrite(ops, next, n, row, NoSeq), x)}
      /\ after.rows \in {[rows EXCEPT ![n] = row], [rows EXCEPT ![n] = NoRow]}
  BY DEF Purged, Now
<1> HIDE DEF after, row
<1>6. NotesIn(after.ops, drawn) BY <1>4, <1>5
<1>7. \A m \in NoteIds : after.rows[m] # NoRow => m \in drawn
  <2> HIDE DEF n
  <2> QED BY <1>2, <1>5, InvFacts DEF StoreOK
<1> QED BY <1>1, <1>3, <1>6, <1>7, 1 \in 0..4, SettledInv

LEMMA MeetConflictInv == ASSUME Inv, MeetConflict PROVE Inv'
<1>1. AtNetwork /\ pc = "sent" /\ held.kind = "write" /\ seen # NoRow
      /\ rows[held.note] # NoRow /\ pc' = "clash" /\ spot' = seen.path
      /\ seen' = rows[held.note] /\ UNCHANGED <<rows, ops, next, drawn, hand, plan, held, change>>
  BY DEF MeetConflict, Sending, AtNetwork, store
<1>2. held.note \in NoteIds /\ seen.path \in Paths BY <1>1, NetworkFacts
<1>3. rows[held.note] \in Row BY <1>1, <1>2, InvFacts
<1>4. TypesOK' BY <1>1, <1>2, <1>3 DEF Inv, TypesOK
<1>5. DrawnOK' BY <1>1 DEF Inv, DrawnOK, AtNetwork
<1>6. HeldOK' BY <1>1, <1>2, <1>3 DEF Inv, HeldOK, AtNetwork
<1>7. NothingOK' /\ PullOK' BY <1>1 DEF NothingOK, PullOK
<1> QED BY <1>1, <1>4, <1>5, <1>6, <1>7 DEF Inv

\* Cut loose or not, the note is moved aside and owes its write as before.
LEMMA AsideOK ==
  ASSUME Inv, AtNetwork, pc # "sent", NEW p \in Paths, NEW cut \in BOOLEAN, Aside(p, cut)
  PROVE  /\ StoreOK(rows', ops', next) /\ Keeps(ops, ops', next)
         /\ NotesIn(ops', drawn)
         /\ \A m \in NoteIds : rows'[m] = NoRow <=> rows[m] = NoRow
         /\ Writes(ops', held.note) = {} <=> Writes(ops, held.note) = {}
         /\ Live(rows'[held.note]) <=> Live(rows[held.note])
         /\ UNCHANGED <<next, drawn, hand>>
<1> DEFINE n == held.note
           c == [kind |-> "displace", note |-> n, path |-> p]
           st == IF cut THEN DetachNote(Now, c) ELSE Now
           R == st.rows
           after == DisplaceNote([rows |-> R, ops |-> ops], c)
<1>1. /\ n \in NoteIds /\ n \in drawn /\ held.kind = "write"
      /\ Live(rows[n]) => Writes(ops, n) # {}
  BY NetworkFacts
<1>2. c.note = n /\ c.path = p OBVIOUS
<1>3. /\ StoreOK(R, ops, next) /\ st = [rows |-> R, ops |-> ops]
      /\ \A m \in NoteIds : R[m] = NoRow <=> rows[m] = NoRow
      /\ Live(R[n]) <=> Live(rows[n])
  <2>1. CASE ~cut BY <2>1, InvFacts DEF Now
  <2>2. CASE cut /\ rows[n] = NoRow BY <2>2, InvFacts DEF Now, DetachNote
  <2>3. CASE cut /\ rows[n] # NoRow
    <3> DEFINE detached == DetachNote([rows |-> rows, ops |-> ops], c)
    <3>1. StoreOK(detached.rows, detached.ops, next)
      <4> HIDE DEF n, c
      <4> QED BY <1>1, <1>2, InvFacts, DetachOK
    <3>2. detached = [rows |-> [rows EXCEPT ![n] = WithoutRemote(@)], ops |-> ops]
      BY <2>3 DEF DetachNote
    <3>3. st = detached BY <2>3 DEF Now
    <3>4. rows[n] \in Row BY <1>1, <2>3, InvFacts
    <3>5. /\ WithoutRemote(rows[n]) \in Row /\ WithoutRemote(rows[n]) # NoRow
          /\ WithoutRemote(rows[n]).deleted = rows[n].deleted
      BY <3>4, StoreAssumption DEF WithoutRemote, Row
    <3>6. /\ R[n] = WithoutRemote(rows[n])
          /\ \A m \in NoteIds \ {n} : R[m] = rows[m]
      BY <1>1, <3>2, <3>3, InvFacts DEF StoreOK
    <3>7. Live(R[n]) <=> Live(rows[n]) BY <2>3, <3>5, <3>6 DEF Live
    <3>8. \A m \in NoteIds : R[m] = NoRow <=> rows[m] = NoRow BY <2>3, <3>5, <3>6
    <3> HIDE DEF st, c
    <3> QED BY <3>1, <3>2, <3>3, <3>7, <3>8 DEF R
  <2> QED BY <2>1, <2>2, <2>3
<1> HIDE DEF st, R
<1>4. rows' = after.rows /\ ops' = after.ops /\ UNCHANGED <<next, drawn, hand>>
  BY <1>3 DEF Aside, st, R
<1>5. /\ StoreOK(after.rows, after.ops, next)
      /\ Keeps(ops, after.ops, next)
      /\ \A m \in NoteIds : Writes(after.ops, m) = {} <=> Writes(ops, m) = {}
  <2> HIDE DEF c
  <2>1. c.note \in NoteIds /\ c.path \in Paths /\ next \in Nat BY <1>1, <1>2, InvFacts
  <2>2. StoreOK(R, ops, next) BY <1>3
  <2> HIDE DEF n
  <2>3. StoreOK(after.rows, after.ops, next) BY <2>1, <2>2, DisplaceOK
  <2>4. Keeps(ops, after.ops, next) BY <2>1, <2>2, DisplaceOK
  <2>5. \A m \in NoteIds : Writes(after.ops, m) = {} <=> Writes(ops, m) = {}
    BY <2>1, <2>2, DisplaceOK
  <2> QED BY <2>3, <2>4, <2>5
<1>6. CASE R[n] = NoRow
  <2>1. after.rows = R /\ after.ops = ops BY <1>6 DEF DisplaceNote
  <2> HIDE DEF after, c
  <2> QED BY <1>1, <1>3, <1>4, <1>5, <2>1, InvFacts
<1>7. CASE R[n] # NoRow
  <2> DEFINE row == [R[n] EXCEPT !.path = p]
             u == RebaseOwnOps(ops, n, R[n].path, p)
  <2>1. after.rows = [R EXCEPT ![n] = row] /\ after.ops = u
    BY <1>7 DEF DisplaceNote
  <2>2. R[n] \in Row BY <1>1, <1>3, <1>7 DEF StoreOK
  <2>3. row \in Row /\ row # NoRow /\ row.deleted = R[n].deleted
    BY <2>2, StoreAssumption DEF Row
  <2>4. NotesIn(u, drawn)
    <3>1. \A o \in ops : o \in OpRecord /\ o.note \in drawn
      BY InvFacts DEF NotesIn, StoreOK, QueueOK
    <3> QED BY <3>1 DEF NotesIn, RebaseOwnOps, OpRecord
  <2> HIDE DEF after, c, row, u
  <2>5. /\ rows'[n] = row /\ \A m \in NoteIds \ {n} : rows'[m] = R[m]
    BY <1>1, <1>3, <1>4, <2>1 DEF StoreOK
  <2>6. Live(rows'[n]) <=> Live(rows[n]) BY <1>3, <1>7, <2>3, <2>5 DEF Live
  <2>7. \A m \in NoteIds : rows'[m] = NoRow <=> rows[m] = NoRow
    BY <1>3, <1>7, <2>3, <2>5
  <2> QED BY <1>1, <1>4, <1>5, <2>1, <2>4, <2>6, <2>7
<1> QED BY <1>6, <1>7

LEMMA SetAsideInv == ASSUME Inv, NEW p \in Paths, SetAside(p) PROVE Inv'
<1>1. /\ AtNetwork /\ pc # "sent" /\ Aside(p, seen.file # NoFile) /\ pc' = "aside"
      /\ seen' = [seen EXCEPT !.path = p, !.file = NoFile]
      /\ UNCHANGED <<plan, held, spot, change>>
  BY DEF SetAside, AtNetwork
<1>2. (seen.file # NoFile) \in BOOLEAN OBVIOUS
<1>3. /\ StoreOK(rows', ops', next) /\ Keeps(ops, ops', next)
      /\ NotesIn(ops', drawn)
      /\ \A m \in NoteIds : rows'[m] = NoRow <=> rows[m] = NoRow
      /\ Writes(ops', held.note) = {} <=> Writes(ops, held.note) = {}
      /\ Live(rows'[held.note]) <=> Live(rows[held.note])
      /\ UNCHANGED <<next, drawn, hand>>
  BY <1>1, <1>2, AsideOK
<1>4. seen \in Row BY <1>1, NetworkFacts
<1>5. seen' \in Row BY <1>1, <1>4 DEF Row
<1>6. StoreOK(rows', ops', next') /\ next' \in Nat BY <1>3, InvFacts
<1>7. TypesOK' BY <1>1, <1>3, <1>5 DEF Inv, TypesOK
<1>8. DrawnOK' BY <1>1, <1>3 DEF Inv, DrawnOK, AtNetwork, NotesIn
<1>9. HeldOK'
  <2>1. \A o \in ops' : o.seq = held.seq => o.note = held.note /\ o.kind = held.kind
    BY <1>1, <1>3, NetworkFacts DEF Keeps
  <2> QED BY <1>1, <1>3, <1>5, <2>1, NetworkFacts DEF HeldOK, Inv
<1>10. NothingOK' /\ PullOK' BY <1>1 DEF NothingOK, PullOK
<1> QED BY <1>6, <1>7, <1>8, <1>9, <1>10 DEF Inv

LEMMA StepAsideInv ==
  ASSUME Inv, NEW p \in Paths, NEW cut \in BOOLEAN, StepAside(p, cut) PROVE Inv'
<1>1. AtNetwork /\ pc # "sent" /\ Aside(p, cut) /\ Idle BY DEF StepAside, AtNetwork
<1>2. /\ StoreOK(rows', ops', next) /\ NotesIn(ops', drawn)
      /\ \A m \in NoteIds : rows'[m] = NoRow <=> rows[m] = NoRow
      /\ UNCHANGED <<next, drawn, hand>>
  BY <1>1, AsideOK
<1>3. next \in Nat BY InvFacts
<1>4. StoreOK(rows', ops', next + 0) /\ 0 \in 0..4 /\ next' = NextSeq(ops', next)
  BY <1>2, <1>3, NextSame
<1> QED BY <1>1, <1>2, <1>4, InvFacts, IdleInv

LEMMA HandAfterOK ==
  ASSUME hand \in Hand, hand.kind # "none" => hand.note \in drawn, NEW R, NEW S
  PROVE  HandAfter(R, S) \in Hand /\ (HandAfter(R, S).kind # "none" => HandAfter(R, S).note \in drawn)
<1>1. hand.kind # "none" => /\ [hand EXCEPT !.stale = TRUE] \in Hand
                           /\ [hand EXCEPT !.stale = TRUE].note = hand.note
  BY DEF Hand, NoHand
<1> QED BY <1>1 DEF HandAfter

\* What a conflict leaves the queue and the rows with, beyond ConflictOK.
LEMMA ConflictNotes ==
  ASSUME NEW R, NEW q, NEW s, NEW c, NEW D, R \in [NoteIds -> Row \cup {NoRow}],
         q \subseteq OpRecord, NotesIn(q, D),
         \A n \in NoteIds : R[n] # NoRow => n \in D, c.note \in D, c.copy \in D
  PROVE  LET after == Conflict([rows |-> R, ops |-> q], s, c)
         IN  /\ NotesIn(after.ops, D)
             /\ \A n \in NoteIds : after.rows[n] # NoRow => n \in D
<1> DEFINE after == Conflict([rows |-> R, ops |-> q], s, c)
           kept == OriginIsNow(q \ Writes(q, c.note), c.note, c.path)
           over == [R EXCEPT ![c.note] = RowFromFile(@, c)]
           copy == [path |-> c.copyPath, text |-> R[c.note].text, dirty |-> TRUE,
                    deleted |-> FALSE, file |-> NoFile, synced |-> NoSynced]
<1>1. /\ after.ops \in {kept, kept \cup {NoteOp(s, "write", c.copy)}}
      /\ after.rows \in {over, [over EXCEPT ![c.copy] = copy]}
  BY DEF Conflict
<1>2. NotesIn(kept, D) BY DEF NotesIn, OriginIsNow, OpRecord
<1>3. NoteOp(s, "write", c.copy).note = c.copy BY DEF NoteOp
<1>4. NotesIn(after.ops, D)
  <2> HIDE DEF kept, over, copy, after
  <2> QED BY <1>1, <1>2, <1>3 DEF NotesIn
<1>5. \A n \in NoteIds : over[n] # NoRow => n \in D OBVIOUS
<1>6. DOMAIN over = NoteIds OBVIOUS
<1> HIDE DEF copy, over, kept
<1>7. \A n \in NoteIds : after.rows[n] # NoRow => n \in D
  <2> HIDE DEF after
  <2>1. CASE after.rows = over BY <2>1, <1>5
  <2>2. CASE after.rows = [over EXCEPT ![c.copy] = copy] BY <2>2, <1>5, <1>6
  <2> QED BY <1>1, <2>1, <2>2
<1> QED BY <1>4, <1>7

LEMMA ResolveInv ==
  ASSUME Inv, NEW t \in Texts, NEW f \in Files, NEW c \in NoteIds, NEW p \in Paths,
         Resolve(t, f, c, p)
  PROVE  Inv'
<1> DEFINE chg == [kind |-> "conflict", note |-> held.note, path |-> spot, text |-> t,
                   file |-> f, synced |-> t, copy |-> c, copyPath |-> p]
           met == Conflict([rows |-> rows, ops |-> ops], next, chg)
           after == ResolveConflict(Now, next, held.seq, chg)
<1>1. /\ AtNetwork /\ pc = "clash" /\ c \notin drawn /\ Takes(Now, chg)
      /\ rows' = after.rows /\ ops' = after.ops /\ next' = NextSeq(after.ops, next)
      /\ drawn' = drawn \cup {c} /\ hand' = HandAfter(rows, after.rows)
      /\ pc' = "drain" /\ held' = NoOp /\ seen' = NoRow /\ spot' = NoSpot
      /\ UNCHANGED <<plan, change>>
  BY DEF Resolve, Fresh, AtNetwork
<1>2. /\ held.seq \in Nat /\ held.seq < next /\ held.note \in NoteIds /\ held.note \in drawn
      /\ held.kind = "write" /\ spot \in Paths
      /\ \A o \in ops : o.seq = held.seq => o.note = held.note /\ o.kind = "write"
  BY <1>1, NetworkFacts
<1>3. rows[held.note] # NoRow /\ (Live(rows[held.note]) => rows[c] = NoRow)
  BY <1>1 DEF Takes, Now
<1>4. /\ chg.note = held.note /\ chg.path = spot /\ chg.text = t /\ chg.file = f
      /\ chg.copy = c /\ chg.copyPath = p
  OBVIOUS
<1>5. after.rows = met.rows /\ after.ops = Without(met.ops, held.seq)
  BY DEF ResolveConflict, Conflict, Now
<1> HIDE DEF chg
<1>6. StoreOK(after.rows, after.ops, next + 1)
  <2>1. c \in NoteIds \ {held.note} BY <1>1, <1>2
  <2>2. next \in Nat BY InvFacts
  <2> QED BY <1>2, <1>3, <1>4, <2>1, <2>2, InvFacts, ResolveOK DEF Now
<1>7. NotesIn(met.ops, drawn') /\ \A n \in NoteIds : met.rows[n] # NoRow => n \in drawn'
  <2>1. rows \in [NoteIds -> Row \cup {NoRow}] /\ ops \subseteq OpRecord
    BY InvFacts DEF StoreOK, QueueOK
  <2>2. NotesIn(ops, drawn') /\ (\A n \in NoteIds : rows[n] # NoRow => n \in drawn')
        /\ chg.note \in drawn' /\ chg.copy \in drawn'
    BY <1>1, <1>2, <1>4, InvFacts DEF NotesIn
  <2> QED BY <2>1, <2>2, ConflictNotes
<1> HIDE DEF met, after
<1>8. NotesIn(ops', drawn') /\ \A n \in NoteIds : rows'[n] # NoRow => n \in drawn'
  BY <1>1, <1>5, <1>7 DEF NotesIn, Without
<1>9. StoreOK(rows', ops', next') /\ next' \in Nat
  BY <1>1, <1>6, 1 \in 0..4, InvFacts, SettleOK
<1>10. hand' \in Hand /\ (hand'.kind # "none" => hand'.note \in drawn')
  BY <1>1, InvFacts, HandAfterOK
<1>11. TypesOK' BY <1>1, <1>10 DEF Inv, TypesOK
<1>12. DrawnOK' BY <1>1, <1>8, <1>10 DEF DrawnOK, AtNetwork, NotesIn
<1>13. HeldOK' /\ NothingOK' /\ PullOK' BY <1>1 DEF HeldOK, NothingOK, PullOK, AtNetwork
<1> QED BY <1>9, <1>11, <1>12, <1>13 DEF Inv

LEMMA FailInv == ASSUME Inv, Fail \/ Crash PROVE Inv'
BY StayIdleInv DEF Fail, Crash

LEMMA PushStepInv == ASSUME Inv, PushStep PROVE Inv'
BY StartPushInv, AskInv, EndDrainInv, PushInv, PushAsideInv, MoveInv, SetAsideInv,
   SendNothingInv, PurgeInv, MeetConflictInv, PushOverInv, StepAsideInv, ResolveInv
DEF PushStep

-----------------------------------------------------------------------------
(* Steps of the engine, pulling.                                             *)

LEMMA DecidedInv ==
  ASSUME Inv, NEW c \in Change, DecideToApply(c), ChangeOK(c, rows, ops),
         drawn \subseteq drawn', drawn' \subseteq NoteIds,
         c.note \in drawn', c.copy \in drawn'
  PROVE  Inv'
<1> USE DEF DecideToApply
<1>1. StoreOK(rows', ops', next') /\ next' \in Nat BY InvFacts
<1>2. TypesOK' BY DEF Inv, TypesOK
<1>3. DrawnOK' BY DEF Inv, DrawnOK, AtNetwork
<1>4. HeldOK' /\ NothingOK' BY DEF HeldOK, NothingOK, AtNetwork
<1>5. PullOK' BY DEF PullOK
<1> QED BY <1>1, <1>2, <1>3, <1>4, <1>5 DEF Inv

LEMMA DecidedType ==
  ASSUME NEW kind \in {"upsert", "adopt", "move", "delete", "detach", "displace",
                       "reupload", "conflict"},
         NEW n \in NoteIds, NEW p \in Paths, NEW t \in Texts, NEW f \in Files \cup {NoFile},
         NEW synced \in Texts \cup {NoSynced}, NEW c \in NoteIds, NEW cp \in Paths
  PROVE  /\ Decided(kind, n, p, t, f, synced, c, cp) \in Change
         /\ Decided(kind, n, p, t, f, synced, c, cp).kind = kind
         /\ Decided(kind, n, p, t, f, synced, c, cp).note = n
         /\ Decided(kind, n, p, t, f, synced, c, cp).file = f
         /\ Decided(kind, n, p, t, f, synced, c, cp).synced = synced
         /\ Decided(kind, n, p, t, f, synced, c, cp).copy = c
BY DEF Decided, Change

LEMMA DecideUpsertInv ==
  ASSUME Inv, NEW n \in NoteIds, NEW p \in Paths, NEW t \in Texts, NEW f \in Files,
         DecideUpsert(n, p, t, f)
  PROVE  Inv'
<1> DEFINE c == Decided("upsert", n, p, t, f, t, n, p)
<1>1. c \in Change /\ c.kind = "upsert" /\ c.file = f /\ c.note = n /\ c.copy = n
  BY DecidedType
<1>2. DecideToApply(c) /\ drawn' = drawn \cup {n} BY DEF DecideUpsert
<1> HIDE DEF c
<1>3. ChangeOK(c, rows, ops) BY <1>1 DEF ChangeOK
<1> QED BY <1>1, <1>2, <1>3, InvFacts, DecidedInv

\* The bytes under a note that owes no write are the text it holds.
LEMMA KnownBytesOK ==
  ASSUME Inv, NEW n \in NoteIds, NEW synced \in Texts, KnownBytes(n, synced),
         Live(rows[n]), Writes(ops, n) = {}
  PROVE  synced = rows[n].text
BY InvFacts DEF KnownBytes, StoreOK, NoteOK

LEMMA DecideKnownInv ==
  ASSUME Inv, NEW n \in NoteIds, NEW p \in Paths, NEW f \in Files, NEW s \in Texts,
         DecideAdopt(n, p, f, s) \/ DecideMove(n, p, f, s)
  PROVE  Inv'
<1>1. PICK kind \in {"adopt", "move"} :
        DecideToApply(Decided(kind, n, p, rows[n].text, f, s, n, p))
  BY DEF DecideAdopt, DecideMove
<1> DEFINE c == Decided(kind, n, p, rows[n].text, f, s, n, p)
<1>2. KnownBytes(n, s) /\ rows[n] # NoRow /\ drawn' = drawn
  BY DEF DecideAdopt, DecideMove, KnownBytes
<1>3. rows[n].text \in Texts BY <1>2, InvFacts DEF Row
<1>4. c \in Change /\ c.kind = kind /\ c.note = n /\ c.file = f /\ c.synced = s /\ c.copy = n
  BY <1>3, DecidedType
<1> HIDE DEF c
<1>5. ChangeOK(c, rows, ops) BY <1>2, <1>4, KnownBytesOK DEF ChangeOK
<1> QED BY <1>1, <1>2, <1>4, <1>5, InvFacts, DecidedInv DEF c

LEMMA DecideGoneInv ==
  ASSUME Inv, NEW n \in NoteIds, NEW k \in {"delete", "detach", "reupload"}, DecideGone(n, k)
  PROVE  Inv'
<1> DEFINE c == Decided(k, n, rows[n].path, rows[n].text, rows[n].file,
                        rows[n].text, n, rows[n].path)
<1>1. /\ rows[n] # NoRow /\ DecideToApply(c) /\ drawn' = drawn
      /\ k = "detach" => Unsent(rows[n])
  BY DEF DecideGone
<1>2. /\ rows[n].path \in Paths /\ rows[n].text \in Texts /\ rows[n].file \in Files \cup {NoFile}
  BY <1>1, InvFacts DEF Row
<1>3. c \in Change /\ c.kind = k /\ c.note = n /\ c.copy = n
  <2>1. k \in {"upsert", "adopt", "move", "delete", "detach", "displace", "reupload", "conflict"}
        /\ rows[n].text \in Texts \cup {NoSynced}
    BY <1>2
  <2> DEFINE pp == rows[n].path  tt == rows[n].text  ff == rows[n].file
  <2>2. pp \in Paths /\ tt \in Texts /\ tt \in Texts \cup {NoSynced} /\ ff \in Files \cup {NoFile}
    BY <1>2
  <2>3. c = Decided(k, n, pp, tt, ff, tt, n, pp) OBVIOUS
  <2> HIDE DEF pp, tt, ff, c
  <2> QED BY <2>1, <2>2, <2>3, DecidedType
<1> HIDE DEF c
<1>4. k = "detach" => Writes(ops, n) # {}
  BY <1>1, InvFacts DEF StoreOK, NoteOK, Unsent
<1>5. ChangeOK(c, rows, ops) BY <1>3, <1>4 DEF ChangeOK
<1> QED BY <1>1, <1>3, <1>5, InvFacts, DecidedInv

LEMMA DecideDisplaceInv ==
  ASSUME Inv, NEW n \in NoteIds, NEW p \in Paths, DecideDisplace(n, p)
  PROVE  Inv'
<1> DEFINE c == Decided("displace", n, p, rows[n].text, NoFile, rows[n].text, n, p)
<1>1. rows[n] # NoRow /\ DecideToApply(c) /\ drawn' = drawn BY DEF DecideDisplace
<1>2. rows[n].text \in Texts BY <1>1, InvFacts DEF Row
<1>3. c \in Change /\ c.kind = "displace" /\ c.note = n /\ c.copy = n
  <2>1. rows[n].text \in Texts \cup {NoSynced} /\ NoFile \in Files \cup {NoFile} BY <1>2
  <2> DEFINE tt == rows[n].text
             kk == "displace"
  <2>2. /\ tt \in Texts /\ tt \in Texts \cup {NoSynced}
        /\ kk \in {"upsert", "adopt", "move", "delete", "detach", "displace", "reupload", "conflict"}
    BY <1>2
  <2>3. c = Decided(kk, n, p, tt, NoFile, tt, n, p) OBVIOUS
  <2> HIDE DEF tt, kk, c
  <2>4. c \in Change /\ c.kind = kk /\ c.note = n /\ c.copy = n
    BY <2>1, <2>2, <2>3, DecidedType
  <2> QED BY <2>4 DEF kk
<1> HIDE DEF c
<1>4. ChangeOK(c, rows, ops) BY <1>3 DEF ChangeOK
<1>5. n \in drawn' BY <1>1, InvFacts
<1> QED BY <1>1, <1>3, <1>4, <1>5, InvFacts, DecidedInv

LEMMA DecideConflictInv ==
  ASSUME Inv, NEW n \in NoteIds, NEW p \in Paths, NEW t \in Texts, NEW f \in Files,
         NEW b \in NoteIds, NEW cp \in Paths, DecideConflict(n, p, t, f, b, cp)
  PROVE  Inv'
<1> DEFINE c == Decided("conflict", n, p, t, f, t, b, cp)
<1>1. Live(rows[n]) /\ DecideToApply(c) /\ drawn' = drawn \cup {b} /\ b \notin drawn
  BY DEF DecideConflict, Unsent, Fresh
<1>2. b # n BY <1>1, InvFacts DEF Live
<1>3. c \in Change /\ c.kind = "conflict" /\ c.note = n /\ c.file = f /\ c.copy = b
  BY DecidedType
<1> HIDE DEF c
<1>4. ChangeOK(c, rows, ops) BY <1>2, <1>3 DEF ChangeOK
<1>5. n \in drawn' /\ b \in drawn' /\ drawn \subseteq drawn' /\ drawn' \subseteq NoteIds
  BY <1>1, InvFacts DEF Live
<1> QED BY <1>1, <1>3, <1>4, <1>5, DecidedInv

\* Whatever its kind, a change the store takes leaves a store that is well.
LEMMA ChangeAppliedOK ==
  ASSUME Inv, pc = "pull", Takes(Now, change)
  PROVE  LET after == ApplyChange(Now, next, change)
         IN  StoreOK(after.rows, after.ops, next + 1)
<1> DEFINE n == change.note
           after == ApplyChange(Now, next, change)
<1> SUFFICES StoreOK(after.rows, after.ops, next + 1) OBVIOUS
<1>1. change \in Change /\ ChangeOK(change, rows, ops) BY DEF Inv, PullOK
<1>2. /\ change.kind \in {"upsert", "adopt", "move", "delete", "detach", "displace",
                          "reupload", "conflict"}
      /\ change.note \in NoteIds /\ change.path \in Paths /\ change.text \in Texts
      /\ change.synced \in Texts \cup {NoSynced}
      /\ change.copy \in NoteIds /\ change.copyPath \in Paths
  BY <1>1 DEF Change
<1>3. next \in Nat /\ StoreOK(rows, ops, next) BY InvFacts
<1>4. ASSUME NEW R, NEW q, StoreOK(R, q, next) PROVE StoreOK(R, q, next + 1)
  BY <1>3, <1>4 DEF StoreOK, QueueOK, OpRecord
<1>5. CASE change.kind = "upsert"
  <2>1. after = Upsert([rows |-> rows, ops |-> ops], change) BY <1>5 DEF ApplyChange, Now
  <2>2. change.file \in Files /\ ~Unsent(rows[n]) BY <1>1, <1>5 DEF ChangeOK, Takes, Now
  <2> HIDE DEF after
  <2>3. StoreOK(after.rows, after.ops, next) BY <1>2, <1>3, <2>1, <2>2, UpsertOK
  <2> QED BY <1>4, <2>3
<1>6. CASE change.kind = "adopt"
  <2>1. after = AdoptVersion([rows |-> rows, ops |-> ops], change)
    BY <1>6 DEF ApplyChange, Now
  <2>2. /\ change.file \in Files /\ rows[n] # NoRow
        /\ Live(rows[n]) /\ Writes(ops, n) = {} => change.synced = rows[n].text
    BY <1>1, <1>6 DEF ChangeOK, Takes, Now
  <2> HIDE DEF after
  <2>3. StoreOK(after.rows, after.ops, next) BY <1>2, <1>3, <2>1, <2>2, AdoptOK
  <2> QED BY <1>4, <2>3
<1>7. CASE change.kind = "move"
  <2>1. after = MoveNote([rows |-> rows, ops |-> ops], change) BY <1>7 DEF ApplyChange, Now
  <2>2. /\ change.file \in Files /\ rows[n] # NoRow
        /\ Live(rows[n]) /\ Writes(ops, n) = {} => change.synced = rows[n].text
    BY <1>1, <1>7 DEF ChangeOK, Takes, Now
  <2> HIDE DEF after
  <2>3. StoreOK(after.rows, after.ops, next) BY <1>2, <1>3, <2>1, <2>2, MoveNoteOK
  <2> QED BY <1>4, <2>3
<1>8. CASE change.kind = "delete"
  <2>1. after = DeleteNote([rows |-> rows, ops |-> ops], change)
    BY <1>8 DEF ApplyChange, Now
  <2> HIDE DEF after
  <2>2. StoreOK(after.rows, after.ops, next) BY <1>2, <1>3, <2>1, DeleteNoteOK
  <2> QED BY <1>4, <2>2
<1>9. CASE change.kind = "detach"
  <2>1. after = DetachNote([rows |-> rows, ops |-> ops], change)
    BY <1>9 DEF ApplyChange, Now
  <2>2. Live(rows[n]) => Writes(ops, n) # {} BY <1>1, <1>9 DEF ChangeOK
  <2> HIDE DEF after
  <2>3. StoreOK(after.rows, after.ops, next) BY <1>2, <1>3, <2>1, <2>2, DetachOK
  <2> QED BY <1>4, <2>3
<1>10. CASE change.kind = "displace"
  <2>1. after = DisplaceNote([rows |-> rows, ops |-> ops], change)
    BY <1>10 DEF ApplyChange, Now
  <2> HIDE DEF after
  <2>2. StoreOK(after.rows, after.ops, next) BY <1>2, <1>3, <2>1, DisplaceOK
  <2> QED BY <1>4, <2>2
<1>11. CASE change.kind = "reupload"
  <2>1. after = ReuploadNote([rows |-> rows, ops |-> ops], next, change)
    BY <1>11 DEF ApplyChange, Now
  <2> HIDE DEF after
  <2> QED BY <1>2, <1>3, <2>1, ReuploadOK
<1>12. CASE change.kind = "conflict"
  <2>1. after = Conflict([rows |-> rows, ops |-> ops], next, change)
    BY <1>12 DEF ApplyChange, Now
  <2>2. /\ change.file \in Files /\ change.copy \in NoteIds \ {change.note}
        /\ rows[n] # NoRow /\ (Live(rows[n]) => rows[change.copy] = NoRow)
    BY <1>1, <1>2, <1>12 DEF ChangeOK, Takes, Now
  <2> HIDE DEF after
  <2> QED BY <1>2, <1>3, <2>1, <2>2, ConflictOK
<1> QED BY <1>2, <1>5, <1>6, <1>7, <1>8, <1>9, <1>10, <1>11, <1>12

\* The notes it leaves, in rows and queue, had all been drawn.
LEMMA ChangeAppliedNotes ==
  ASSUME Inv, pc = "pull"
  PROVE  LET after == ApplyChange(Now, next, change)
         IN  /\ NotesIn(after.ops, drawn)
             /\ \A n \in NoteIds : after.rows[n] # NoRow => n \in drawn
<1> DEFINE st == [rows |-> rows, ops |-> ops]
           n == change.note
           after == ApplyChange(Now, next, change)
           Well(a) == /\ NotesIn(a.ops, drawn)
                      /\ \A m \in NoteIds : a.rows[m] # NoRow => m \in drawn
<1> SUFFICES Well(after) OBVIOUS
<1>1. /\ change.kind \in {"upsert", "adopt", "move", "delete", "detach", "displace",
                          "reupload", "conflict"}
      /\ n \in NoteIds /\ n \in drawn /\ change.copy \in drawn
  BY DEF Inv, PullOK, DrawnOK, Change
<1>2. /\ rows \in [NoteIds -> Row \cup {NoRow}] /\ ops \subseteq OpRecord
      /\ NotesIn(ops, drawn) /\ \A m \in NoteIds : rows[m] # NoRow => m \in drawn
  BY InvFacts DEF StoreOK, QueueOK
<1>3. ASSUME NEW row PROVE \A m \in NoteIds : [rows EXCEPT ![n] = row][m] # NoRow => m \in drawn
  BY <1>1, <1>2
<1>4. NotesIn(OriginIsNow(ops, n, change.path), drawn)
  BY <1>2 DEF NotesIn, OriginIsNow, OpRecord
<1>5. ASSUME NEW from PROVE NotesIn(RebaseOwnOps(ops, n, from, change.path), drawn)
  BY <1>2 DEF NotesIn, RebaseOwnOps, OpRecord
<1>6. Well(st) BY <1>2
<1>7. Well(Upsert(st, change)) BY <1>3, <1>4 DEF Upsert
<1>8. Well(AdoptVersion(st, change)) BY <1>3, <1>4 DEF AdoptVersion
<1>9. Well(MoveNote(st, change)) BY <1>3, <1>5 DEF MoveNote
<1>10. Well(DeleteNote(st, change)) BY <1>2, <1>3 DEF DeleteNote
<1>11. Well(DetachNote(st, change)) BY <1>2, <1>3, <1>6 DEF DetachNote
<1>12. Well(DisplaceNote(st, change)) BY <1>3, <1>5, <1>6 DEF DisplaceNote
<1>13. Well(ReuploadNote(st, next, change))
  <2>1. NotesIn(ops \cup {NoteOp(next, "write", n)}, drawn) BY <1>1, <1>2 DEF NotesIn, NoteOp
  <2> QED BY <1>3, <1>6, <2>1 DEF ReuploadNote
<1>14. Well(Conflict(st, next, change)) BY <1>1, <1>2, ConflictNotes
<1> HIDE DEF Well
<1> QED BY <1>1, <1>7, <1>8, <1>9, <1>10, <1>11, <1>12, <1>13, <1>14 DEF ApplyChange, Now

LEMMA ApplyInv == ASSUME Inv, Apply PROVE Inv'
<1> DEFINE after == ApplyChange(Now, next, change)
           took == Takes(Now, change)
           touched == HandAfter(rows, after.rows)
<1>1. /\ pc = "pull" /\ Idle /\ drawn' = drawn
      /\ rows' = IF took THEN after.rows ELSE rows
      /\ ops' = IF took THEN after.ops ELSE ops
      /\ next' = NextSeq(ops', next)
  BY DEF Apply
<1>2. hand' \in Hand /\ (hand'.kind # "none" => hand'.note \in drawn)
  <2>1. touched \in Hand /\ (touched.kind # "none" => touched.note \in drawn)
    BY InvFacts, HandAfterOK
  <2>2. PICK mark, dropped \in BOOLEAN :
          hand' = hand \/ (hand # NoHand /\ hand' = [touched EXCEPT !.mark = mark, !.dropped = dropped])
    <3>1. CASE ~took \/ hand = NoHand BY <3>1 DEF Apply
    <3>2. CASE ~(~took \/ hand = NoHand)
      <4> DEFINE arrived == change.kind = "upsert" /\ hand.note = change.note
                 mark == touched.mark /\ ~arrived
                 dropped == touched.dropped /\ ~(arrived /\ rows[hand.note] = NoRow)
      <4>1. hand' = [touched EXCEPT !.mark = mark, !.dropped = dropped]
        BY <3>2 DEF Apply
      <4>2. mark \in BOOLEAN /\ dropped \in BOOLEAN OBVIOUS
      <4> QED BY <3>2, <4>1, <4>2
    <3> QED BY <3>1, <3>2
  <2>3. hand # NoHand => hand.kind # "none" /\ touched.kind # "none"
    BY InvFacts DEF Hand, NoHand, HandAfter
  <2> HIDE DEF touched
  <2>4. touched.kind # "none" =>
          /\ [touched EXCEPT !.mark = mark, !.dropped = dropped] \in Hand
          /\ [touched EXCEPT !.mark = mark, !.dropped = dropped].note = touched.note
    BY <2>1 DEF Hand, NoHand
  <2> QED BY <2>1, <2>2, <2>3, <2>4, InvFacts
<1>3. StoreOK(rows', ops', next + 1) /\ NotesIn(ops', drawn)
      /\ \A n \in NoteIds : rows'[n] # NoRow => n \in drawn
  <2>1. CASE took
    BY <1>1, <2>1, ChangeAppliedOK, ChangeAppliedNotes
  <2>2. CASE ~took
    <3>1. StoreOK(rows, ops, next + 1) BY InvFacts DEF StoreOK, QueueOK, OpRecord
    <3> QED BY <1>1, <2>2, <3>1, InvFacts
  <2> QED BY <2>1, <2>2
<1> QED BY <1>1, <1>2, <1>3, 1 \in 0..4, IdleInv

LEMMA PullStepInv == ASSUME Inv, PullStep PROVE Inv'
BY DecideUpsertInv, DecideKnownInv, DecideGoneInv, DecideDisplaceInv, DecideConflictInv,
   ApplyInv
DEF PullStep

-----------------------------------------------------------------------------
(* The theorems.                                                             *)

LEMMA InitInv == Init => Inv
<1> SUFFICES ASSUME Init PROVE Inv OBVIOUS
<1> USE DEF Init
<1>1. StoreOK(rows, ops, next)
  BY DEF StoreOK, QueueOK, NoteOK, Live, Tombstone
<1>2. TypesOK BY NoHandOK DEF TypesOK
<1>3. DrawnOK BY NoHandOK DEF DrawnOK, AtNetwork
<1>4. HeldOK /\ NothingOK /\ PullOK BY DEF HeldOK, NothingOK, PullOK, AtNetwork
<1> QED BY <1>1, <1>2, <1>3, <1>4 DEF Inv

LEMMA StutterInv == Inv /\ UNCHANGED vars => Inv'
BY DEF Inv, vars, TypesOK, DrawnOK, HeldOK, NothingOK, PullOK, AtNetwork

LEMMA StepInv == Inv /\ [NextApart]_vars => Inv'
<1> SUFFICES ASSUME Inv, [NextApart]_vars PROVE Inv' OBVIOUS
<1>1. CASE UserApart \/ (BringsBack /\ ~WriteOfNothing(hand.note)) BY <1>1, UserInv
<1>2. CASE PushStep BY <1>2, PushStepInv
<1>3. CASE PullStep BY <1>3, PullStepInv
<1>4. CASE Fail \/ Crash BY <1>4, FailInv
<1>5. CASE UNCHANGED vars BY <1>5, StutterInv
<1> QED BY <1>1, <1>2, <1>3, <1>4, <1>5 DEF NextApart, Engine

LEMMA InvAlways == SpecApart => []Inv
<1>1. Init => Inv BY InitInv
<1>2. Inv /\ [NextApart]_vars => Inv' BY StepInv
<1> QED BY <1>1, <1>2, PTL DEF SpecApart

\* The types hold, an unbound row records no synced text and queued numbers are
\* distinct and below the auto-increment, in every interleaving of the user's
\* writers (store/notes.ts) with the engine's transactions (sync/store.ts).
THEOREM TypeSafe == SpecApart => []TypeOK
<1>1. Inv => TypeOK
  BY DEF Inv, StoreOK, QueueOK, RowOK, TypesOK, TypeOK
<1> QED BY <1>1, InvAlways, PTL

\* No edit is left behind: a live note that owes no write is clean, bound to a
\* file, and last synced with the text it holds (queueWrite, settle,
\* applyConflict, upsertNote, reuploadNote).
THEOREM NoEditLeftBehind == SpecApart => []NothingUnowed
<1>1. Inv => NothingUnowed BY DEF Inv, StoreOK, NoteOK, NothingUnowed
<1> QED BY <1>1, InvAlways, PTL

\* A tombstone always has its delete queued and never a write (queueDelete,
\* queueRestore, settle's purge).
THEOREM DeletesReachTheRemote == SpecApart => []TombstoneOwesItsDelete
<1>1. Inv => TombstoneOwesItsDelete BY DEF Inv, StoreOK, NoteOK, TombstoneOwesItsDelete
<1> QED BY <1>1, InvAlways, PTL

-----------------------------------------------------------------------------
(* What a step of the engine may never do: lose a text the remote has not    *)
(* been sent, or a name given while a move was on its way.                   *)
(*                                                                           *)
(* The first has two halves.  The rows alone show where an unsent text went  *)
(* (SafeRows, one lemma per operator of NoteQueue); that a dirty row also    *)
(* owes a write is the inductive invariant, in the state the step leads to.  *)
(* The second needs a fact of its own about the move at the network          *)
(* (MoveOnItsWay), which only the user's transactions can touch (Follows,    *)
(* one lemma per operator).                                                  *)

\* Every text that R owes the remote is in a live row of S, dirty or as synced.
SafeRows(R, S) ==
  \A n \in NoteIds : Unsent(R[n]) =>
    \E m \in NoteIds : /\ Live(S[m]) /\ S[m].text = R[n].text
                       /\ S[m].dirty \/ S[m].synced = R[n].text

Rows == [NoteIds -> Row \cup {NoRow}]

\* A row of the record type is a row.
LEMMA RowIsThere == ASSUME NEW row \in Row PROVE row # NoRow /\ (Live(row) <=> ~row.deleted)
BY StoreAssumption DEF Live

LEMMA SameRowsSafe == ASSUME NEW R PROVE SafeRows(R, R)
BY DEF SafeRows, Unsent

\* One row replaced, by one that holds the unsent text it had, if it had any.
LEMMA OneRowSafe ==
  ASSUME NEW R \in Rows, NEW n \in NoteIds, NEW row,
         Unsent(R[n]) => /\ Live(row) /\ row.text = R[n].text
                         /\ row.dirty \/ row.synced = R[n].text
  PROVE  SafeRows(R, [R EXCEPT ![n] = row])
<1> SUFFICES ASSUME NEW m \in NoteIds, Unsent(R[m])
             PROVE  \E k \in NoteIds :
                      /\ Live([R EXCEPT ![n] = row][k])
                      /\ [R EXCEPT ![n] = row][k].text = R[m].text
                      /\ \/ [R EXCEPT ![n] = row][k].dirty
                         \/ [R EXCEPT ![n] = row][k].synced = R[m].text
  BY DEF SafeRows
<1>1. [R EXCEPT ![n] = row][n] = row BY DEF Rows
<1>2. CASE m = n
  <2>1. Live(row) /\ row.text = R[m].text /\ (row.dirty \/ row.synced = R[m].text) BY <1>2
  <2> QED BY <1>1, <2>1
<1>3. CASE m # n
  <2>1. [R EXCEPT ![n] = row][m] = R[m] BY <1>3 DEF Rows
  <2> QED BY <2>1 DEF Unsent
<1> QED BY <1>2, <1>3

-----------------------------------------------------------------------------
(* What an op achieved.                                                       *)

LEMMA PushedSafe ==
  ASSUME NEW R \in Rows, NEW q, NEW s, NEW x, NEW n \in NoteIds, NEW sent \in Texts,
         NEW at, NEW file \in Files, R[n] # NoRow
  PROVE  SafeRows(R, Pushed([rows |-> R, ops |-> q], s, x, n, sent, at, file).rows)
<1> DEFINE row == [R[n] EXCEPT !.file = file, !.synced = sent,
                               !.dirty = @ /\ ~(R[n].text = sent)]
<1>1. R[n] \in Row BY DEF Rows
<1>2. /\ row \in Row /\ row.text = R[n].text /\ row.deleted = R[n].deleted
      /\ row.synced = sent /\ row.dirty = (R[n].dirty /\ ~(R[n].text = sent))
  BY <1>1 DEF Row
<1>3. Pushed([rows |-> R, ops |-> q], s, x, n, sent, at, file).rows = [R EXCEPT ![n] = row]
  BY DEF Pushed
<1> HIDE DEF row
<1>4. Unsent(R[n]) => Live(row) /\ row.text = R[n].text /\ (row.dirty \/ row.synced = R[n].text)
  BY <1>2, RowIsThere DEF Unsent, Live
<1> QED BY <1>3, <1>4, OneRowSafe

LEMMA MovedSafe ==
  ASSUME NEW R \in Rows, NEW q, NEW s, NEW x, NEW n \in NoteIds, NEW at \in Paths,
         NEW file \in Files
  PROVE  SafeRows(R, Moved([rows |-> R, ops |-> q], s, x, n, at, file).rows)
<1> DEFINE bound == [R[n] EXCEPT !.file = file]
           row == [bound EXCEPT !.path = at]
<1>1. ASSUME R[n] \in Row
      PROVE  /\ bound \in Row /\ bound.text = R[n].text /\ bound.deleted = R[n].deleted
             /\ bound.dirty = R[n].dirty
             /\ row \in Row /\ row.text = R[n].text /\ row.deleted = R[n].deleted
             /\ row.dirty = R[n].dirty
  BY <1>1 DEF Row
<1>2. Moved([rows |-> R, ops |-> q], s, x, n, at, file).rows
        \in {[R EXCEPT ![n] = bound], [R EXCEPT ![n] = row]}
  BY DEF Moved
<1> HIDE DEF row, bound
<1>3. Unsent(R[n]) => R[n] \in Row BY DEF Unsent, Live, Rows
<1>4. Unsent(R[n]) => /\ Live(bound) /\ bound.text = R[n].text /\ bound.dirty
                      /\ Live(row) /\ row.text = R[n].text /\ row.dirty
  BY <1>1, <1>3, RowIsThere DEF Unsent, Live
<1>5. SafeRows(R, [R EXCEPT ![n] = bound]) /\ SafeRows(R, [R EXCEPT ![n] = row])
  BY <1>4, OneRowSafe
<1> QED BY <1>2, <1>5

LEMMA PurgedSafe ==
  ASSUME NEW R \in Rows, NEW q, NEW s, NEW x, NEW n \in NoteIds
  PROVE  SafeRows(R, Purged([rows |-> R, ops |-> q], s, x, n).rows)
<1> DEFINE row == [WithoutRemote(R[n]) EXCEPT !.dirty = TRUE]
<1>1. CASE Live(R[n])
  <2>1. R[n] \in Row BY <1>1 DEF Live, Rows
  <2>2. row \in Row /\ row.text = R[n].text /\ row.deleted = R[n].deleted /\ row.dirty
    BY <2>1 DEF Row, WithoutRemote
  <2>3. Purged([rows |-> R, ops |-> q], s, x, n).rows = [R EXCEPT ![n] = row]
    BY <1>1 DEF Purged
  <2> HIDE DEF row
  <2>4. Live(row) /\ row.text = R[n].text /\ row.dirty BY <1>1, <2>2, RowIsThere DEF Live
  <2> QED BY <2>3, <2>4, OneRowSafe
<1>2. CASE ~Live(R[n])
  <2>1. Purged([rows |-> R, ops |-> q], s, x, n).rows = [R EXCEPT ![n] = NoRow]
    BY <1>2 DEF Purged
  <2> QED BY <1>2, <2>1, OneRowSafe DEF Unsent
<1> QED BY <1>1, <1>2

-----------------------------------------------------------------------------
(* What a pull's change does.                                                 *)

\* A row whose text, flags and life are as they were.
LEMMA KeptRowSafe ==
  ASSUME NEW R \in Rows, NEW n \in NoteIds, NEW row,
         R[n] \in Row => /\ row \in Row /\ row.text = R[n].text
                         /\ row.deleted = R[n].deleted /\ (R[n].dirty => row.dirty)
  PROVE  SafeRows(R, [R EXCEPT ![n] = row])
<1>1. Unsent(R[n]) => R[n] \in Row BY DEF Unsent, Live, Rows
<1>2. Unsent(R[n]) => Live(row) /\ row.text = R[n].text /\ row.dirty
  BY <1>1, RowIsThere DEF Unsent, Live
<1> QED BY <1>2, OneRowSafe

LEMMA DetachSafe ==
  ASSUME NEW R \in Rows, NEW q, NEW c, c.note \in NoteIds
  PROVE  SafeRows(R, DetachNote([rows |-> R, ops |-> q], c).rows)
<1>1. R[c.note] \in Row =>
        /\ WithoutRemote(R[c.note]) \in Row
        /\ WithoutRemote(R[c.note]).text = R[c.note].text
        /\ WithoutRemote(R[c.note]).deleted = R[c.note].deleted
        /\ WithoutRemote(R[c.note]).dirty = R[c.note].dirty
  BY DEF Row, WithoutRemote
<1>2. SafeRows(R, [R EXCEPT ![c.note] = WithoutRemote(R[c.note])])
  BY <1>1, KeptRowSafe
<1> QED BY <1>2, SameRowsSafe DEF DetachNote

LEMMA DisplaceSafe ==
  ASSUME NEW R \in Rows, NEW q, NEW c, c.note \in NoteIds, c.path \in Paths
  PROVE  SafeRows(R, DisplaceNote([rows |-> R, ops |-> q], c).rows)
<1> DEFINE row == [R[c.note] EXCEPT !.path = c.path]
<1>1. R[c.note] \in Row => /\ row \in Row /\ row.text = R[c.note].text
                           /\ row.deleted = R[c.note].deleted /\ row.dirty = R[c.note].dirty
  BY DEF Row
<1>2. DisplaceNote([rows |-> R, ops |-> q], c).rows \in {R, [R EXCEPT ![c.note] = row]}
  BY DEF DisplaceNote
<1> HIDE DEF row
<1>3. SafeRows(R, [R EXCEPT ![c.note] = row]) BY <1>1, KeptRowSafe
<1> QED BY <1>2, <1>3, SameRowsSafe

\* The text that lost is in the copy; every other row is as it was.
LEMMA ConflictSafe ==
  ASSUME NEW R \in Rows, NEW q, NEW s, NEW c, c.note \in NoteIds,
         c.copy \in NoteIds \ {c.note}, c.copyPath \in Paths,
         R[c.note] # NoRow, Live(R[c.note]) => R[c.copy] = NoRow
  PROVE  SafeRows(R, Conflict([rows |-> R, ops |-> q], s, c).rows)
<1> DEFINE after == Conflict([rows |-> R, ops |-> q], s, c)
           over == [R EXCEPT ![c.note] = RowFromFile(@, c)]
           copy == [path |-> c.copyPath, text |-> R[c.note].text, dirty |-> TRUE,
                    deleted |-> FALSE, file |-> NoFile, synced |-> NoSynced]
<1>1. CASE R[c.note].deleted
  <2>1. after.rows = over BY <1>1 DEF Conflict
  <2>2. ~Unsent(R[c.note]) BY <1>1 DEF Unsent, Live
  <2>3. SafeRows(R, [R EXCEPT ![c.note] = RowFromFile(R[c.note], c)]) BY <2>2, OneRowSafe
  <2> QED BY <2>1, <2>3
<1>2. CASE ~R[c.note].deleted
  <2>1. after.rows = [over EXCEPT ![c.copy] = copy] BY <1>2 DEF Conflict
  <2>2. R[c.note] \in Row /\ R[c.note].text \in Texts BY DEF Rows, Row
  <2>3. copy \in Row BY <2>2 DEF Row
  <2>4. Live(copy) /\ copy.text = R[c.note].text /\ copy.dirty BY <2>3, RowIsThere
  <2>5. after.rows[c.copy] = copy BY <2>1 DEF Rows
  <2>6. \A m \in NoteIds \ {c.note, c.copy} : after.rows[m] = R[m] BY <2>1 DEF Rows
  <2>7. R[c.copy] = NoRow BY <1>2 DEF Live
  <2> HIDE DEF after, copy
  <2>8. ASSUME NEW n \in NoteIds, Unsent(R[n])
        PROVE  \E m \in NoteIds : /\ Live(after.rows[m]) /\ after.rows[m].text = R[n].text
                                  /\ after.rows[m].dirty \/ after.rows[m].synced = R[n].text
    <3>1. CASE n = c.note BY <2>4, <2>5, <3>1
    <3>2. CASE n # c.note
      <4>1. n # c.copy BY <2>7, <2>8 DEF Unsent, Live
      <4> QED BY <2>6, <2>8, <3>2, <4>1 DEF Unsent
    <3> QED BY <3>1, <3>2
  <2> QED BY <2>8 DEF SafeRows, after
<1> QED BY <1>1, <1>2

\* Whatever a pull decided, as long as the store takes it.
LEMMA AppliedSafe ==
  ASSUME Inv, pc = "pull", Takes(Now, change)
  PROVE  SafeRows(rows, ApplyChange(Now, next, change).rows)
<1> DEFINE n == change.note
           after == ApplyChange(Now, next, change)
<1> SUFFICES SafeRows(rows, after.rows) OBVIOUS
<1>1. change \in Change /\ ChangeOK(change, rows, ops) BY DEF Inv, PullOK
<1>2. /\ change.kind \in {"upsert", "adopt", "move", "delete", "detach", "displace",
                          "reupload", "conflict"}
      /\ change.note \in NoteIds /\ change.path \in Paths
      /\ change.file \in Files \cup {NoFile} /\ change.synced \in Texts \cup {NoSynced}
      /\ change.copy \in NoteIds /\ change.copyPath \in Paths
  BY <1>1 DEF Change
<1>3. rows \in Rows BY InvFacts DEF StoreOK, Rows
<1>4. CASE change.kind = "upsert"
  <2>1. after.rows = [rows EXCEPT ![n] = RowFromFile(rows[n], change)]
    BY <1>4 DEF ApplyChange, Upsert, Now
  <2>2. ~Unsent(rows[n]) BY <1>4 DEF Takes, Now
  <2> HIDE DEF after
  <2> QED BY <1>2, <1>3, <2>1, <2>2, OneRowSafe
<1>5. CASE change.kind = "adopt"
  <2> DEFINE row == [rows[n] EXCEPT !.file = change.file, !.synced = change.synced]
  <2>1. after.rows = [rows EXCEPT ![n] = row] BY <1>5 DEF ApplyChange, AdoptVersion, Now
  <2>2. rows[n] \in Row => /\ row \in Row /\ row.text = rows[n].text
                           /\ row.deleted = rows[n].deleted /\ row.dirty = rows[n].dirty
    BY <1>2 DEF Row
  <2> HIDE DEF after, row
  <2> QED BY <1>2, <1>3, <2>1, <2>2, KeptRowSafe
<1>6. CASE change.kind = "move"
  <2> DEFINE row == [rows[n] EXCEPT !.path = change.path, !.file = change.file,
                                    !.synced = change.synced]
  <2>1. after.rows = [rows EXCEPT ![n] = row] BY <1>6 DEF ApplyChange, MoveNote, Now
  <2>2. rows[n] \in Row => /\ row \in Row /\ row.text = rows[n].text
                           /\ row.deleted = rows[n].deleted /\ row.dirty = rows[n].dirty
    BY <1>2 DEF Row
  <2> HIDE DEF after, row
  <2> QED BY <1>2, <1>3, <2>1, <2>2, KeptRowSafe
<1>7. CASE change.kind = "delete"
  <2>1. after.rows = [rows EXCEPT ![n] = NoRow] BY <1>7 DEF ApplyChange, DeleteNote, Now
  <2>2. ~Unsent(rows[n]) BY <1>7 DEF Takes, Now
  <2> HIDE DEF after
  <2> QED BY <1>2, <1>3, <2>1, <2>2, OneRowSafe
<1>8. CASE change.kind = "detach"
  <2>1. after.rows = DetachNote([rows |-> rows, ops |-> ops], change).rows
    BY <1>8 DEF ApplyChange, Now
  <2> HIDE DEF after
  <2> QED BY <1>2, <1>3, <2>1, DetachSafe
<1>9. CASE change.kind = "displace"
  <2>1. after.rows = DisplaceNote([rows |-> rows, ops |-> ops], change).rows
    BY <1>9 DEF ApplyChange, Now
  <2> HIDE DEF after
  <2> QED BY <1>2, <1>3, <2>1, DisplaceSafe
<1>10. CASE change.kind = "reupload"
  <2> DEFINE row == [WithoutRemote(rows[n]) EXCEPT !.dirty = TRUE]
  <2>1. after.rows \in {rows, [rows EXCEPT ![n] = row]}
    BY <1>10 DEF ApplyChange, ReuploadNote, Now
  <2>2. rows[n] \in Row => /\ row \in Row /\ row.text = rows[n].text
                           /\ row.deleted = rows[n].deleted /\ row.dirty
    BY DEF Row, WithoutRemote
  <2> HIDE DEF after, row
  <2>3. SafeRows(rows, [rows EXCEPT ![n] = row]) BY <1>2, <1>3, <2>2, KeptRowSafe
  <2> QED BY <2>1, <2>3, SameRowsSafe
<1>11. CASE change.kind = "conflict"
  <2>1. after.rows = Conflict([rows |-> rows, ops |-> ops], next, change).rows
    BY <1>11 DEF ApplyChange, Now
  <2>2. /\ change.copy \in NoteIds \ {change.note} /\ rows[n] # NoRow
        /\ Live(rows[n]) => rows[change.copy] = NoRow
    BY <1>1, <1>2, <1>11 DEF ChangeOK, Takes, Now
  <2> HIDE DEF after
  <2> QED BY <1>2, <1>3, <2>1, <2>2, ConflictSafe
<1> QED BY <1>2, <1>4, <1>5, <1>6, <1>7, <1>8, <1>9, <1>10, <1>11

-----------------------------------------------------------------------------
(* The steps of the engine.                                                   *)

LEMMA RowsFacts == ASSUME Inv PROVE rows \in Rows
BY InvFacts DEF StoreOK, Rows

\* A write that went up, as it was sent or after a conflict with itself.
LEMMA PushStepsSafe ==
  ASSUME Inv, NEW f \in Files, NEW p \in Paths, Push(f) \/ PushOver(f, p) \/ PushAside(f)
  PROVE  SafeRows(rows, rows')
<1>1. AtNetwork /\ seen # NoRow /\ rows[held.note] # NoRow
  <2>1. AtNetwork /\ rows[held.note] # NoRow /\ (pc # "sent" \/ seen # NoRow)
    BY DEF Push, PushOver, PushAside, Sending, AtNetwork
  <2> QED BY <2>1, NetworkFacts
<1>2. held.note \in NoteIds /\ seen.text \in Texts BY <1>1, NetworkFacts
<1>3. PICK at : rows' = Pushed(Now, next, held.seq, held.note, seen.text, at, f).rows
  BY DEF Push, PushOver, PushAside, Settle
<1> QED BY <1>1, <1>2, <1>3, RowsFacts, PushedSafe DEF Now

LEMMA MoveSafe == ASSUME Inv, NEW at \in Paths, Move(at) PROVE SafeRows(rows, rows')
<1>1. /\ AtNetwork /\ seen # NoRow /\ seen.file # NoFile
      /\ rows' = Moved(Now, next, held.seq, held.note, at, seen.file).rows
  BY DEF Move, Sending, AtNetwork, Settle
<1>2. held.note \in NoteIds /\ seen.file \in Files BY <1>1, NetworkFacts DEF Row
<1> QED BY <1>1, <1>2, RowsFacts, MovedSafe DEF Now

LEMMA PurgeSafe == ASSUME Inv, Purge PROVE SafeRows(rows, rows')
<1>1. AtNetwork /\ rows' = Purged(Now, next, held.seq, held.note).rows
  BY DEF Purge, Sending, AtNetwork, Settle
<1>2. held.note \in NoteIds BY <1>1, NetworkFacts
<1> QED BY <1>1, <1>2, RowsFacts, PurgedSafe DEF Now

\* Cut loose, then moved aside: the second step finds the row of the first.
LEMMA AsideSafe ==
  ASSUME Inv, AtNetwork, NEW p \in Paths, NEW cut \in BOOLEAN, Aside(p, cut)
  PROVE  SafeRows(rows, rows')
<1> DEFINE n == held.note
           c == [kind |-> "displace", note |-> n, path |-> p]
           loose == [WithoutRemote(rows[n]) EXCEPT !.path = p]
           moved == [rows[n] EXCEPT !.path = p]
<1>1. n \in NoteIds BY NetworkFacts
<1>2. rows[n] \in Row =>
        /\ WithoutRemote(rows[n]) \in Row
        /\ loose \in Row /\ loose.text = rows[n].text
        /\ loose.deleted = rows[n].deleted /\ loose.dirty = rows[n].dirty
        /\ moved \in Row /\ moved.text = rows[n].text
        /\ moved.deleted = rows[n].deleted /\ moved.dirty = rows[n].dirty
  BY DEF Row, WithoutRemote
<1>3. CASE ~cut
  <2>1. rows' \in {rows, [rows EXCEPT ![n] = moved]} BY <1>3 DEF Aside, DisplaceNote, Now
  <2> HIDE DEF moved, n
  <2>2. SafeRows(rows, [rows EXCEPT ![n] = moved]) BY <1>1, <1>2, RowsFacts, KeptRowSafe
  <2> QED BY <2>1, <2>2, SameRowsSafe
<1>4. CASE cut /\ rows[n] = NoRow
  <2>1. rows' = rows BY <1>4 DEF Aside, DetachNote, DisplaceNote, Now
  <2> QED BY <2>1, SameRowsSafe
<1>5. CASE cut /\ rows[n] # NoRow
  <2>1. rows[n] \in Row /\ DOMAIN rows = NoteIds BY <1>1, <1>5, InvFacts, RowsFacts DEF Rows
  <2> DEFINE R == [rows EXCEPT ![n] = WithoutRemote(rows[n])]
  <2>2. DetachNote(Now, c) = [rows |-> R, ops |-> ops] BY <1>5 DEF DetachNote, Now
  <2>3. R[n] = WithoutRemote(rows[n]) /\ R[n] # NoRow BY <1>1, <1>2, <2>1, RowIsThere
  <2>4. rows' = [R EXCEPT ![n] = [R[n] EXCEPT !.path = p]]
    <3>1. rows' = DisplaceNote(DetachNote(Now, c), c).rows BY <1>5 DEF Aside
    <3>2. c.note = n /\ c.path = p OBVIOUS
    <3> HIDE DEF R, c, n
    <3>3. DisplaceNote([rows |-> R, ops |-> ops], c).rows
            = [R EXCEPT ![n] = [R[n] EXCEPT !.path = p]]
      BY <2>3, <3>2 DEF DisplaceNote
    <3> QED BY <2>2, <3>1, <3>3
  <2>5. rows' = [rows EXCEPT ![n] = loose] BY <1>1, <2>1, <2>3, <2>4
  <2> HIDE DEF loose, n
  <2> QED BY <1>1, <1>2, <2>5, RowsFacts, KeptRowSafe
<1> QED BY <1>3, <1>4, <1>5

LEMMA ResolveSafe ==
  ASSUME Inv, NEW t \in Texts, NEW f \in Files, NEW c \in NoteIds, NEW p \in Paths,
         Resolve(t, f, c, p)
  PROVE  SafeRows(rows, rows')
<1> DEFINE chg == [kind |-> "conflict", note |-> held.note, path |-> spot, text |-> t,
                   file |-> f, synced |-> t, copy |-> c, copyPath |-> p]
<1>1. /\ AtNetwork /\ c \notin drawn /\ Takes(Now, chg)
      /\ rows' = ResolveConflict(Now, next, held.seq, chg).rows
  BY DEF Resolve, Fresh, AtNetwork
<1>2. held.note \in NoteIds /\ held.note \in drawn BY <1>1, NetworkFacts
<1>3. rows[held.note] # NoRow /\ (Live(rows[held.note]) => rows[c] = NoRow)
  BY <1>1 DEF Takes, Now
<1>4. rows' = Conflict([rows |-> rows, ops |-> ops], next, chg).rows
  BY <1>1 DEF ResolveConflict, Conflict, Now
<1>5. chg.note = held.note /\ chg.copy = c /\ chg.copyPath = p OBVIOUS
<1> HIDE DEF chg
<1> QED BY <1>1, <1>2, <1>3, <1>4, <1>5, RowsFacts, ConflictSafe

LEMMA ApplySafe == ASSUME Inv, Apply PROVE SafeRows(rows, rows')
<1>1. CASE Takes(Now, change)
  <2>1. pc = "pull" /\ rows' = ApplyChange(Now, next, change).rows BY <1>1 DEF Apply
  <2> QED BY <1>1, <2>1, AppliedSafe
<1>2. CASE ~Takes(Now, change)
  <2>1. rows' = rows BY <1>2 DEF Apply
  <2> QED BY <2>1, SameRowsSafe
<1> QED BY <1>1, <1>2

LEMMA EngineSafe == ASSUME Inv, Engine PROVE SafeRows(rows, rows')
<1>1. CASE StartPush \/ Ask \/ EndDrain \/ MeetConflict \/ Fail
  <2>1. rows' = rows
    BY <1>1 DEF StartPush, Ask, EndDrain, MeetConflict, Fail, store
  <2> QED BY <2>1, SameRowsSafe
<1>2. CASE SendNothing
  <2>1. rows' = rows BY <1>2 DEF SendNothing, Settle, Done, Now
  <2> QED BY <2>1, SameRowsSafe
<1>3. CASE \E f \in Files, p \in Paths : Push(f) \/ PushOver(f, p) \/ PushAside(f)
  BY <1>3, PushStepsSafe
<1>4. CASE \E p \in Paths : Move(p) BY <1>4, MoveSafe
<1>5. CASE Purge BY <1>5, PurgeSafe
<1>6. CASE \E p \in Paths : SetAside(p)
  <2>1. PICK p \in Paths : SetAside(p) BY <1>6
  <2>2. AtNetwork /\ Aside(p, seen.file # NoFile) BY <2>1 DEF SetAside, AtNetwork
  <2>3. (seen.file # NoFile) \in BOOLEAN OBVIOUS
  <2> QED BY <2>2, <2>3, AsideSafe
<1>7. CASE \E p \in Paths, cut \in BOOLEAN : StepAside(p, cut)
  BY <1>7, AsideSafe DEF StepAside, AtNetwork
<1>8. CASE \E t \in Texts, f \in Files, c \in NoteIds, p \in Paths : Resolve(t, f, c, p)
  BY <1>8, ResolveSafe
<1>9. CASE PullStep
  <2>1. CASE Apply BY <2>1, ApplySafe
  <2>2. CASE ~Apply
    <3>1. rows' = rows
      BY <1>9, <2>2 DEF PullStep, DecideUpsert, DecideAdopt, DecideMove, DecideGone,
                       DecideDisplace, DecideConflict, DecideToApply
    <3> QED BY <3>1, SameRowsSafe
  <2> QED BY <2>1, <2>2
<1>10. CASE \E f \in Files : Push(f) \/ PushAside(f)
  <2>1. AtNetwork BY <1>10 DEF Push, PushAside, Sending, AtNetwork
  <2>2. seen # NoRow
    <3>1. seen # NoRow \/ pc # "sent" BY <1>10 DEF Push, PushAside
    <3> QED BY <2>1, <3>1, NetworkFacts
  <2>3. seen.path \in Paths BY <2>1, <2>2, NetworkFacts
  <2> QED BY <1>10, <2>3, PushStepsSafe
<1> QED BY <1>1, <1>2, <1>3, <1>4, <1>5, <1>6, <1>7, <1>8, <1>9, <1>10 DEF Engine, PushStep

-----------------------------------------------------------------------------
(* The theorem.                                                               *)

\* No step of the engine loses a text the remote has not been sent: it is still
\* in a live row that owes a write, or it is what the remote was just told
\* (upsertNote's and deleteNote's refusals, applyConflict's copy, settle).
THEOREM UnsentIsKept == SpecApart => EngineKeepsUnsent
<1> DEFINE Kept(n) == \E m \in NoteIds :
                        /\ Live(rows'[m]) /\ rows'[m].text = rows[n].text
                        /\ \/ rows'[m].dirty /\ Writes(ops', m) # {}
                           \/ rows'[m].synced = rows[n].text
<1>1. ASSUME Inv, Inv', Engine, NEW n \in NoteIds, Unsent(rows[n]) PROVE Kept(n)
  <2>1. PICK m \in NoteIds : /\ Live(rows'[m]) /\ rows'[m].text = rows[n].text
                             /\ rows'[m].dirty \/ rows'[m].synced = rows[n].text
    BY <1>1, EngineSafe DEF SafeRows
  <2>2. NoteOK(rows'[m], ops', m) BY <1>1 DEF Inv, StoreOK
  <2>3. rows'[m].dirty => Writes(ops', m) # {} BY <2>1, <2>2 DEF NoteOK
  <2> QED BY <2>1, <2>3
<1>2. Inv /\ Inv' =>
        [\A n \in NoteIds : Unsent(rows[n]) =>
           \/ \E m \in NoteIds :
                /\ Live(rows'[m]) /\ rows'[m].text = rows[n].text
                /\ \/ rows'[m].dirty /\ Writes(ops', m) # {}
                   \/ rows'[m].synced = rows[n].text
           \/ ~Engine]_vars
  BY <1>1
<1> QED BY <1>2, InvAlways, PTL DEF EngineKeepsUnsent

-----------------------------------------------------------------------------
(* A rename beside a move on its way.  Only the user acts while the move is   *)
(* at the network, so what is asked of the engine's other steps is nothing;   *)
(* a transaction of the user's leaves a note's moves alone, withdraws them,   *)
(* or leaves one, and that one goes to where the note now is.                 *)

Follows(R, q, S, r, s) ==
  /\ \A o \in r : o \in q \/ (o.seq \in Nat /\ o.seq >= s)
  /\ \A m \in NoteIds : R[m] # NoRow =>
       /\ S[m] # NoRow
       /\ \/ S[m].path = R[m].path /\ Moves(r, m) = Moves(q, m)
          \/ Moves(r, m) = {}
          \/ \E o \in r : Moves(r, m) = {o} /\ o.target = S[m].path

LEMMA FollowsSelf == ASSUME NEW R, NEW q, NEW s PROVE Follows(R, q, R, q, s)
BY DEF Follows

LEMMA FollowsTrans ==
  ASSUME NEW R, NEW q, NEW S, NEW r, NEW T, NEW u, NEW s \in Nat, NEW t \in Nat, s <= t,
         Follows(R, q, S, r, s), Follows(S, r, T, u, t)
  PROVE  Follows(R, q, T, u, s)
<1>1. \A o \in u : o \in q \/ (o.seq \in Nat /\ o.seq >= s)
  <2> SUFFICES ASSUME NEW o \in u, o \notin q PROVE o.seq \in Nat /\ o.seq >= s
    OBVIOUS
  <2>1. CASE o \in r BY <2>1 DEF Follows
  <2>2. CASE o \notin r
    <3>1. o.seq \in Nat /\ o.seq >= t BY <2>2 DEF Follows
    <3> QED BY <3>1
  <2> QED BY <2>1, <2>2
<1>2. ASSUME NEW m \in NoteIds, R[m] # NoRow
      PROVE  /\ T[m] # NoRow
             /\ \/ T[m].path = R[m].path /\ Moves(u, m) = Moves(q, m)
                \/ Moves(u, m) = {}
                \/ \E o \in u : Moves(u, m) = {o} /\ o.target = T[m].path
  <2>1. /\ S[m] # NoRow
        /\ \/ S[m].path = R[m].path /\ Moves(r, m) = Moves(q, m)
           \/ Moves(r, m) = {}
           \/ \E o \in r : Moves(r, m) = {o} /\ o.target = S[m].path
    BY <1>2 DEF Follows
  <2>2. /\ T[m] # NoRow
        /\ \/ T[m].path = S[m].path /\ Moves(u, m) = Moves(r, m)
           \/ Moves(u, m) = {}
           \/ \E o \in u : Moves(u, m) = {o} /\ o.target = T[m].path
    BY <2>1 DEF Follows
  <2>3. \A o : Moves(u, m) = {o} => o \in u BY DEF Moves, OpsFor
  <2> QED BY <2>1, <2>2, <2>3
<1> QED BY <1>1, <1>2 DEF Follows

\* An op that is no move queued, and others withdrawn, for a row at its path.
LEMMA QueuedFollows ==
  ASSUME NEW R \in Rows, NEW q, NEW u, NEW s \in Nat, NEW n \in NoteIds, NEW row \in Row,
         R[n] # NoRow => row.path = R[n].path, NEW kind \in {"write", "delete"},
         u \subseteq q, \A m \in NoteIds : Moves(u, m) = Moves(q, m)
  PROVE  /\ Follows(R, q, [R EXCEPT ![n] = row], u, s)
         /\ Follows(R, q, [R EXCEPT ![n] = row], u \cup {NoteOp(s, kind, n)}, s)
<1> DEFINE op == NoteOp(s, kind, n)
           S == [R EXCEPT ![n] = row]
           v == u \cup {op}
<1>1. op.seq = s /\ \A m \in NoteIds : Moves(v, m) = Moves(u, m)
  BY DEF NoteOp, Moves, OpsFor
<1>2. row # NoRow BY RowIsThere
<1>3. \A m \in NoteIds : R[m] # NoRow => S[m] # NoRow /\ S[m].path = R[m].path
  BY <1>2 DEF Rows
<1> HIDE DEF op, S
<1>4. Follows(R, q, S, u, s) BY <1>3 DEF Follows
<1>5. \A o \in v : o \in q \/ (o.seq \in Nat /\ o.seq >= s) BY <1>1
<1> HIDE DEF v
<1>6. Follows(R, q, S, v, s) BY <1>1, <1>3, <1>5 DEF Follows
<1> QED BY <1>4, <1>6 DEF op, S, v

LEMMA WriteFollows ==
  ASSUME NEW R \in Rows, NEW q, NEW u, NEW s \in Nat, NEW n \in NoteIds, NEW row \in Row,
         R[n] # NoRow => row.path = R[n].path, NEW x,
         u \subseteq q, \A m \in NoteIds : Moves(u, m) = Moves(q, m)
  PROVE  Follows(R, q, [R EXCEPT ![n] = row], QueueWrite(u, s, n, row, x), s)
<1> DEFINE S == [R EXCEPT ![n] = row]
           v == u \cup {NoteOp(s, "write", n)}
<1>1. QueueWrite(u, s, n, row, x) \in {u, v} BY DEF QueueWrite
<1>2. "write" \in {"write", "delete"} OBVIOUS
<1>3. Follows(R, q, S, u, s) /\ Follows(R, q, S, v, s) BY <1>2, QueuedFollows
<1> HIDE DEF S, v
<1>4. Follows(R, q, S, QueueWrite(u, s, n, row, x), s) BY <1>1, <1>3
<1> QED BY <1>4 DEF S

\* A move queued after that, from where the row was.
LEMMA EditFollows ==
  ASSUME NEW R \in Rows, NEW q, NEW s \in Nat, NEW n \in NoteIds, NEW row \in Row,
         R[n] # NoRow
  PROVE  Follows(R, q, [R EXCEPT ![n] = row], QueueEdit(q, s, n, row, R[n].path), s)
<1> DEFINE S == [R EXCEPT ![n] = row]
           w == QueueWrite(q, s, n, row, NoSeq)
           r == QueueMove(w, s + 1, n, row, R[n].path)
           origin == IF Moves(w, n) = {} THEN R[n].path
                     ELSE (CHOOSE o \in Moves(w, n) : TRUE).path
           op == MoveOp(s + 1, n, origin, row.path)
<1>1. CASE row.path = R[n].path
  <2>1. QueueEdit(q, s, n, row, R[n].path) = w BY <1>1 DEF QueueEdit
  <2>2. Follows(R, q, S, w, s) BY <1>1, WriteFollows
  <2> QED BY <2>1, <2>2
<1>2. CASE row.path # R[n].path
  <2>1. QueueEdit(q, s, n, row, R[n].path) = r BY <1>2 DEF QueueEdit
  <2>2. w \in {q, q \cup {NoteOp(s, "write", n)}} BY DEF QueueWrite
  <2>3. \A m \in NoteIds : Moves(w, m) = Moves(q, m)
    BY <2>2 DEF NoteOp, Moves, OpsFor
  <2>4. \A o \in w : o \in q \/ o.seq = s BY <2>2 DEF NoteOp
  <2>5. op.seq = s + 1 /\ op.kind = "move" /\ op.note = n /\ op.target = row.path
    BY DEF MoveOp
  <2>6. \/ r = w /\ \E o \in Moves(w, n) : Moves(w, n) = {o} /\ o.target = row.path
        \/ r = w \ Moves(w, n)
        \/ r = (w \ Moves(w, n)) \cup {op}
    BY DEF QueueMove
  <2>7. S[n] = row /\ row # NoRow /\ \A m \in NoteIds \ {n} : S[m] = R[m]
    BY RowIsThere DEF Rows
  <2> HIDE DEF op, w, r, S
  <2>8. \A o \in r : o \in q \/ (o.seq \in Nat /\ o.seq >= s)
    <3>1. \A o \in r : o \in w \/ o = op BY <2>6
    <3> QED BY <2>4, <2>5, <3>1
  <2>9. \A m \in NoteIds \ {n} : Moves(r, m) = Moves(w, m)
    BY <2>5, <2>6 DEF Moves, OpsFor
  <2>10. Moves(r, n) = {} \/ \E o \in r : Moves(r, n) = {o} /\ o.target = row.path
    BY <2>5, <2>6 DEF Moves, OpsFor
  <2>11. Follows(R, q, S, r, s) BY <2>3, <2>7, <2>8, <2>9, <2>10 DEF Follows
  <2> QED BY <2>1, <2>11 DEF S
<1> QED BY <1>1, <1>2

\* Undo: the delete withdrawn, and what took the name moved away.
LEMMA LiftedFollows ==
  ASSUME Inv, NEW q \in Paths, hand.kind # "none", rows[hand.note] # NoRow
  PROVE  Follows(rows, ops, Lifted(hand.note, q).rows, Lifted(hand.note, q).ops, next)
<1> DEFINE n == hand.note
           lifted == Lifted(n, q)
           row == [rows[n] EXCEPT !.deleted = FALSE, !.dirty = @ \/ rows[n].deleted]
           R == [rows EXCEPT ![n] = row]
           back == IF rows[n].deleted THEN QueueRestore(ops, next, n, row) ELSE ops
<1> SUFFICES Follows(rows, ops, lifted.rows, lifted.ops, next) OBVIOUS
<1>1. n \in NoteIds /\ rows[n] # NoRow /\ rows[n] \in Row BY InvFacts, HandFacts
<1>2. row \in Row /\ row.path = rows[n].path BY <1>1 DEF Row
<1>3. next \in Nat /\ rows \in Rows BY InvFacts, RowsFacts
<1>4. R \in Rows /\ \A m \in NoteIds \ {n} : R[m] = rows[m] BY <1>2, <1>3 DEF Rows
<1>5. Follows(rows, ops, R, back, next)
  <2> DEFINE u == ops \ Deletes(ops, n)
  <2>1. u \subseteq ops /\ \A m \in NoteIds : Moves(u, m) = Moves(ops, m)
    BY DEF Moves, Deletes, OpsFor
  <2>2. QueueRestore(ops, next, n, row) = QueueWrite(u, next, n, row, NoSeq)
    BY DEF QueueRestore
  <2> HIDE DEF u, n, row
  <2>3. Follows(rows, ops, R, QueueWrite(u, next, n, row, NoSeq), next)
    BY <1>1, <1>2, <1>3, <2>1, WriteFollows
  <2>4. CASE rows[n].deleted BY <2>2, <2>3, <2>4
  <2>5. CASE ~rows[n].deleted
    <3>1. row = rows[n] BY <1>1, <2>5 DEF Row, row
    <3>2. R = rows /\ back = ops BY <1>1, <1>3, <2>5, <3>1 DEF Rows
    <3> QED BY <3>2, FollowsSelf
  <2> QED BY <2>4, <2>5
<1>6. CASE InTheWay(n) = {}
  <2>1. lifted.rows = R /\ lifted.ops = back BY <1>6 DEF Lifted
  <2> HIDE DEF lifted, R, back
  <2> QED BY <1>5, <2>1
<1>7. CASE InTheWay(n) # {}
  <2> DEFINE m == CHOOSE m \in NoteIds : m \in InTheWay(n)
             off == Edited(m, q, rows[m].text)
             S == [R EXCEPT ![m] = off]
             r == QueueEdit(back, next + 1, m, off, rows[m].path)
  <2>1. m \in NoteIds \ {n} /\ Live(rows[m]) BY <1>7 DEF InTheWay
  <2>2. lifted.rows = S /\ lifted.ops = r BY <1>7 DEF Lifted
  <2> HIDE DEF lifted, R, back, row, m
  <2>3. rows[m] \in Row /\ R[m] = rows[m] BY <1>4, <2>1, InvFacts DEF Live
  <2>4. off \in Row BY <2>3 DEF Edited, Row
  <2>5. R[m] # NoRow BY <2>3, RowIsThere
  <2> HIDE DEF off
  <2>6. next + 1 \in Nat /\ next <= next + 1 BY <1>3
  <2>7. Follows(R, back, S, QueueEdit(back, next + 1, m, off, R[m].path), next + 1)
    BY <1>4, <2>1, <2>4, <2>5, <2>6, EditFollows
  <2>8. Follows(R, back, S, r, next + 1) BY <2>3, <2>7
  <2> HIDE DEF S, r
  <2>9. Follows(rows, ops, S, r, next) BY <1>3, <1>5, <2>6, <2>8, FollowsTrans
  <2> QED BY <2>2, <2>9
<1> QED BY <1>6, <1>7

\* A note with an id nobody has, or one whose row is gone.
LEMMA NewNoteFollows ==
  ASSUME NEW R \in Rows, NEW q, NEW s \in Nat, NEW n \in NoteIds, R[n] = NoRow,
         NEW p \in Paths, NEW t \in Texts
  PROVE  Follows(R, q, [R EXCEPT ![n] = NewRow(p, t)],
                 QueueWrite(q, s, n, NewRow(p, t), NoSeq), s)
<1>1. NewRow(p, t) \in Row BY DEF NewRow, Row
<1> QED BY <1>1, WriteFollows

LEMMA UserFollows ==
  ASSUME Inv, UserApart \/ BringsBack
  PROVE  Follows(rows, ops, rows', ops', next)
<1>1. rows \in Rows /\ next \in Nat BY RowsFacts, InvFacts
<1>2. ASSUME NEW n \in NoteIds, NEW p \in Paths, NEW t \in Texts, Create(n, p, t)
      PROVE  Follows(rows, ops, rows', ops', next)
  <2>1. rows[n] = NoRow BY <1>2, InvFacts DEF Create, Fresh
  <2> QED BY <1>1, <1>2, <2>1, NewNoteFollows DEF Create, UserWrites
<1>3. ASSUME NEW n \in NoteIds, NEW p \in Paths, NEW t \in Texts, rows[n] # NoRow,
             UserWrites([rows EXCEPT ![n] = Edited(n, p, t)],
                        QueueEdit(ops, next, n, Edited(n, p, t), rows[n].path))
      PROVE  Follows(rows, ops, rows', ops', next)
  <2>1. Edited(n, p, t) \in Row BY <1>3, InvFacts DEF Edited, Row
  <2> QED BY <1>1, <1>3, <2>1, EditFollows DEF UserWrites
<1>4. ASSUME NEW n \in NoteIds, NEW p \in Paths, NEW t \in Texts, Rename(n, p, t)
      PROVE  Follows(rows, ops, rows', ops', next)
  BY <1>3, <1>4 DEF Rename
<1>5. ASSUME NEW t \in Texts, SaveInto(t) PROVE Follows(rows, ops, rows', ops', next)
  <2> DEFINE n == hand.note
             p == rows[n].path
  <2>1. hand.kind = "typing" /\ rows[n] # NoRow BY <1>5 DEF SaveInto
  <2>2. n \in NoteIds /\ rows[n] \in Row /\ p \in Paths BY <2>1, InvFacts, HandFacts DEF Row
  <2>3. Edited(n, p, t).path = p BY <2>2 DEF Edited, Row
  <2>4. UserWrites([rows EXCEPT ![n] = Edited(n, p, t)],
                   QueueEdit(ops, next, n, Edited(n, p, t), p))
    BY <1>5, <2>3 DEF SaveInto
  <2> HIDE DEF n
  <2> QED BY <1>3, <2>1, <2>2, <2>4
<1>6. ASSUME NEW n \in NoteIds, Delete(n) PROVE Follows(rows, ops, rows', ops', next)
  <2> DEFINE row == [rows[n] EXCEPT !.deleted = TRUE, !.dirty = TRUE]
             u == ops \ Writes(ops, n)
  <2>1. /\ rows[n] # NoRow
        /\ rows' = [rows EXCEPT ![n] = row] /\ ops' = QueueDelete(ops, next, n, row)
    BY <1>6 DEF Delete, Live, UserWrites
  <2>2. row \in Row /\ row.path = rows[n].path BY <2>1, InvFacts DEF Row
  <2>3. u \subseteq ops /\ \A m \in NoteIds : Moves(u, m) = Moves(ops, m)
    BY DEF Moves, Writes, OpsFor
  <2>4. ops' = u \cup {NoteOp(next, "delete", n)} BY <2>1 DEF QueueDelete
  <2>5. "delete" \in {"write", "delete"} OBVIOUS
  <2> HIDE DEF row, u
  <2>6. Follows(rows, ops, [rows EXCEPT ![n] = row], u \cup {NoteOp(next, "delete", n)}, next)
    BY <1>1, <2>2, <2>3, <2>5, QueuedFollows
  <2> QED BY <2>1, <2>4, <2>6
<1>7. ASSUME NEW R \in Rows, NEW q, NEW k \in {0, 3}, Follows(rows, ops, R, q, next),
             NEW c \in NoteIds, NEW p \in Paths, NEW t \in Texts, R[c] = NoRow,
             Beside(R, q, next + k, c, p, t)
      PROVE  Follows(rows, ops, rows', ops', next)
  <2>1. next + k \in Nat /\ next <= next + k BY <1>1
  <2>2. Follows(R, q, rows', ops', next + k)
    BY <1>7, <2>1, NewNoteFollows DEF Beside, UserWrites
  <2> QED BY <1>1, <1>7, <2>1, <2>2, FollowsTrans
<1>8. ASSUME NEW t \in Texts, NEW c \in NoteIds, NEW p \in Paths, SaveBeside(t, c, p)
      PROVE  Follows(rows, ops, rows', ops', next)
  <2>1. Beside(rows, ops, next, c, p, t) /\ next + 0 = next BY <1>1, <1>8 DEF SaveBeside
  <2>2. rows[c] = NoRow BY <2>1, InvFacts DEF Beside, Fresh
  <2> QED BY <1>1, <1>7, <2>1, <2>2, FollowsSelf, 0 \in {0, 3}
<1>9. ASSUME NEW q \in Paths, UndoLift(q) PROVE Follows(rows, ops, rows', ops', next)
  BY <1>9, LiftedFollows DEF UndoLift, CanLift, UserWrites
<1>10. ASSUME NEW q \in Paths, NEW p \in Paths, NEW c \in NoteIds, UndoBeside(q, c, p)
       PROVE  Follows(rows, ops, rows', ops', next)
  <2> DEFINE R == Lifted(hand.note, q).rows
             u == Lifted(hand.note, q).ops
  <2>1. /\ hand.kind # "none" /\ rows[hand.note] # NoRow
        /\ Beside(R, u, next + 3, c, p, hand.base) /\ c \notin drawn
    BY <1>10 DEF UndoBeside, CanLift, Beside, Fresh
  <2>2. Follows(rows, ops, R, u, next) BY <2>1, LiftedFollows
  <2>3. R \in Rows /\ \A m \in NoteIds : R[m] = NoRow <=> rows[m] = NoRow
    BY <2>1, LiftedOK DEF StoreOK, Rows
  <2>4. R[c] = NoRow BY <2>1, <2>3, InvFacts
  <2>5. hand.base \in Texts BY <2>1, InvFacts, HandFacts
  <2> HIDE DEF R, u
  <2> QED BY <1>7, <2>1, <2>2, <2>3, <2>4, <2>5, 3 \in {0, 3}
<1>11. ASSUME NEW p \in Paths, NEW t \in Texts, hand.kind # "none", BringBack(t, p)
       PROVE  Follows(rows, ops, rows', ops', next)
  <2>1. hand.note \in NoteIds /\ rows[hand.note] = NoRow
    BY <1>11, InvFacts, HandFacts DEF BringBack
  <2> QED BY <1>1, <1>11, <2>1, NewNoteFollows DEF BringBack, UserWrites
<1>12. ASSUME rows' = rows, ops' = ops PROVE Follows(rows, ops, rows', ops', next)
  BY <1>12, FollowsSelf
<1>13. CASE UserApart
  <2>1. CASE \E n \in NoteIds, p \in Paths, t \in Texts : Create(n, p, t) \/ Rename(n, p, t)
    BY <1>2, <1>4, <2>1
  <2>2. CASE \E n \in NoteIds : StartTyping(n) \/ Delete(n)
    BY <1>6, <1>12, <2>2 DEF StartTyping, store
  <2>3. CASE \E t \in Texts : SaveInto(t) \/ SaveSame(t)
    BY <1>5, <1>12, <2>3 DEF SaveSame, store
  <2>4. CASE \E t \in Texts, c \in NoteIds, p \in Paths : SaveBeside(t, c, p)
    BY <1>8, <2>4
  <2>5. CASE SaveLetGo BY <1>12, <2>5 DEF SaveLetGo, store
  <2>6. CASE (\E q \in Paths : UndoLift(q))
             \/ \E q, p \in Paths, c \in NoteIds : UndoBeside(q, c, p)
    BY <1>9, <1>10, <2>6
  <2> QED BY <1>13, <2>1, <2>2, <2>3, <2>4, <2>5, <2>6 DEF UserApart
<1>14. CASE BringsBack
  <2>1. CASE \E t \in Texts, p \in Paths : SaveGone(t, p)
    BY <1>11, <2>1 DEF SaveGone
  <2>2. CASE \E p \in Paths : UndoGone(p)
    <3>1. PICK p \in Paths : hand.kind = "undo" /\ BringBack(hand.base, p)
      BY <2>2 DEF UndoGone
    <3>2. hand.base \in Texts BY <3>1, InvFacts, HandFacts
    <3> QED BY <1>11, <3>1, <3>2
  <2> QED BY <1>14, <2>1, <2>2 DEF BringsBack
<1> QED BY <1>13, <1>14

\* A move at the network: still queued, and its note is where it was read or
\* where the move takes it; or replaced, and what replaced it goes to where the
\* note now is.
MoveOnItsWay ==
  pc = "sent" /\ held.kind = "move" /\ seen # NoRow =>
    LET n == held.note
    IN  /\ rows[n] # NoRow
        /\ \A o \in ops : o.seq = held.seq => o = held
        /\ \/ Queued(ops, held.seq) /\ rows[n].path \in {seen.path, held.target}
           \/ /\ ~Queued(ops, held.seq)
              /\ Moves(ops, n) = {} \/ \E o \in ops : Moves(ops, n) = {o} /\ o.target = rows[n].path

LEMMA UserKeepsMove ==
  ASSUME Inv, MoveOnItsWay, UserApart \/ BringsBack
  PROVE  MoveOnItsWay'
<1>1. Follows(rows, ops, rows', ops', next) BY UserFollows
<1>2. UNCHANGED engine
  BY DEF UserApart, BringsBack, Create, Rename, StartTyping, Delete, SaveInto, SaveSame,
         SaveBeside, SaveLetGo, UndoLift, UndoBeside, SaveGone, UndoGone, Beside, BringBack,
         UserWrites
<1> DEFINE n == held.note
<1> SUFFICES ASSUME pc = "sent", held.kind = "move", seen # NoRow
             PROVE  /\ rows'[n] # NoRow
                    /\ \A o \in ops' : o.seq = held.seq => o = held
                    /\ \/ Queued(ops', held.seq) /\ rows'[n].path \in {seen.path, held.target}
                       \/ /\ ~Queued(ops', held.seq)
                          /\ \/ Moves(ops', n) = {}
                             \/ \E o \in ops' : Moves(ops', n) = {o} /\ o.target = rows'[n].path
  BY <1>2 DEF MoveOnItsWay, engine
<1>3. /\ rows[n] # NoRow
      /\ \A o \in ops : o.seq = held.seq => o = held
      /\ \/ Queued(ops, held.seq) /\ rows[n].path \in {seen.path, held.target}
         \/ /\ ~Queued(ops, held.seq)
            /\ Moves(ops, n) = {} \/ \E o \in ops : Moves(ops, n) = {o} /\ o.target = rows[n].path
  BY DEF MoveOnItsWay
<1>4. n \in NoteIds /\ held.seq \in Nat /\ held.seq < next /\ next \in Nat
  BY NetworkFacts, InvFacts DEF AtNetwork
<1>5. \A o \in ops' : o.seq = held.seq => o \in ops /\ o = held
  BY <1>1, <1>3, <1>4 DEF Follows
<1>6. Queued(ops', held.seq) <=> held \in Moves(ops', n)
  BY <1>5 DEF Queued, Moves, OpsFor
<1>7. Queued(ops, held.seq) <=> held \in Moves(ops, n)
  BY <1>3 DEF Queued, Moves, OpsFor
<1>8. /\ rows'[n] # NoRow
      /\ \/ rows'[n].path = rows[n].path /\ Moves(ops', n) = Moves(ops, n)
         \/ Moves(ops', n) = {}
         \/ \E o \in ops' : Moves(ops', n) = {o} /\ o.target = rows'[n].path
  BY <1>1, <1>3, <1>4 DEF Follows
<1>9. \A o : Moves(ops', n) = {o} => o \in ops' BY DEF Moves, OpsFor
<1> HIDE DEF n
<1> QED BY <1>3, <1>5, <1>6, <1>7, <1>8, <1>9

LEMMA MoveStep == Inv /\ MoveOnItsWay /\ [NextApart]_vars => MoveOnItsWay'
<1> SUFFICES ASSUME Inv, MoveOnItsWay, [NextApart]_vars PROVE MoveOnItsWay' OBVIOUS
<1>1. CASE UserApart \/ BringsBack BY <1>1, UserKeepsMove
<1>2. CASE UNCHANGED vars BY <1>2 DEF vars, MoveOnItsWay
<1>3. CASE Ask
  <2>1. CASE UNCHANGED <<held, seen, pc>>
    BY <1>3, <2>1 DEF Ask, MoveOnItsWay
  <2>2. CASE \E o \in ops : held' = o /\ seen' = rows[o.note] /\ pc' = "sent"
    <3>1. PICK o \in ops : held' = o /\ seen' = rows[o.note] BY <2>2
    <3>2. rows' = rows /\ ops' = ops BY <1>3 DEF Ask, store
    <3>3. \A r \in ops : r.seq = o.seq => r = o BY InvFacts DEF StoreOK, QueueOK
    <3>4. Queued(ops, o.seq) BY DEF Queued
    <3> QED BY <3>1, <3>2, <3>3, <3>4 DEF MoveOnItsWay
  <2> QED BY <1>3, <2>1, <2>2 DEF Ask
<1>4. CASE (Engine \/ Crash) /\ ~Ask
  <2>1. pc' # "sent"
    <3>1. CASE PushStep
      <4>1. ASSUME NEW after, Settle(after) PROVE pc' = "drain" BY <4>1 DEF Settle
      <4>2. CASE StartPush \/ EndDrain \/ MeetConflict
        BY <4>2 DEF StartPush, EndDrain, MeetConflict, Idle
      <4>3. CASE SendNothing \/ Purge BY <4>1, <4>3 DEF SendNothing, Purge
      <4>4. CASE \E f \in Files : Push(f) \/ PushAside(f)
        BY <4>1, <4>4 DEF Push, PushAside
      <4>5. CASE \E p \in Paths : Move(p) \/ SetAside(p)
        BY <4>1, <4>5 DEF Move, SetAside
      <4>6. CASE \E f \in Files, p \in Paths : PushOver(f, p) BY <4>1, <4>6 DEF PushOver
      <4>7. CASE \E p \in Paths, cut \in BOOLEAN : StepAside(p, cut)
        BY <4>7 DEF StepAside, Idle
      <4>8. CASE \E t \in Texts, f \in Files, c \in NoteIds, p \in Paths : Resolve(t, f, c, p)
        BY <4>8 DEF Resolve
      <4> QED BY <1>4, <3>1, <4>2, <4>3, <4>4, <4>5, <4>6, <4>7, <4>8 DEF PushStep
    <3>2. CASE PullStep
      BY <3>2 DEF PullStep, DecideUpsert, DecideAdopt, DecideMove, DecideGone,
                  DecideDisplace, DecideConflict, DecideToApply, Apply, Idle
    <3>3. CASE Fail \/ Crash BY <3>3 DEF Fail, Crash, Idle
    <3> QED BY <1>4, <3>1, <3>2, <3>3 DEF Engine
  <2> QED BY <2>1 DEF MoveOnItsWay
<1> QED BY <1>1, <1>2, <1>3, <1>4 DEF NextApart

\* A note renamed again while its move was at the network stays at the newer
\* name, and owes the remote a move to it (settle, queueMove).
THEOREM NewerNameStays == SpecApart => NewerNameKept
<1>1. Init => MoveOnItsWay BY DEF Init, MoveOnItsWay
<1>2. Inv /\ MoveOnItsWay /\ [NextApart]_vars => MoveOnItsWay' BY MoveStep
<1>3. ASSUME Inv, MoveOnItsWay, NEW at \in Paths, Move(at),
             rows[held.note].path \notin {seen.path, held.target}
      PROVE  /\ rows'[held.note].path = rows[held.note].path
             /\ at # rows[held.note].path =>
                  \E o \in Moves(ops', held.note) : o.target = rows[held.note].path
  <2> DEFINE n == held.note
             bound == [rows[n] EXCEPT !.file = seen.file]
             op == MoveOp(next, n, at, bound.path)
  <2>1. /\ AtNetwork /\ pc = "sent" /\ held.kind = "move" /\ seen # NoRow
        /\ seen.file # NoFile /\ rows[n] # NoRow
        /\ rows' = Moved(Now, next, held.seq, n, at, seen.file).rows
        /\ ops' = Moved(Now, next, held.seq, n, at, seen.file).ops
    BY <1>3 DEF Move, Sending, AtNetwork, Settle
  <2>2. /\ ~Queued(ops, held.seq)
        /\ Moves(ops, n) = {} \/ \E o \in ops : Moves(ops, n) = {o} /\ o.target = rows[n].path
    BY <1>3, <2>1 DEF MoveOnItsWay
  <2>3. n \in NoteIds /\ rows[n] \in Row /\ seen.file \in Files
    BY <1>3, <2>1, NetworkFacts, InvFacts DEF Row
  <2>4. /\ rows' = [rows EXCEPT ![n] = bound]
        /\ ops' = QueueMove(ops, next, n, bound, at)
    BY <2>1, <2>2 DEF Moved, Now
  <2>5. bound.path = rows[n].path /\ bound.file = seen.file BY <2>3 DEF Row
  <2>6. rows'[n] = bound BY <1>3, <2>3, <2>4, RowsFacts DEF Rows
  <2>7. ASSUME at # rows[n].path
        PROVE  \E o \in Moves(ops', n) : o.target = rows[n].path
    <3>1. CASE Moves(ops, n) = {}
      <4>1. ops' = (ops \ Moves(ops, n)) \cup {op}
        BY <2>1, <2>4, <2>5, <2>7, <3>1 DEF QueueMove
      <4>2. op \in Moves(ops', n) /\ op.target = rows[n].path
        BY <2>5, <4>1 DEF MoveOp, Moves, OpsFor
      <4> QED BY <4>2
    <3>2. CASE \E o \in ops : Moves(ops, n) = {o} /\ o.target = rows[n].path
      <4>1. ops' = ops BY <2>4, <2>5, <3>2 DEF QueueMove
      <4> QED BY <3>2, <4>1
    <3> QED BY <2>2, <3>1, <3>2
  <2> QED BY <2>5, <2>6, <2>7
<1>4. Inv /\ MoveOnItsWay =>
        [\A at \in Paths :
           Move(at) /\ rows[held.note].path \notin {seen.path, held.target} =>
             /\ rows'[held.note].path = rows[held.note].path
             /\ at # rows[held.note].path =>
                  \E o \in Moves(ops', held.note) : o.target = rows[held.note].path]_vars
  BY <1>3
<1> QED BY <1>1, <1>2, <1>4, InvAlways, PTL DEF SpecApart, NewerNameKept

-----------------------------------------------------------------------------
(* What is in a hand.  Outcomes leave the texts alone; what a pull or a       *)
(* conflict writes marks the hand (HandAfter); and the user's own writers     *)
(* change the text under a hand only with the hand.                           *)

HandTrue ==
  hand.kind = "typing" /\ rows[hand.note] # NoRow /\ ~hand.stale =>
    rows[hand.note].text = hand.base

\* No row made, and none's text changed.
SameTexts(R, S) ==
  \A n \in NoteIds : S[n] # NoRow => R[n] # NoRow /\ S[n].text = R[n].text

LEMMA OneRowTexts ==
  ASSUME NEW R \in Rows, NEW n \in NoteIds, NEW row, R[n] # NoRow,
         row # NoRow => row.text = R[n].text
  PROVE  SameTexts(R, [R EXCEPT ![n] = row])
BY DEF SameTexts, Rows

LEMMA OutcomeTexts ==
  ASSUME Inv, PushStep, hand' = hand, ~(\E t \in Texts, f \in Files, c \in NoteIds, p \in Paths :
                                          Resolve(t, f, c, p))
  PROVE  SameTexts(rows, rows')
<1> DEFINE n == held.note
<1>1. rows \in Rows BY RowsFacts
<1>2. CASE StartPush \/ Ask \/ EndDrain \/ MeetConflict \/ SendNothing
  <2>1. rows' = rows
    BY <1>2 DEF StartPush, Ask, EndDrain, MeetConflict, SendNothing, Settle, Done, Now, store
  <2> QED BY <2>1 DEF SameTexts
<1>3. ASSUME AtNetwork PROVE n \in NoteIds /\ (rows[n] # NoRow => rows[n] \in Row)
  BY <1>3, NetworkFacts, InvFacts
<1>4. ASSUME NEW at, NEW f, AtNetwork, rows[n] # NoRow,
             Settle(Pushed(Now, next, held.seq, n, seen.text, at, f))
      PROVE  SameTexts(rows, rows')
  <2> DEFINE row == [rows[n] EXCEPT !.file = f, !.synced = seen.text,
                                    !.dirty = @ /\ ~(rows[n].text = seen.text)]
  <2>1. rows' = [rows EXCEPT ![n] = row] BY <1>4 DEF Settle, Pushed, Now
  <2>2. n \in NoteIds /\ row.text = rows[n].text BY <1>3, <1>4 DEF Row
  <2> HIDE DEF row, n
  <2> QED BY <1>1, <1>4, <2>1, <2>2, OneRowTexts
<1>5. CASE \E f \in Files : Push(f) \/ PushAside(f)
  BY <1>4, <1>5 DEF Push, PushAside, Sending, AtNetwork
<1>6. CASE \E f \in Files, p \in Paths : PushOver(f, p)
  BY <1>4, <1>6 DEF PushOver, AtNetwork
<1>7. CASE \E p \in Paths : Move(p)
  <2>1. PICK p \in Paths : Move(p) BY <1>7
  <2> DEFINE bound == [rows[n] EXCEPT !.file = seen.file]
             row == [bound EXCEPT !.path = p]
  <2>2. /\ AtNetwork /\ rows[n] # NoRow
        /\ rows' \in {[rows EXCEPT ![n] = row], [rows EXCEPT ![n] = bound]}
    BY <2>1 DEF Move, Sending, AtNetwork, Settle, Moved, Now
  <2>3. n \in NoteIds /\ row.text = rows[n].text /\ bound.text = rows[n].text
    BY <1>3, <2>2 DEF Row
  <2> HIDE DEF row, bound, n
  <2>4. SameTexts(rows, [rows EXCEPT ![n] = row]) /\ SameTexts(rows, [rows EXCEPT ![n] = bound])
    BY <1>1, <2>2, <2>3, OneRowTexts
  <2> QED BY <2>2, <2>4
<1>8. CASE Purge
  <2> DEFINE row == [WithoutRemote(rows[n]) EXCEPT !.dirty = TRUE]
  <2>1. /\ AtNetwork
        /\ \/ Live(rows[n]) /\ rows' = [rows EXCEPT ![n] = row]
           \/ rows' = [rows EXCEPT ![n] = NoRow]
    BY <1>8 DEF Purge, Sending, AtNetwork, Settle, Purged, Now
  <2>2. n \in NoteIds /\ (rows[n] # NoRow => row.text = rows[n].text)
    BY <1>3, <2>1 DEF Row, WithoutRemote
  <2> HIDE DEF row, n
  <2>3. CASE Live(rows[n]) /\ rows' = [rows EXCEPT ![n] = row]
    BY <1>1, <2>2, <2>3, OneRowTexts DEF Live
  <2>4. CASE rows' = [rows EXCEPT ![n] = NoRow]
    BY <1>1, <2>2, <2>4 DEF SameTexts, Rows
  <2> QED BY <2>1, <2>3, <2>4
<1>9. ASSUME NEW p \in Paths, NEW cut \in BOOLEAN, AtNetwork, Aside(p, cut) PROVE SameTexts(rows, rows')
  <2> DEFINE c == [kind |-> "displace", note |-> n, path |-> p]
             loose == WithoutRemote(rows[n])
             R == [rows EXCEPT ![n] = loose]
             S(T) == IF T[n] = NoRow THEN T ELSE [T EXCEPT ![n] = [T[n] EXCEPT !.path = p]]
  <2>1. c.note = n /\ c.path = p OBVIOUS
  <2>2. n \in NoteIds /\ (rows[n] # NoRow => rows[n] \in Row) BY <1>3, <1>9
  <2>3. rows[n] # NoRow => loose \in Row /\ loose.text = rows[n].text
    BY <2>2 DEF Row, WithoutRemote
  <2>4. rows' = DisplaceNote(IF cut THEN DetachNote(Now, c) ELSE Now, c).rows
    BY <1>9 DEF Aside
  <2> HIDE DEF c, loose, n
  <2>5. ASSUME NEW T PROVE DisplaceNote([rows |-> T, ops |-> ops], c).rows = S(T)
    BY <2>1 DEF DisplaceNote
  <2>6. DetachNote(Now, c) \in {[rows |-> rows, ops |-> ops], [rows |-> R, ops |-> ops]}
        /\ (rows[n] = NoRow => DetachNote(Now, c) = [rows |-> rows, ops |-> ops])
    BY <2>1 DEF DetachNote, Now, loose
  <2>7. rows' = S(rows) \/ (rows[n] # NoRow /\ rows' = S(R))
    BY <2>4, <2>5, <2>6 DEF Now
  <2>8. rows[n] # NoRow => R \in Rows /\ SameTexts(rows, R) /\ R[n] \in Row
    BY <1>1, <2>2, <2>3, OneRowTexts DEF Rows
  <2>9. ASSUME NEW T \in Rows PROVE SameTexts(T, S(T))
    <3>1. CASE T[n] = NoRow BY <3>1 DEF SameTexts
    <3>2. CASE T[n] # NoRow
      <4>1. [T[n] EXCEPT !.path = p].text = T[n].text BY <2>2, <3>2 DEF Rows, Row
      <4> QED BY <2>2, <3>2, <4>1, OneRowTexts
    <3> QED BY <3>1, <3>2
  <2> HIDE DEF R, S
  <2>10. SameTexts(rows, S(rows)) BY <1>1, <2>9
  <2>11. rows[n] # NoRow => SameTexts(R, S(R)) BY <2>8, <2>9
  <2> QED BY <2>7, <2>8, <2>10, <2>11 DEF SameTexts
<1>10. CASE \E p \in Paths : SetAside(p)
  <2>1. PICK p \in Paths : SetAside(p) BY <1>10
  <2>2. AtNetwork /\ Aside(p, seen.file # NoFile) BY <2>1 DEF SetAside, AtNetwork
  <2>3. (seen.file # NoFile) \in BOOLEAN OBVIOUS
  <2> QED BY <1>9, <2>2, <2>3
<1>11. CASE \E p \in Paths, cut \in BOOLEAN : StepAside(p, cut)
  <2>1. PICK p \in Paths, cut \in BOOLEAN : StepAside(p, cut) BY <1>11
  <2>2. AtNetwork /\ Aside(p, cut) BY <2>1 DEF StepAside, AtNetwork
  <2> QED BY <1>9, <2>2
<1> QED BY <1>2, <1>5, <1>6, <1>7, <1>8, <1>10, <1>11 DEF PushStep

\* The mark a body replaced under a hand gets is the one the hand asks for.
LEMMA HandAfterTrue ==
  ASSUME Inv, HandTrue, NEW R, rows' = R,
         \/ hand' = HandAfter(rows, R)
         \/ \E mark, dropped \in BOOLEAN :
              hand' = [HandAfter(rows, R) EXCEPT !.mark = mark, !.dropped = dropped]
  PROVE  HandTrue'
<1> SUFFICES ASSUME hand'.kind = "typing", R[hand'.note] # NoRow, ~hand'.stale
             PROVE  R[hand'.note].text = hand'.base
  BY DEF HandTrue
<1> DEFINE after == HandAfter(rows, R)
<1>1. hand \in Hand BY InvFacts
<1>2. ASSUME hand.kind # "none"
      PROVE  /\ hand.kind = [hand EXCEPT !.stale = TRUE].kind
             /\ hand.note = [hand EXCEPT !.stale = TRUE].note
             /\ hand.base = [hand EXCEPT !.stale = TRUE].base
             /\ [hand EXCEPT !.stale = TRUE].stale = TRUE
             /\ [hand EXCEPT !.stale = TRUE] \in Hand
  <2>1. hand \in [kind : {"typing", "undo"}, note : NoteIds, base : Texts,
                  stale : BOOLEAN, mark : BOOLEAN, dropped : BOOLEAN]
    BY <1>1, <1>2, NoHandOK DEF Hand
  <2> QED BY <2>1 DEF Hand
<1>3. \/ after = hand
      \/ hand.kind # "none" /\ after = [hand EXCEPT !.stale = TRUE]
  BY DEF HandAfter
<1>4. /\ after \in Hand /\ after.kind = hand.kind
      /\ hand.kind # "none" => after.note = hand.note /\ after.base = hand.base
  BY <1>1, <1>2, <1>3
<1>5. hand.kind # "none" /\ R[hand.note] # NoRow /\ ~after.stale =>
        ~hand.stale /\ rows[hand.note] # NoRow /\ rows[hand.note].text = R[hand.note].text
  BY <1>1, <1>2, <1>3 DEF HandAfter
<1> HIDE DEF after
<1>6. /\ hand'.kind = after.kind /\ hand'.note = after.note
      /\ hand'.base = after.base /\ hand'.stale = after.stale
  <2>1. CASE hand' = after BY <2>1
  <2>2. CASE \E mark, dropped \in BOOLEAN :
               hand' = [after EXCEPT !.mark = mark, !.dropped = dropped]
    <3>1. PICK mark, dropped \in BOOLEAN :
            hand' = [after EXCEPT !.mark = mark, !.dropped = dropped]
      BY <2>2
    <3>2. CASE after = NoHand BY <3>1, <3>2 DEF NoHand
    <3>3. CASE after # NoHand BY <1>4, <3>1, <3>3 DEF Hand
    <3> QED BY <3>2, <3>3
  <2> QED BY <2>1, <2>2 DEF after
<1>7. hand.kind = "typing" BY <1>4, <1>6
<1> QED BY <1>4, <1>5, <1>6, <1>7 DEF HandTrue

LEMMA SameTextsTrue ==
  ASSUME Inv, HandTrue, hand' = hand, SameTexts(rows, rows') PROVE HandTrue'
<1>1. hand.kind = "typing" => hand.note \in NoteIds BY InvFacts, HandFacts
<1> QED BY <1>1 DEF HandTrue, SameTexts

LEMMA EngineHand == ASSUME Inv, HandTrue, Engine PROVE HandTrue'
<1>1. CASE \E t \in Texts, f \in Files, c \in NoteIds, p \in Paths : Resolve(t, f, c, p)
  <2>1. hand' = HandAfter(rows, rows') BY <1>1 DEF Resolve
  <2> QED BY <2>1, HandAfterTrue
<1>2. CASE PushStep /\ ~(\E t \in Texts, f \in Files, c \in NoteIds, p \in Paths :
                            Resolve(t, f, c, p))
  <2>1. hand' = hand
    <3>1. CASE StartPush \/ Ask \/ EndDrain \/ SendNothing \/ Purge \/ MeetConflict
      BY <3>1 DEF StartPush, Ask, EndDrain, SendNothing, Purge, MeetConflict
    <3>2. CASE \E f \in Files : Push(f) \/ PushAside(f) BY <3>2 DEF Push, PushAside
    <3>3. CASE \E p \in Paths : Move(p) \/ SetAside(p) BY <3>3 DEF Move, SetAside, Aside
    <3>4. CASE \E f \in Files, p \in Paths : PushOver(f, p) BY <3>4 DEF PushOver
    <3>5. CASE \E p \in Paths, cut \in BOOLEAN : StepAside(p, cut)
      BY <3>5 DEF StepAside, Aside
    <3> QED BY <1>2, <3>1, <3>2, <3>3, <3>4, <3>5 DEF PushStep
  <2> QED BY <1>2, <2>1, OutcomeTexts, SameTextsTrue
<1>3. CASE Apply
  <2> DEFINE after == ApplyChange(Now, next, change)
             took == Takes(Now, change)
             touched == HandAfter(rows, after.rows)
             arrived == change.kind = "upsert" /\ hand.note = change.note
  <2>1. rows' = IF took THEN after.rows ELSE rows BY <1>3 DEF Apply
  <2>2. CASE ~took
    <3>1. rows' = rows /\ hand' = hand BY <1>3, <2>2 DEF Apply
    <3> QED BY <3>1 DEF HandTrue
  <2>3. CASE hand = NoHand
    <3>1. hand' = NoHand BY <1>3, <2>3 DEF Apply
    <3> QED BY <3>1 DEF HandTrue, NoHand
  <2>4. CASE took /\ hand # NoHand
    <3> DEFINE mark == touched.mark /\ ~arrived
               dropped == touched.dropped /\ ~(arrived /\ rows[hand.note] = NoRow)
    <3>1. hand' = [touched EXCEPT !.mark = mark, !.dropped = dropped]
      BY <1>3, <2>4 DEF Apply
    <3>2. mark \in BOOLEAN /\ dropped \in BOOLEAN OBVIOUS
    <3>3. rows' = after.rows BY <2>1, <2>4
    <3> HIDE DEF after, mark, dropped, took, arrived
    <3> QED BY <3>1, <3>2, <3>3, HandAfterTrue
  <2> QED BY <2>2, <2>3, <2>4
<1>4. CASE PullStep /\ ~Apply
  <2>1. rows' = rows /\ hand' = hand
    BY <1>4 DEF PullStep, DecideUpsert, DecideAdopt, DecideMove, DecideGone,
                DecideDisplace, DecideConflict, DecideToApply
  <2> QED BY <2>1 DEF HandTrue
<1>5. CASE Fail BY <1>5 DEF Fail, HandTrue, store
<1> QED BY <1>1, <1>2, <1>3, <1>4, <1>5 DEF Engine

LEMMA UserHand == ASSUME Inv, HandTrue, UserApart \/ BringsBack PROVE HandTrue'
<1>1. ASSUME hand' = NoHand PROVE HandTrue' BY <1>1 DEF HandTrue, NoHand
<1>2. rows \in Rows /\ hand \in Hand /\ (hand.kind # "none" => hand.note \in drawn)
      /\ (hand.kind # "none" => hand.note \in NoteIds)
      /\ \A n \in NoteIds : rows[n] # NoRow => n \in drawn /\ rows[n] \in Row
  BY RowsFacts, InvFacts, HandFacts
<1>3. ASSUME NEW n \in NoteIds, NEW p \in Paths, NEW t \in Texts, Create(n, p, t)
      PROVE  HandTrue'
  <2>1. n \notin drawn /\ hand' = hand /\ rows' = [rows EXCEPT ![n] = NewRow(p, t)]
    BY <1>3 DEF Create, Fresh, UserWrites
  <2> QED BY <1>2, <2>1 DEF HandTrue, Rows
<1>4. ASSUME NEW n \in NoteIds, NEW p \in Paths, NEW t \in Texts, Rename(n, p, t)
      PROVE  HandTrue'
  <2> DEFINE row == Edited(n, p, t)
             based == [hand EXCEPT !.base = t]
  <2>1. /\ rows[n] # NoRow /\ rows' = [rows EXCEPT ![n] = row]
        /\ hand' = IF hand.kind # "none" /\ hand.note = n /\ hand.base = rows[n].text
                   THEN based ELSE hand
    BY <1>4 DEF Rename, UserWrites
  <2>2. row.text = t BY <1>2, <2>1 DEF Edited, Row
  <2>3. hand.kind # "none" => /\ based.note = hand.note /\ based.base = t
                              /\ based.stale = hand.stale /\ based.kind = hand.kind
    BY <1>2 DEF Hand, NoHand
  <2> HIDE DEF row, based
  <2>4. rows'[n] = row /\ \A m \in NoteIds \ {n} : rows'[m] = rows[m]
    BY <1>2, <2>1 DEF Rows
  <2>5. CASE hand.kind # "none" /\ hand.note = n /\ hand.base = rows[n].text
    BY <2>1, <2>2, <2>3, <2>4, <2>5 DEF HandTrue
  <2>6. CASE ~(hand.kind # "none" /\ hand.note = n /\ hand.base = rows[n].text)
    BY <1>2, <2>1, <2>4, <2>6 DEF HandTrue
  <2> QED BY <2>5, <2>6
<1>5. ASSUME NEW n \in NoteIds, StartTyping(n) PROVE HandTrue'
  BY <1>5 DEF StartTyping, InHand, HandTrue, store
<1>6. ASSUME NEW n \in NoteIds, Delete(n) PROVE HandTrue'
  <2> DEFINE row == [rows[n] EXCEPT !.deleted = TRUE, !.dirty = TRUE]
             marked == [hand EXCEPT !.mark = TRUE, !.dropped = TRUE]
  <2>1. rows[n] # NoRow /\ rows' = [rows EXCEPT ![n] = row]
    BY <1>6 DEF Delete, Live, UserWrites
  <2>2. row.text = rows[n].text BY <1>2, <2>1 DEF Row
  <2>3. SameTexts(rows, rows')
    <3> HIDE DEF row
    <3> QED BY <1>2, <2>1, <2>2, OneRowTexts
  <2>4. \/ hand.kind # "none" /\ hand' = marked
        \/ hand' = hand
        \/ hand' = InHand("undo", n, rows[n].text)
    BY <1>6 DEF Delete
  <2>5. hand.kind # "none" => /\ marked.note = hand.note /\ marked.base = hand.base
                              /\ marked.stale = hand.stale /\ marked.kind = hand.kind
    BY <1>2 DEF Hand, NoHand
  <2>6. InHand("undo", n, rows[n].text).kind # "typing" BY DEF InHand
  <2> HIDE DEF row, marked
  <2> QED BY <1>2, <2>3, <2>4, <2>5, <2>6 DEF HandTrue, SameTexts
<1>7. CASE UserApart
  <2>1. CASE \E n \in NoteIds, p \in Paths, t \in Texts : Create(n, p, t) \/ Rename(n, p, t)
    BY <1>3, <1>4, <2>1
  <2>2. CASE \E n \in NoteIds : StartTyping(n) \/ Delete(n) BY <1>5, <1>6, <2>2
  <2>3. CASE ~((\E n \in NoteIds, p \in Paths, t \in Texts : Create(n, p, t) \/ Rename(n, p, t))
               \/ \E n \in NoteIds : StartTyping(n) \/ Delete(n))
    <3>1. hand' = NoHand
      BY <1>7, <2>3 DEF UserApart, SaveInto, SaveSame, SaveBeside, SaveLetGo, UndoLift, UndoBeside
    <3> QED BY <1>1, <3>1
  <2> QED BY <2>1, <2>2, <2>3
<1>8. CASE BringsBack
  BY <1>1, <1>8 DEF BringsBack, SaveGone, UndoGone, BringBack
<1> QED BY <1>7, <1>8

\* An edit that will be saved into the note as its body was typed into the text
\* the note still holds (bodyOrigin, saveNoteBody).
THEOREM ShownIsStored == SpecApart => []HandShowsTheRow
<1>1. Init => HandTrue BY DEF Init, HandTrue, NoHand
<1>2. Inv /\ HandTrue /\ [NextApart]_vars => HandTrue'
  <2> SUFFICES ASSUME Inv, HandTrue, [NextApart]_vars PROVE HandTrue' OBVIOUS
  <2>1. CASE UserApart \/ BringsBack BY <2>1, UserHand
  <2>2. CASE Engine BY <2>2, EngineHand
  <2>3. CASE Crash BY <2>3 DEF Crash, HandTrue, NoHand
  <2>4. CASE UNCHANGED vars BY <2>4 DEF vars, HandTrue
  <2> QED BY <2>1, <2>2, <2>3, <2>4 DEF NextApart
<1>3. HandTrue => HandShowsTheRow BY DEF HandTrue, HandShowsTheRow, Live
<1> QED BY <1>1, <1>2, <1>3, InvAlways, PTL DEF SpecApart
=============================================================================

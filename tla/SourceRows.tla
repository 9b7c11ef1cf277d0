----------------------------- MODULE SourceRows -----------------------------
(* What becomes of a source's notes when sources are bound and let go:       *)
(* constant-level operators over the stores of a device, one [rows, ops] for *)
(* each source and one for the device's own pile (store/connection.ts,       *)
(* store/unsynced.ts).  Sources runs them.                                   *)
(*                                                                           *)
(* What is simplified:                                                       *)
(*   - notes only: no notebooks, files, pictures, keys or preferences;       *)
(*   - a name the target has in another spelling is the name;                *)
(*   - a free name is the name with a number, ten times it added here;       *)
(*   - a note that is one row in two sources has the same id in its text,    *)
(*     which stands for the time it was made.                                *)
EXTENDS NotePull

Local == 0
NoStore == [rows |-> [n \in NoteIds |-> NoRow], ops |-> {}]

RowsIn(st) == {n \in NoteIds : st.rows[n] # NoRow}
LiveRows(st) == {n \in NoteIds : Live(st.rows[n])}
Tombstones(st) == RowsIn(st) \ LiveRows(st)
LivePaths(st) == {st.rows[n].path : n \in LiveRows(st)}

FreePath(p, taken) ==
  LET Numbered(k) == [p EXCEPT ![1] = @ + 10 * k]
      k == CHOOSE k \in 1..(Cardinality(taken) + 1) :
             Numbered(k) \notin taken /\ \A j \in 1..(k - 1) : Numbered(j) \in taken
  IN  IF p \in taken THEN Numbered(k) ELSE p

\* A store, with a write queued for each of the notes, from number s on.
QueueOwed(st, notes, s) ==
  FoldLeft(LAMBDA a, n : [st   |-> [a.st EXCEPT !.ops = QueueWrite(@, a.next, n, a.st.rows[n], NoSeq)],
                          next |-> a.next + 1],
           [st |-> st, next |-> s], InOrder(notes)).st

-----------------------------------------------------------------------------
(* What a source holds that its remote was never sent (unsyncedIn).          *)

UnsentNotes(st, unverified) ==
  {n \in LiveRows(st) : \/ unverified \/ st.rows[n].dirty
                        \/ st.rows[n].file = NoFile \/ Writes(st.ops, n) # {}}
UnsentRenames(st, unverified) ==
  {n \in LiveRows(st) \ UnsentNotes(st, unverified) : Moves(st.ops, n) # {}}
UnsentDeletes(st) == {n \in Tombstones(st) : st.rows[n].file # NoFile}
Unsynced(st, unverified) ==
  UnsentNotes(st, unverified) \cup UnsentRenames(st, unverified) \cup UnsentDeletes(st)

\* Mutant: the rows stay, and what is queued for them goes.
KeepRowsOnly(st, staying) ==
  [rows |-> [n \in NoteIds |-> IF n \in staying THEN st.rows[n] ELSE NoRow], ops |-> {}]

KeepOnly(st, staying) ==
  [rows |-> [n \in NoteIds |-> IF n \in staying THEN st.rows[n] ELSE NoRow],
   ops  |-> {o \in st.ops : o.note \in staying}]

-----------------------------------------------------------------------------
(* Rows that stay where they are and are owed anew.                          *)

\* Every row let go of its file; a delete was owed to a file that is not there.
CutLoose(st, s) ==
  LET Cut(row) == IF Live(row) THEN [WithoutRemote(row) EXCEPT !.dirty = TRUE] ELSE NoRow
      rows == [n \in NoteIds |-> Cut(st.rows[n])]
  IN  QueueOwed([rows |-> rows, ops |-> {}], LiveRows(st), s)

OwedInPlace(st) == {n \in LiveRows(st) : st.rows[n].file = NoFile}
AnyLinked(st) == \E n \in RowsIn(st) : st.rows[n].file # NoFile

-----------------------------------------------------------------------------
(* Rows that go from one source to another (moveRowsTo).  `mode` is "resume" *)
(* where both are one account and "copy" where they are not; `only` the rows *)
(* taken; `keep` leaves them behind as well; `fresh` are ids nothing has.    *)

\* The target's row of the file the note names.
TwinOf(from, to, mode, n) ==
  LET file == from.rows[n].file
  IN  IF mode = "resume" /\ file # NoFile THEN HoldersOf(to.rows, file.id) ELSE {}

\* Mutant: the row that is there is not asked for.
NeverYields(from, to, mode, n) == FALSE

\* Nothing of its own to keep: the target's row of the file stands for it.
Yields(from, to, mode, n) ==
  TwinOf(from, to, mode, n) # {} /\ ~Unsent(from.rows[n])

\* The id each row has where it ends up.
Landing(from, to, mode, fresh) ==
  LET Stays(n) == Yields(from, to, mode, n)
      Renewed(n) == ~Stays(n) /\ (TwinOf(from, to, mode, n) # {} \/ to.rows[n] # NoRow)
      Rank(n) == Cardinality({m \in RowsIn(from) : Renewed(m) /\ m <= n})
  IN  [n \in RowsIn(from) |->
         IF Stays(n) THEN CHOOSE m \in TwinOf(from, to, mode, n) : TRUE
         ELSE IF Renewed(n) THEN fresh[Rank(n)] ELSE n]

\* The target's rows with those taken placed among them, and what is owed.
Placed(from, to, mode, only, landing) ==
  LET Place(a, n) ==
        LET row   == from.rows[n]
            k     == landing[n]
            twin  == TwinOf(from, to, mode, n) # {}
            path  == IF twin THEN ConflictPath(row.path, a.taken) ELSE FreePath(row.path, a.taken)
            loose == [WithoutRemote(row) EXCEPT !.path = path, !.dirty = TRUE]
            as    == mode = "resume" /\ ~twin /\ path = row.path
            stranded == row.file = NoFile /\ \A o \in from.ops : o.note # n
            put   == IF as THEN row ELSE IF twin THEN [loose EXCEPT !.text.id = k] ELSE loose
        IN  [rows  |-> [a.rows EXCEPT ![k] = put],
             taken |-> a.taken \cup {path},
             owed  |-> IF as /\ ~stranded THEN a.owed ELSE a.owed \cup {k}]
      Carry(a, n) == IF from.rows[n].deleted THEN [a EXCEPT !.rows[landing[n]] = from.rows[n]]
                                            ELSE Place(a, n)
      going == {n \in RowsIn(from) \cap only :
                  ~Yields(from, to, mode, n) /\ (mode = "resume" \/ Live(from.rows[n]))}
  IN  FoldLeft(Carry, [rows |-> to.rows, taken |-> LivePaths(to), owed |-> {}],
               InOrder(going))

\* What is queued goes with its row, but for a row owed as though new or one
\* that yielded.
CarriedOps(from, to, mode, only, landing, owed) ==
  LET Landed(n) == IF n \in RowsIn(from) THEN landing[n] ELSE n
      Dropped(o) == \/ mode = "copy"
                    \/ Landed(o.note) \in owed
                    \/ o.note \in RowsIn(from) /\ Yields(from, to, mode, o.note)
  IN  {[o EXCEPT !.note = Landed(o.note)] : o \in {p \in from.ops : p.note \in only /\ ~Dropped(p)}}

Left(from, only, keep) ==
  IF keep THEN from
  ELSE [rows |-> [n \in NoteIds |-> IF n \in only THEN NoRow ELSE from.rows[n]],
        ops  |-> {o \in from.ops : o.note \notin only}]

\* went: where each row taken, or deleted, is to be looked for from now on.
MoveRows(from, to, mode, only, keep, fresh) ==
  LET landing == Landing(from, to, mode, fresh)
      placed  == Placed(from, to, mode, only, landing)
      new     == {n \in NoteIds : placed.rows[n] # to.rows[n]}
  IN  [from   |-> Left(from, only, keep),
       to     |-> [rows |-> placed.rows,
                   ops  |-> to.ops \cup CarriedOps(from, to, mode, only, landing, placed.owed)],
       owed   |-> placed.owed,
       linked |-> \E n \in new : placed.rows[n].file # NoFile,
       went   |-> {[from |-> n, to |-> landing[n]] :
                     n \in (RowsIn(from) \cap only) \cup Tombstones(from)}]
=============================================================================

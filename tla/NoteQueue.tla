------------------------------ MODULE NoteQueue ------------------------------
(* The push queue of one device and what the store's writers do to it.       *)
(*                                                                           *)
(* Constant-level operators only.  A store is a record [rows, ops]:          *)
(*   rows  a function from note ids to rows, NoRow where there is none;      *)
(*   ops   the set of queued ops, each with the sequence number IndexedDB    *)
(*         gave it.  Whoever queues passes the next free number in.          *)
(* A row keeps what the queue and the engine tell apart: where the note is,  *)
(* its text, the dirty and deleted flags, the remote file it is bound to and *)
(* the text it last synced.  A text is one value: the frontmatter is part of *)
(* it.  NoteStore and NoteSync are built from these operators.               *)
EXTENDS Integers

CONSTANTS NoRow,      \* there is no row under this id
          NoFile,     \* a row that is bound to no remote file
          NoSynced,   \* a row that has recorded no synced hash
          NoPath      \* what a write or a delete has where a move has its ends

NoSeq == -1

Live(row) == row # NoRow /\ ~row.deleted
Tombstone(row) == row # NoRow /\ row.deleted

\* Dirty as the engine means it: a tombstone owes its delete, never its text.
Unsent(row) == Live(row) /\ row.dirty

\* Mutant: the binding dropped and the synced hash left behind.
HashLeftBehind(row) == [row EXCEPT !.file = NoFile]

WithoutRemote(row) == [row EXCEPT !.file = NoFile, !.synced = NoSynced]

-----------------------------------------------------------------------------
(* The queue.                                                                *)

\* A move goes from one path to another.  A write or a delete is sent to where
\* its note is when it runs, and keeps no path of its own here.
MoveOp(s, n, from, to) ==
  [seq |-> s, kind |-> "move", note |-> n, path |-> from, target |-> to]
NoteOp(s, kind, n) ==
  [seq |-> s, kind |-> kind, note |-> n, path |-> NoPath, target |-> NoPath]

OpsFor(ops, n, kind) == {o \in ops : o.note = n /\ o.kind = kind}
Writes(ops, n)  == OpsFor(ops, n, "write")
Moves(ops, n)   == OpsFor(ops, n, "move")
Deletes(ops, n) == OpsFor(ops, n, "delete")

Queued(ops, seq) == \E o \in ops : o.seq = seq
Without(ops, seq) == {o \in ops : o.seq # seq}

\* The number after the last one used, where up to four from s on may have been.
NextSeq(ops, s) ==
  CHOOSE k \in s..(s + 4) :
    /\ \A j \in k..(s + 3) : ~Queued(ops, j)
    /\ k = s \/ Queued(ops, k - 1)

\* One queued write is enough, however many edits land before it runs.
QueueWrite(ops, s, n, row, except) ==
  IF row.deleted \/ \E o \in Writes(ops, n) : o.seq # except
  THEN ops
  ELSE ops \cup {NoteOp(s, "write", n)}

\* A second rename replaces the first and keeps its origin.
QueueMove(ops, s, n, row, from) ==
  LET moves  == Moves(ops, n)
      origin == IF moves = {} THEN from ELSE (CHOOSE o \in moves : TRUE).path
      owed   == row.file # NoFile /\ origin # row.path
  IN  IF \E o \in moves : moves = {o} /\ o.target = row.path
      THEN ops
      ELSE (ops \ moves) \cup
             IF owed THEN {MoveOp(s, n, origin, row.path)} ELSE {}

\* Mutant: the delete queued behind the writes instead of in their place.
DeleteBehindWrites(ops, s, n, row) == ops \cup {NoteOp(s, "delete", n)}

QueueDelete(ops, s, n, row) ==
  (ops \ Writes(ops, n)) \cup {NoteOp(s, "delete", n)}

\* Mutant: the delete withdrawn and nothing queued for the edit it had withdrawn.
OnlyWithdraw(ops, s, n, row) == ops \ Deletes(ops, n)

QueueRestore(ops, s, n, row) ==
  QueueWrite(ops \ Deletes(ops, n), s, n, row, NoSeq)

\* A user's edit: the write it owes, and the move if it changed the path.
QueueEdit(ops, s, n, row, from) ==
  LET q == QueueWrite(ops, s, n, row, NoSeq)
  IN  IF row.path = from THEN q ELSE QueueMove(q, s + 1, n, row, from)

\* The remote has just said where the note's file is.
OriginIsNow(ops, n, at) ==
  {IF o.note = n /\ o.kind = "move" THEN [o EXCEPT !.path = at] ELSE o : o \in ops}

RebaseOwnOps(ops, n, from, to) ==
  {IF o.note = n
   THEN [o EXCEPT !.path   = IF @ = from THEN to ELSE @,
                  !.target = IF @ = from THEN to ELSE @]
   ELSE o : o \in ops}

-----------------------------------------------------------------------------
(* What an op achieved, against the note as it now stands (settle).          *)

\* Mutant: what is on the row is taken for what was sent.
PushedUnasked(st, s, seq, n, sent, at, file) ==
  [rows |-> [st.rows EXCEPT ![n] = [@ EXCEPT !.file = file, !.synced = sent, !.dirty = FALSE]],
   ops  |-> Without(st.ops, seq)]

\* `sent` is the text that went up, `at` where the provider put it.
Pushed(st, s, seq, n, sent, at, file) ==
  LET same   == st.rows[n].text = sent
      pushed == [st.rows[n] EXCEPT !.file = file, !.synced = sent,
                                   !.dirty = @ /\ ~same]
      q == IF same THEN st.ops ELSE QueueWrite(st.ops, s, n, pushed, seq)
      r == IF pushed.path = at THEN q ELSE QueueMove(q, s + 1, n, pushed, at)
  IN  [rows |-> [st.rows EXCEPT ![n] = pushed], ops |-> Without(r, seq)]

\* Mutant: the note is put where the move was sent, whatever its name is by now.
MovedBack(st, s, seq, n, at, file) ==
  [rows |-> [st.rows EXCEPT ![n] = [@ EXCEPT !.file = file, !.path = at]],
   ops  |-> Without(st.ops, seq)]

\* Renamed again while the move was on its way, the note stays where it is.
Moved(st, s, seq, n, at, file) ==
  LET bound == [st.rows[n] EXCEPT !.file = file]
  IN  IF Queued(st.ops, seq)
      THEN [rows |-> [st.rows EXCEPT ![n] = [bound EXCEPT !.path = at]],
            ops  |-> Without(st.ops, seq)]
      ELSE [rows |-> [st.rows EXCEPT ![n] = bound],
            ops  |-> QueueMove(st.ops, s, n, bound, at)]

\* Mutant: the row removed without asking whether it was restored.
PurgedAnyway(st, s, seq, n) ==
  [rows |-> [st.rows EXCEPT ![n] = NoRow], ops |-> Without(st.ops, seq)]

\* Restored while its delete was on its way, the note is kept and sent again.
Purged(st, s, seq, n) ==
  LET restored == [WithoutRemote(st.rows[n]) EXCEPT !.dirty = TRUE]
  IN  IF Live(st.rows[n])
      THEN [rows |-> [st.rows EXCEPT ![n] = restored],
            ops  |-> Without(QueueWrite(st.ops, s, n, restored, NoSeq), seq)]
      ELSE [rows |-> [st.rows EXCEPT ![n] = NoRow], ops |-> Without(st.ops, seq)]

Done(st, seq) == [st EXCEPT !.ops = Without(@, seq)]

-----------------------------------------------------------------------------
(* What a pull's change does.  A change is one record, whatever its kind:    *)
(* [kind, note, path, text, file, synced, copy, copyPath], with the fields   *)
(* its kind has no use for left at any value.                                *)

\* The row a file makes, keeping from the row it replaces what no file says.
RowFromFile(old, c) ==
  [path |-> c.path, text |-> c.text, dirty |-> FALSE, deleted |-> Tombstone(old),
   file |-> c.file, synced |-> c.text]

Upsert(st, c) ==
  [rows |-> [st.rows EXCEPT ![c.note] = RowFromFile(@, c)],
   ops  |-> OriginIsNow(st.ops, c.note, c.path)]

AdoptVersion(st, c) ==
  [rows |-> [st.rows EXCEPT ![c.note] = [@ EXCEPT !.file = c.file, !.synced = c.synced]],
   ops  |-> OriginIsNow(st.ops, c.note, c.path)]

MoveNote(st, c) ==
  [rows |-> [st.rows EXCEPT ![c.note] =
               [@ EXCEPT !.path = c.path, !.file = c.file, !.synced = c.synced]],
   ops  |-> RebaseOwnOps(st.ops, c.note, st.rows[c.note].path, c.path)]

DeleteNote(st, c) ==
  [rows |-> [st.rows EXCEPT ![c.note] = NoRow], ops |-> st.ops]

DetachNote(st, c) ==
  IF st.rows[c.note] = NoRow THEN st
  ELSE [rows |-> [st.rows EXCEPT ![c.note] = WithoutRemote(@)], ops |-> st.ops]

DisplaceNote(st, c) ==
  IF st.rows[c.note] = NoRow THEN st
  ELSE [rows |-> [st.rows EXCEPT ![c.note] = [@ EXCEPT !.path = c.path]],
        ops  |-> RebaseOwnOps(st.ops, c.note, st.rows[c.note].path, c.path)]

\* Queued without asking whether a write is queued already.
ReuploadNote(st, s, c) ==
  LET row == st.rows[c.note]
  IN  IF ~Live(row) THEN st
      ELSE [rows |-> [st.rows EXCEPT ![c.note] = [WithoutRemote(row) EXCEPT !.dirty = TRUE]],
            ops  |-> st.ops \cup {NoteOp(s, "write", c.note)}]

\* The remote keeps the path and the note; the text that lost becomes a copy,
\* made from the note as it stands.  A tombstone gets no copy.
Conflict(st, s, c) ==
  LET row  == st.rows[c.note]
      copy == [path |-> c.copyPath, text |-> row.text, dirty |-> TRUE, deleted |-> FALSE,
               file |-> NoFile, synced |-> NoSynced]
      kept == OriginIsNow(st.ops \ Writes(st.ops, c.note), c.note, c.path)
      over == [st.rows EXCEPT ![c.note] = RowFromFile(@, c)]
  IN  IF row.deleted
      THEN [rows |-> over, ops |-> kept]
      ELSE [rows |-> [over EXCEPT ![c.copy] = copy],
            ops  |-> kept \cup {NoteOp(s, "write", c.copy)}]

\* Mutant: what was decided is applied over an edit made since.
TakesEdited(st, c) == c.kind # "conflict" \/ st.rows[c.copy] = NoRow

\* Whether the store takes the change; one it refuses takes the batch with it.
Takes(st, c) ==
  LET row == st.rows[c.note]
  IN  CASE c.kind \in {"upsert", "delete"} -> ~Unsent(row)
        [] c.kind \in {"adopt", "move"}    -> row # NoRow
        [] c.kind = "conflict" -> row # NoRow /\ (Live(row) => st.rows[c.copy] = NoRow)
        [] OTHER -> TRUE

ApplyChange(st, s, c) ==
  CASE c.kind = "upsert"   -> Upsert(st, c)
    [] c.kind = "adopt"    -> AdoptVersion(st, c)
    [] c.kind = "move"     -> MoveNote(st, c)
    [] c.kind = "delete"   -> DeleteNote(st, c)
    [] c.kind = "detach"   -> DetachNote(st, c)
    [] c.kind = "displace" -> DisplaceNote(st, c)
    [] c.kind = "reupload" -> ReuploadNote(st, s, c)
    [] c.kind = "conflict" -> Conflict(st, s, c)

\* The op is finished with the conflict it met, and never sent again.
ResolveConflict(st, s, seq, c) ==
  LET met == Conflict(st, s, c) IN [met EXCEPT !.ops = Without(@, seq)]
=============================================================================

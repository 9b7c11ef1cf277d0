------------------------------ MODULE FileQueue ------------------------------
(* What the store's writers and the settled ops do to the files beside       *)
(* notes, to the notebooks, and to the queue that is owed for both.          *)
(*                                                                           *)
(* Constant-level operators only.  A store is a record [files, dirs, ops,    *)
(* kept]:                                                                    *)
(*   files  a row for each file id from 1 on, NoRow where there is none;     *)
(*   dirs   a function from notebooks to rows: NoRow, or the id the row has  *)
(*          for its directory, NoDir where it has none;                      *)
(*   ops    the queue, in the order of its sequence numbers.  A tag stands   *)
(*          for a number: as long as somebody holds one it is not used again;*)
(*   kept   the tags somebody holds beside the queue.                        *)
(* Notebooks are side by side, and every file is the same picture: a path is *)
(* a notebook and which of the picture's names there, 0 its own and the rest *)
(* conflict names.                                                           *)
EXTENDS Naturals, Sequences, FiniteSets

CONSTANTS NoRow,      \* no row under this id; no id
          NoFile,     \* no remote file
          NoDir       \* a notebook's row that names no directory

Path(d, k) == [dir |-> d, k |-> k]

\* `held`: its bytes are here, and are the file's (heldBytesAreCurrent).
PendingRow(at, held) == [at |-> at, remote |-> NoFile, held |-> held]

FilesIn(st, d) == {f \in DOMAIN st.files : st.files[f] # NoRow /\ st.files[f].at.dir = d}
NamesHere(st, d) == {st.files[f].at.k : f \in FilesIn(st, d)}

\* conflictFilePath: a conflict name none of these is.
FreeName(taken) == CHOOSE k \in 1..(Cardinality(taken) + 1) :
                     k \notin taken /\ \A j \in 1..(k - 1) : j \in taken

-----------------------------------------------------------------------------
(* The queue.                                                                *)

Op(kind, f, at) ==
  [tag |-> 0, kind |-> kind, file |-> f, at |-> at, to |-> at, remote |-> NoFile,
   copyOf |-> NoFile, attempts |-> 0]

Queued(st) == {st.ops[i] : i \in DOMAIN st.ops}
OpsForFile(st, f) == {o \in Queued(st) : o.file = f}
UploadsOf(st, f) == {o \in OpsForFile(st, f) : o.kind = "upload"}
MovesOf(st, f) == {o \in OpsForFile(st, f) : o.kind = "move-file"}
ByTag(st, tag) == {o \in Queued(st) : o.tag = tag}

Fresh(st) == FreeName({o.tag : o \in Queued(st)} \cup st.kept)
Add(st, op) == [st EXCEPT !.ops = Append(@, [op EXCEPT !.tag = Fresh(st)])]

\* What is at these places, in order.
Those(q, places) ==
  LET upTo[i \in 0..Len(q)] ==
        IF i = 0 THEN <<>> ELSE IF i \in places THEN Append(upTo[i - 1], q[i]) ELSE upTo[i - 1]
  IN  upTo[Len(q)]

Withdraw(st, gone) == [st EXCEPT !.ops = Those(@, {i \in DOMAIN @ : @[i] \notin gone})]
Rewrite(st, new(_)) == [st EXCEPT !.ops = [i \in DOMAIN @ |-> new(@[i])]]

QueueUpload(st, f, copyOf) ==
  IF UploadsOf(st, f) # {} THEN st
  ELSE Add(st, [Op("upload", f, st.files[f].at) EXCEPT !.copyOf = copyOf])

MoveOp(f, from, to) == [Op("move-file", f, from) EXCEPT !.to = to]

\* A pending file's upload follows it; a second move replaces the first and
\* keeps its origin.
QueueMoveFile(st, f, from) ==
  LET at     == st.files[f].at
      moves  == MovesOf(st, f)
      origin == IF moves = {} THEN from ELSE (CHOOSE o \in moves : TRUE).at
      rest   == Withdraw(st, moves)
  IN  IF st.files[f].remote = NoFile
      THEN Rewrite(st, LAMBDA o : IF o \in UploadsOf(st, f)
                                  THEN [o EXCEPT !.at = at, !.to = at] ELSE o)
      ELSE IF \E o \in moves : moves = {o} /\ o.to = at THEN st
      ELSE IF origin = at THEN rest
      ELSE Add(rest, MoveOp(f, origin, at))

DeleteOp(at, id) == [Op("delete-file", NoRow, at) EXCEPT !.remote = id]

\* From where the remote has it, which is the origin of a move withdrawn.
QueueDeleteFile(st, f) ==
  LET moves == MovesOf(st, f)
      at    == IF moves = {} THEN st.files[f].at ELSE (CHOOSE o \in moves : TRUE).at
      rest  == Withdraw(st, moves \cup UploadsOf(st, f))
  IN  IF st.files[f].remote = NoFile THEN rest
      ELSE Add(rest, DeleteOp(at, st.files[f].remote))

OpsAt(st, kind, d) == {o \in Queued(st) : o.kind = kind /\ o.at.dir = d}

QueueMkdir(st, d) ==
  LET kept == Withdraw(st, OpsAt(st, "rmdir", d))
  IN  IF OpsAt(st, "mkdir", d) # {} THEN kept
      ELSE Add(kept, Op("mkdir", NoRow, Path(d, 0)))

WithdrawMkdirs(st, d) == Withdraw(st, OpsAt(st, "mkdir", d))

QueueRmdir(st, d, id) ==
  IF id = NoDir \/ \E o \in OpsAt(st, "rmdir", d) : o.remote = id THEN st
  ELSE Add(st, [Op("rmdir", NoRow, Path(d, 0)) EXCEPT !.remote = id])

-----------------------------------------------------------------------------
(* The writers.                                                              *)

PutFile(st, f, row) == [st EXCEPT !.files[f] = row]

\* addAttachment, where the notebook has no file of the name.
AddFile(st, f, d) ==
  QueueUpload(PutFile(st, f, PendingRow(Path(d, 0), TRUE)), f, NoFile)

\* The uploads that copy f's file get its bytes, where they are held here.
HandOver(st, f) ==
  LET row    == st.files[f]
      copies == {o \in Queued(st) : o.kind = "upload" /\ o.copyOf = row.remote}
      has(g, r) == IF r # NoRow /\ \E o \in copies : o.file = g
                   THEN [r EXCEPT !.held = TRUE] ELSE r
  IN  IF row.remote = NoFile \/ ~row.held THEN st
      ELSE [Rewrite(st, LAMBDA o : IF o \in copies THEN [o EXCEPT !.copyOf = NoFile] ELSE o)
              EXCEPT !.files = [g \in DOMAIN @ |-> has(g, @[g])]]

\* copyFileTo: the note it is beside moved, and another there links it too.
CopyFileTo(st, f, g, d) ==
  LET row == st.files[f]
  IN  QueueUpload(PutFile(st, g, PendingRow(Path(d, row.at.k), row.held)),
                  g, IF row.held THEN NoFile ELSE row.remote)

\* moveFileTo: no other does.
MoveFileTo(st, f, d) ==
  LET row == st.files[f]
  IN  QueueMoveFile(PutFile(st, f, [row EXCEPT !.at.dir = d]), f, row.at)

\* The row and its bytes go now, and the op is what is left of it.
DropFile(st, f) == PutFile(QueueDeleteFile(HandOver(st, f), f), f, NoRow)
DropFiles(st, fs) ==
  LET upTo[f \in 0..Len(st.files)] ==
        IF f = 0 THEN st ELSE IF f \in fs THEN DropFile(upTo[f - 1], f) ELSE upTo[f - 1]
  IN  upTo[Len(st.files)]

CreateFolder(st, d) == QueueMkdir([st EXCEPT !.dirs[d] = NoDir], d)

DeleteFolder(st, d) ==
  QueueRmdir(WithdrawMkdirs(DropFiles([st EXCEPT !.dirs[d] = NoRow], FilesIn(st, d)), d),
             d, st.dirs[d])

MoveFilesTo(st, fs, d) ==
  LET upTo[f \in 0..Len(st.files)] ==
        IF f = 0 THEN st ELSE IF f \in fs THEN MoveFileTo(upTo[f - 1], f, d) ELSE upTo[f - 1]
  IN  upTo[Len(st.files)]

\* moveFolder: the row loses the id, which names the directory it is leaving.
RenameFolder(st, d, e) ==
  LET made == QueueMkdir([st EXCEPT !.dirs[d] = NoRow, !.dirs[e] = NoDir], e)
  IN  QueueRmdir(WithdrawMkdirs(MoveFilesTo(made, FilesIn(st, d), e), d), d, st.dirs[d])

-----------------------------------------------------------------------------
(* What an op achieved, against the rows as they now stand (settle).  An     *)
(* entry is what the remote has: its id and where it is.                     *)

\* forgetFile: the row, and the ops queued for it.
ForgetFile(st, f) == PutFile(Withdraw(st, UploadsOf(st, f) \cup MovesOf(st, f)), f, NoRow)

\* Mutant: an rmdir queued while the file was on its way stays ahead of the
\* op that takes the file out.
RmdirsStay(st, at) == st

RmdirsBehind(st, at) ==
  LET over  == OpsAt(st, "rmdir", at.dir)
      these == Those(st.ops, {i \in DOMAIN st.ops : st.ops[i] \in over})
      upTo[i \in 0..Len(these)] ==
        IF i = 0 THEN Withdraw(st, over) ELSE Add(upTo[i - 1], these[i])
  IN  upTo[Len(these)]

\* Deleted or moved while its bytes were on the way, it is owed what the
\* remote has to be told of it.
Uploaded(st, f, entry, sent) ==
  LET row   == st.files[f]
      moved == row.at # sent
      bound == PutFile(st, f, [at     |-> IF moved THEN row.at ELSE entry.at,
                               remote |-> entry.id, held |-> row.held])
  IN  IF row = NoRow THEN RmdirsBehind(Add(st, DeleteOp(entry.at, entry.id)), entry.at)
      ELSE IF moved THEN RmdirsBehind(Add(bound, MoveOp(f, entry.at, row.at)), entry.at)
      ELSE bound

FileOriginIsNow(st, f, at) ==
  Rewrite(st, LAMBDA o : IF o.kind = "move-file" /\ o.file = f THEN [o EXCEPT !.at = at] ELSE o)

\* Moved again since, it stays, and moves from where it landed.  Bytes cached
\* here are not those of another file it took for its own.
MovedFile(st, f, entry, withdrawn) ==
  LET row    == st.files[f]
      landed == [row EXCEPT !.remote = entry.id, !.held = @ /\ row.remote = entry.id]
      put    == PutFile(st, f, IF withdrawn THEN landed ELSE [landed EXCEPT !.at = entry.at])
      kept   == FileOriginIsNow(put, f, entry.at)
  IN  IF row = NoRow THEN st
      ELSE IF withdrawn /\ MovesOf(st, f) = {} /\ row.at # entry.at
      THEN Add(kept, MoveOp(f, entry.at, row.at))
      ELSE kept

MadeFolder(st, d, id) == IF st.dirs[d] = NoRow THEN st ELSE [st EXCEPT !.dirs[d] = id]

Complete(st, tag) == Withdraw(st, ByTag(st, tag))
\* failOp: counted against the op, unless it was withdrawn.
FailOp(st, tag) ==
  Rewrite(st, LAMBDA o : IF o.tag = tag THEN [o EXCEPT !.attempts = @ + 1] ELSE o)
ResetAttempts(st) == Rewrite(st, LAMBDA o : [o EXCEPT !.attempts = 0])
=============================================================================

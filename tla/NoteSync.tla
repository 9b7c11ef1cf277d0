------------------------------- MODULE NoteSync -------------------------------
(* Devices that keep the same notes through one remote folder.  Each has its *)
(* rows and its push queue (NoteQueue), a user, and an engine that pulls     *)
(* (NotePull) and then pushes; the remote is the provider's contract, with   *)
(* its files, their versions and its feed of changes.  Every action is one   *)
(* transaction of a store, one request to the remote, or one of each where   *)
(* nothing another actor does can tell their order.                          *)
(*                                                                           *)
(* What is simplified, beyond what NotePull leaves out:                      *)
(*   - the user saves, renames and deletes at once (NoteStore has an edit in *)
(*     a hand);                                                              *)
(*   - writes are sent one at a time;                                        *)
(*   - attempts are not counted: a failed op ends the round and is retried;  *)
(*   - a file read and not committed is read again by the next pull;         *)
(*   - the queue is read for a push as the pull before it is committed.      *)
EXTENDS NotePull

CONSTANTS
  Devices,
  Names,       \* positive integers: the base names users give
  Start,       \* the notes every device and the remote hold at first
  Deaths,      \* how a cursor can die: "reset", or "upload" where the provider
               \* says its own copy may have lost something
  MoveRenews,  \* whether a move gives its file a new version (OneDrive's eTag)
  MaxActs,     \* bound: how many things the users do
  MaxFaults,   \* bound: rounds cut short, feeds behind and dead cursors
  MaxVersion   \* bound: the last version a move gives

VARIABLES
  remote,  \* the files ever made, in order: [path, text, version], or Gone
  news,    \* device -> the ids its feed has to tell it of, oldest change first
  cursor,  \* device -> "log", or "reset" or "upload" once the provider let it go
  rows,    \* device -> its notes table
  ops,     \* device -> its opQueue table
  eng,     \* device -> where its engine is, and what it has read
  body,    \* the last body a user typed
  spent,   \* bodies a user has replaced or deleted
  acts, faults

vars == <<remote, news, cursor, rows, ops, eng, body, spent, acts, faults>>

Idle == [pc |-> "idle"]
Text(n, k) == [id |-> n, body |-> k]

ASSUME SyncAssumption ==
  /\ NoteIds \subseteq Nat \ {0} /\ Names \subseteq Nat \ {0}
  /\ Start \subseteq NoteIds \cap Names /\ Start = 1..Cardinality(Start)
  /\ Deaths \subseteq {"reset", "upload"}
  /\ {MaxActs, MaxFaults, MaxVersion} \subseteq Nat /\ MoveRenews \in BOOLEAN
  /\ IsFiniteSet(NoteIds) /\ NoFile \notin [id : Nat, version : Nat]

\* What the markers stand beside.
Paths == Seq(Int)
Texts == [id : NoteIds, body : Nat]
RemoteFiles == [path : Paths, text : Texts, version : Nat]
NoteRows == [path : Paths, text : Texts, dirty : BOOLEAN, deleted : BOOLEAN,
             file : [id : Nat, version : Nat] \cup {NoFile}, synced : Texts \cup {NoSynced}]

ASSUME MarkersAssumption ==
  NoRow \notin NoteRows /\ Gone \notin RemoteFiles /\ NoPath \notin Paths /\ NoSynced \notin Texts

Init ==
  /\ remote = [n \in Start |-> [path |-> <<n>>, text |-> Text(n, n), version |-> 0]]
  /\ news = [d \in Devices |-> <<>>]
  /\ cursor = [d \in Devices |-> "log"]
  /\ rows = [d \in Devices |-> [n \in NoteIds |->
       IF n \in Start
       THEN [path |-> <<n>>, text |-> Text(n, n), dirty |-> FALSE, deleted |-> FALSE,
             file |-> [id |-> n, version |-> 0], synced |-> Text(n, n)]
       ELSE NoRow]]
  /\ ops = [d \in Devices |-> {}]
  /\ eng = [d \in Devices |-> Idle]
  /\ body = Cardinality(Start)
  /\ spent = {}
  /\ acts = 0
  /\ faults = 0

-----------------------------------------------------------------------------
(* The remote.                                                               *)

Files == DOMAIN remote
Alive(f) == remote[f] # Gone
FilesAt(p) == {f \in Files : Alive(f) /\ remote[f].path = p}
FileAt(p) == CHOOSE f \in FilesAt(p) : TRUE
EntryOf(f) ==
  IF Alive(f) THEN [id |-> f, path |-> remote[f].path, version |-> remote[f].version, gone |-> FALSE]
              ELSE [id |-> f, path |-> NoPath, version |-> 0, gone |-> TRUE]

\* Every device is told of it, the one that made the change too.
Told(f) == [d \in Devices |-> Append(Only(news[d], Files \ {f}), f)]

RemoteSet(f, file) == remote' = [remote EXCEPT ![f] = file] /\ news' = Told(f)
RemoteSame == UNCHANGED <<remote, news>>

NewVersion(f) == remote[f].version + 1
RemoteWrites(f, text) == RemoteSet(f, [remote[f] EXCEPT !.text = text, !.version = NewVersion(f)])
RemoteMakes(p, text) ==
  /\ remote' = Append(remote, [path |-> p, text |-> text, version |-> 0])
  /\ news' = Told(Len(remote) + 1)
MovedVersion(f) == IF MoveRenews THEN NewVersion(f) ELSE remote[f].version
RemoteMoves(f, p) ==
  /\ MovedVersion(f) <= MaxVersion
  /\ RemoteSet(f, [remote[f] EXCEPT !.path = p, !.version = MovedVersion(f)])

\* The file at a path, under the version it has.
MetAt(p) == FileOf(EntryOf(FileAt(p)))

-----------------------------------------------------------------------------
(* The devices.                                                              *)

Store(d) == [rows |-> rows[d], ops |-> ops[d]]

\* Numbers no op, and no drain under way, refers to.
Seqs(d) == {o.seq : o \in ops[d]} \cup
           (IF "left" \in DOMAIN eng[d] THEN eng[d].left \cup {eng[d].op.seq} ELSE {})
NextOp(d) == 1 + Max(Seqs(d) \cup {0})

\* An id no row, op, file or decision anywhere carries.
IdsIn(e) ==
  CASE e.pc \in {"decide", "apply"} ->
         {c.note : c \in ToSet(e.decided)} \cup {c.copy : c \in ToSet(e.decided)}
    [] "row" \in DOMAIN e -> {e.op.note, e.row.text.id}
    [] OTHER -> {}
UsedIds ==
  {n \in NoteIds : \E d \in Devices : rows[d][n] # NoRow}
    \cup {remote[f].text.id : f \in {g \in Files : Alive(g)}}
    \cup UNION {{o.note : o \in ops[d]} \cup IdsIn(eng[d]) : d \in Devices}
NewId == CHOOSE n \in NoteIds \ UsedIds : \A m \in NoteIds \ UsedIds : n <= m
\* Bound: no more notes are made than there are ids.
IdsLeft == NoteIds \ UsedIds # {}

StoreSet(d, st) == rows' = [rows EXCEPT ![d] = st.rows] /\ ops' = [ops EXCEPT ![d] = st.ops]
StoreSame == UNCHANGED <<rows, ops>>
EngineAt(d, e) == eng' = [eng EXCEPT ![d] = e]
UsersSame == UNCHANGED <<body, spent, acts, faults>>

-----------------------------------------------------------------------------
(* The users (store/notes.ts, store/folders.ts).                             *)

\* No live note of the device is at p.
Free(d, p) == \A n \in NoteIds : Live(rows[d][n]) => rows[d][n].path # p

UserActs(d, newRows, newOps) ==
  /\ acts < MaxActs /\ acts' = acts + 1
  /\ StoreSet(d, [rows |-> newRows, ops |-> newOps])
  /\ UNCHANGED <<remote, news, cursor, eng, faults>>

Saves(d, n, row) ==
  UserActs(d, [rows[d] EXCEPT ![n] = row],
           QueueEdit(ops[d], NextOp(d), n, row, rows[d][n].path))

Edit(d, n) ==
  /\ Live(rows[d][n])
  /\ Saves(d, n, [rows[d][n] EXCEPT !.text.body = body + 1, !.dirty = TRUE])
  /\ body' = body + 1
  /\ spent' = spent \cup {rows[d][n].text.body}

Rename(d, n, p) ==
  /\ Live(rows[d][n]) /\ Free(d, p)
  /\ Saves(d, n, [rows[d][n] EXCEPT !.path = p, !.dirty = TRUE])
  /\ UNCHANGED <<body, spent>>

\* The notebook the note is in renamed: the note goes along, and no text is sent.
Carry(d, n, p) ==
  LET row == [rows[d][n] EXCEPT !.path = p]
  IN  /\ Live(rows[d][n]) /\ Free(d, p)
      /\ UserActs(d, [rows[d] EXCEPT ![n] = row],
                  QueueMove(ops[d], NextOp(d), n, row, rows[d][n].path))
      /\ UNCHANGED <<body, spent>>

Delete(d, n) ==
  LET row == [rows[d][n] EXCEPT !.deleted = TRUE, !.dirty = TRUE]
  IN  /\ Live(rows[d][n])
      /\ UserActs(d, [rows[d] EXCEPT ![n] = row], QueueDelete(ops[d], NextOp(d), n, row))
      /\ spent' = spent \cup {row.text.body}
      /\ UNCHANGED body

Create(d, p) ==
  LET n == NewId
      row == [path |-> p, text |-> Text(n, body + 1), dirty |-> TRUE, deleted |-> FALSE,
              file |-> NoFile, synced |-> NoSynced]
  IN  /\ Free(d, p) /\ IdsLeft
      /\ UserActs(d, [rows[d] EXCEPT ![n] = row], QueueWrite(ops[d], NextOp(d), n, row, NoSeq))
      /\ body' = body + 1
      /\ UNCHANGED spent

UserStep(d) ==
  \/ \E n \in NoteIds : Edit(d, n) \/ Delete(d, n)
  \/ \E n \in NoteIds, b \in Names : Rename(d, n, <<b>>) \/ Carry(d, n, <<b>>)
  \/ \E b \in Names : Create(d, <<b>>)

-----------------------------------------------------------------------------
(* The pull (pull/run.ts).                                                   *)

NoSend == [seq |-> 0]
DrainFrom(d, left) ==
  IF left = {} THEN Idle ELSE [pc |-> "drain", left |-> left, op |-> NoSend]

\* A round begins with what the feed has to say, or with a scan where the
\* cursor is dead, and with the queue as it stands.  Nothing to hear of: push.
StartRound(d) ==
  LET scan    == cursor[d] # "log"
      files   == IF scan THEN Only([f \in Files |-> f], {f \in Files : Alive(f)}) ELSE news[d]
      entries == [i \in DOMAIN files |-> EntryOf(files[i])]
  IN  /\ eng[d].pc = "idle"
      /\ scan \/ news[d] # <<>> \/ ops[d] # {}
      /\ IF scan \/ news[d] # <<>>
         THEN EngineAt(d, [pc |-> "decide", batch |-> BatchOf(entries, ops[d], scan),
                           todo |-> entries, decided |-> <<>>])
         ELSE EngineAt(d, DrainFrom(d, {o.seq : o \in ops[d]}))
      /\ news' = IF scan THEN [news EXCEPT ![d] = <<>>] ELSE news
      /\ StoreSame /\ UsersSame /\ UNCHANGED <<remote, cursor>>

DecideEntry(d) ==
  LET e == eng[d]
  IN  /\ e.pc = "decide" /\ e.todo # <<>> /\ IdsLeft
      /\ EngineAt(d, [e EXCEPT !.todo = Tail(@),
                        !.decided = @ \o Decide(e.batch, rows[d], @, Head(e.todo), remote, NewId)])
      /\ StoreSame /\ UsersSame /\ RemoteSame /\ UNCHANGED cursor

\* A scan's last page, reconciled; a round has nothing to reconcile.
EndDecide(d) ==
  LET e == eng[d]
  IN  /\ e.pc = "decide" /\ e.todo = <<>>
      /\ EngineAt(d, [pc |-> "apply", entries |-> e.batch.entries, decided |->
           IF e.batch.scanning
           THEN e.decided \o Reconcile(e.batch, rows[d], e.decided, cursor[d] = "upload")
           ELSE e.decided])
      /\ StoreSame /\ UsersSame /\ RemoteSame /\ UNCHANGED cursor

\* Mutant: the cursor is where the feed is by now, not where it was read.
UnheardNothing(d, entries) == <<>>

\* Mutant: the changes are stored and the cursor is not.
UnheardStill(d, entries) == news[d]

\* What the feed still has to tell: what has changed since it was read.
Unheard(d, entries) ==
  Only(news[d], {f \in Files : \A e \in ToSet(entries) : e # EntryOf(f)})

\* The changes and the cursor in one transaction, or neither.
Apply(d) ==
  LET e == eng[d]
      done == AppliedAll(Store(d), NextOp(d), e.decided)
  IN  /\ e.pc = "apply"
      /\ IF done.ok
         THEN /\ StoreSet(d, done.st)
              /\ EngineAt(d, DrainFrom(d, {o.seq : o \in done.st.ops}))
              /\ news' = [news EXCEPT ![d] = Unheard(d, e.entries)]
              /\ cursor' = [cursor EXCEPT ![d] = "log"]
         ELSE /\ EngineAt(d, Idle)
              /\ StoreSame /\ UNCHANGED <<news, cursor>>
      /\ UsersSame /\ UNCHANGED remote

-----------------------------------------------------------------------------
(* The push (push/drain.ts, push/notes.ts).                                  *)

Holding(d, op, row) ==
  [pc |-> "sent", left |-> eng[d].left \ {op.seq}, op |-> op, row |-> row,
   file |-> row.file, at |-> row.path, taken |-> {}]

\* One transaction that records what the op achieved; the drain goes on.
Settle(d, seq, after) ==
  /\ StoreSet(d, after)
  /\ EngineAt(d, DrainFrom(d, eng[d].left \ {seq}))
  /\ UsersSame /\ RemoteSame /\ UNCHANGED cursor

\* A request, and what the engine holds once it is answered.
Goes(d, e) == EngineAt(d, e) /\ StoreSame /\ UsersSame /\ UNCHANGED cursor

\* The op is left queued and the round is over.
Fail(d) == Goes(d, Idle) /\ RemoteSame

\* A write over the file held, or a create where none is: taken, refused for
\* what is at the path, or with nothing there to write over.
Lands(d, e, p, held) ==
  \/ /\ held = NoFile /\ FilesAt(p) = {}
     /\ RemoteMakes(p, e.row.text)
     /\ Goes(d, [e EXCEPT !.pc = "landed", !.at = p,
                          !.file = [id |-> Len(remote) + 1, version |-> 0]])
  \/ /\ held # NoFile /\ FilesAt(p) # {} /\ MetAt(p) = held
     /\ RemoteWrites(held.id, e.row.text)
     /\ Goes(d, [e EXCEPT !.pc = "landed", !.at = p,
                          !.file = [held EXCEPT !.version = @ + 1]])
Refused(p, held) == FilesAt(p) # {} /\ MetAt(p) # held
Missing(p, held) == FilesAt(p) = {} /\ held # NoFile
Meets(d, e, p) ==
  Refused(p, e.file) /\ Goes(d, [e EXCEPT !.pc = "met", !.file = MetAt(p), !.at = p]) /\ RemoteSame

\* The op the drain has come to.  One no longer queued is passed over.
Ahead(d, seq) ==
  /\ eng[d].pc = "drain" /\ seq \in eng[d].left
  /\ \A s \in eng[d].left : seq <= s

PassOver(d) ==
  /\ eng[d].pc = "drain"
  /\ \E s \in eng[d].left : Ahead(d, s) /\ ~Queued(ops[d], s) /\ Settle(d, s, Store(d))

\* Nothing to send: no row, no file to move or to delete, or it is gone.
SendNothing(d, op) ==
  LET row == rows[d][op.note]
  IN  /\ Ahead(d, op.seq)
      /\ \/ /\ row # NoRow => op.kind = "move" /\ (row.file # NoFile => ~Alive(row.file.id))
            /\ Settle(d, op.seq, Done(Store(d), op.seq))
         \/ /\ row # NoRow /\ op.kind = "delete" /\ row.file = NoFile
            /\ Settle(d, op.seq, Purged(Store(d), NextOp(d), op.seq, op.note))

Sending(d, op, kind) == Ahead(d, op.seq) /\ op.kind = kind /\ rows[d][op.note] # NoRow

SendWrite(d, op) ==
  LET row == rows[d][op.note]
      e   == Holding(d, op, row)
  IN  /\ Sending(d, op, "write")
      /\ \/ Lands(d, e, row.path, row.file)
         \/ Meets(d, e, row.path)
         \/ /\ Missing(row.path, row.file)
            /\ Goes(d, [e EXCEPT !.pc = "missing"]) /\ RemoteSame

At(d, pc) == eng[d].pc = pc

\* Nothing at the path: is the file alive under its id, and is a rename of the
\* user's, still queued, what took it from there?
LookForOwn(d) ==
  LET e == eng[d]
      explains == \E o \in Moves(ops[d], e.op.note) : o.target = e.row.path
      unchanged == EntryOf(e.row.file.id).version = e.row.file.version
  IN  /\ At(d, "missing")
      /\ IF ~Alive(e.row.file.id) THEN Goes(d, [e EXCEPT !.pc = "create"]) /\ RemoteSame
         ELSE IF explains /\ unchanged THEN Goes(d, [e EXCEPT !.pc = "follow"]) /\ RemoteSame
         ELSE Fail(d)

\* Gone: the note is made again, unless something has taken its path.
CreateAgain(d) ==
  LET e == [eng[d] EXCEPT !.file = NoFile]
  IN  At(d, "create") /\ (Lands(d, e, e.row.path, NoFile) \/ Meets(d, e, e.row.path))

\* Another file is where this one is to go.
Blocked(f, p) == FilesAt(p) \ {f} # {}

\* The user's rename, done before its turn.
Follow(d) ==
  LET e == eng[d]
      f == e.row.file.id
      known == MovedVersion(f) = e.row.file.version
  IN  /\ At(d, "follow")
      /\ \/ ~Alive(f) /\ Fail(d)
         \/ /\ Alive(f) /\ Blocked(f, e.row.path)
            /\ Goes(d, [e EXCEPT !.pc = "met", !.file = MetAt(e.row.path), !.at = e.row.path])
            /\ RemoteSame
         \/ /\ Alive(f) /\ ~Blocked(f, e.row.path)
            /\ RemoteMoves(f, e.row.path)
            /\ Goes(d, [e EXCEPT !.pc = IF known THEN "rewrite" ELSE "followed"])

\* The move handed back a version nobody here has read: the file is read.
AskVersion(d) ==
  LET e == eng[d]  f == e.row.file.id
  IN  /\ At(d, "followed")
      /\ IF Alive(f) /\ remote[f].text = e.row.synced
         THEN Goes(d, [e EXCEPT !.pc = "rewrite", !.file = FileOf(EntryOf(f))]) /\ RemoteSame
         ELSE Fail(d)

Rewrite(d) ==
  LET e == eng[d]
  IN  /\ At(d, "rewrite")
      /\ \/ Lands(d, e, e.row.path, e.file)
         \/ Meets(d, e, e.row.path)
         \/ Missing(e.row.path, e.file) /\ Fail(d)

RecordPush(d) ==
  LET e == eng[d]
  IN  /\ At(d, "landed")
      /\ Settle(d, e.op.seq,
                Pushed(Store(d), NextOp(d), e.op.seq, e.op.note, e.row.text, e.at, e.file))

SendMove(d, op) ==
  LET row == rows[d][op.note]
      e == Holding(d, op, row)
      f == row.file.id
  IN  /\ Sending(d, op, "move") /\ row.file # NoFile /\ Alive(f)
      /\ IF Blocked(f, op.target)
         THEN Goes(d, [e EXCEPT !.pc = "aside"]) /\ RemoteSame
         ELSE /\ RemoteMoves(f, op.target)
              /\ Goes(d, [e EXCEPT !.pc = "moved", !.at = op.target, !.file.version = MovedVersion(f)])

\* The name is not to be had: the file goes beside it.
MoveAside(d) ==
  LET e == eng[d]
      f == e.row.file.id
      p == ConflictPath(e.op.target, {remote[g].path : g \in {h \in Files \ {f} : Alive(h)}})
  IN  /\ At(d, "aside")
      /\ IF ~Alive(f) THEN Fail(d)
         ELSE /\ RemoteMoves(f, p)
              /\ Goes(d, [e EXCEPT !.pc = "moved", !.at = p, !.file.version = MovedVersion(f)])

\* Mutant: the version the move handed back, whatever bytes it is of.
MovedFileUnread(e) == e.file

\* The version the note may hold: one whose bytes are those it last synced.
MovedFile(e) ==
  LET f == e.file.id
  IN  IF e.file.version = e.row.file.version THEN e.file
      ELSE IF Alive(f) /\ remote[f].text = e.row.synced THEN FileOf(EntryOf(f))
      ELSE e.row.file

RecordMove(d) ==
  LET e == eng[d]
  IN  /\ At(d, "moved")
      /\ Settle(d, e.op.seq,
                Moved(Store(d), NextOp(d), e.op.seq, e.op.note, e.at, MovedFile(e)))

\* The delete asks nothing of the file: an edit made to it elsewhere goes too.
SendDelete(d, op) ==
  LET row == rows[d][op.note]
      f == row.file.id
  IN  /\ Sending(d, op, "delete") /\ row.file # NoFile
      /\ EngineAt(d, [Holding(d, op, row) EXCEPT !.pc = "purge"])
      /\ IF Alive(f)
         THEN RemoteSet(f, Gone) /\ spent' = spent \cup {remote[f].text.body}
         ELSE RemoteSame /\ UNCHANGED spent
      /\ StoreSame /\ UNCHANGED <<cursor, body, acts, faults>>

RecordPurge(d) ==
  LET e == eng[d]
  IN  /\ At(d, "purge")
      /\ Settle(d, e.op.seq, Purged(Store(d), NextOp(d), e.op.seq, e.op.note))

-----------------------------------------------------------------------------
(* A write that met another file, or a version it did not expect             *)
(* (push/conflicts.ts).                                                      *)

\* The note is read again, and then the file in the way.
Meet(d) ==
  LET e == eng[d]  f == e.file.id
  IN  /\ At(d, "met")
      /\ IF ~Alive(f) THEN Fail(d)
         ELSE /\ EngineAt(d, [pc |-> "weigh", left |-> e.left, op |-> e.op,
                              row |-> rows[d][e.op.note], file |-> e.file, at |-> e.at,
                              taken |-> {}, text |-> remote[f].text, version |-> remote[f].version])
              /\ StoreSame /\ UsersSame /\ RemoteSame /\ UNCHANGED cursor

\* The note's own file, with the bytes it last synced: nobody has edited it.
OwnUnchanged(e) == Bound(e.row, e.file.id) /\ e.text = e.row.synced

PushOver(d) ==
  LET e == eng[d]
      read == [e.file EXCEPT !.version = e.version]
  IN  /\ At(d, "weigh") /\ OwnUnchanged(e)
      /\ \/ Lands(d, e, e.row.path, read)
         \/ (Refused(e.row.path, read) \/ Missing(e.row.path, read)) /\ Fail(d)

\* The same bytes on both sides: an earlier push landed and was not recorded.
SameBytes(d) ==
  LET e == eng[d]
  IN  /\ At(d, "weigh") /\ ~OwnUnchanged(e) /\ e.text = e.row.text
      /\ Settle(d, e.op.seq,
                Pushed(Store(d), NextOp(d), e.op.seq, e.op.note, e.row.text, e.at, e.file))

Clashes(d) ==
  LET e == eng[d] IN At(d, "weigh") /\ ~OwnUnchanged(e) /\ e.text # e.row.text

\* Mutant: the file is taken without asking whose it is.
HeldByNobody(d) == FALSE

HeldByAnother(d) == \E n \in NoteIds \ {eng[d].op.note} : Bound(rows[d][n], eng[d].file.id)
OwnElsewhere(d) ==
  LET e == eng[d]
  IN  e.row.file # NoFile /\ e.row.file.id # e.file.id /\ Alive(e.row.file.id)

\* The next name free here, taken before it is tried on the remote.
TakeName(d, taken) ==
  LET e == eng[d]
      p == ConflictPath(e.row.path, PathsOf(rows[d]) \cup taken)
      c == DisplaceOf(e.op.note, p)
  IN  /\ StoreSet(d, DisplaceNote(DetachNote(Store(d), c), c))
      /\ EngineAt(d, [e EXCEPT !.pc = "setaside", !.at = p, !.taken = taken \cup {p}])
      /\ UsersSame /\ RemoteSame /\ UNCHANGED cursor

\* Another note's file is there and this one has none: it goes up beside it.
SetAside(d) ==
  Clashes(d) /\ HeldByAnother(d) /\ ~OwnElsewhere(d) /\ TakeName(d, {})

CreateAside(d) ==
  LET e == [eng[d] EXCEPT !.file = NoFile]
  IN  /\ At(d, "setaside")
      /\ Lands(d, e, e.at, NoFile) \/ (Refused(e.at, NoFile) /\ TakeName(d, e.taken))

\* It has a file of its own elsewhere: out of the way, and the op tried again.
StepAside(d) ==
  LET e == eng[d]
      there == {remote[f].path : f \in {g \in Files : Alive(g)}}
      c == DisplaceOf(e.op.note, ConflictPath(e.row.path, PathsOf(rows[d]) \cup there))
  IN  /\ Clashes(d) /\ OwnElsewhere(d)
      /\ StoreSet(d, DisplaceNote(Store(d), c))
      /\ EngineAt(d, Idle)
      /\ UsersSame /\ RemoteSame /\ UNCHANGED cursor

\* Two versions of one note: the remote keeps the path, the edit a copy.
Resolve(d) ==
  LET e == eng[d]
      met == [id |-> e.file.id, path |-> e.at, version |-> e.file.version]
      c == ConflictOf(e.op.note, met, e.text, NewId, ConflictPath(e.at, PathsOf(rows[d])))
  IN  /\ Clashes(d) /\ ~HeldByAnother(d) /\ ~OwnElsewhere(d) /\ IdsLeft
      /\ Settle(d, e.op.seq, WithOwnId(ResolveConflict(Store(d), NextOp(d), e.op.seq, c), c))

-----------------------------------------------------------------------------
(* What goes wrong, and the whole.                                           *)

\* A request or its answer lost, the tab closed, a token gone: the round ends,
\* and what it had not committed is forgotten.
Interrupted(d) ==
  /\ faults < MaxFaults /\ faults' = faults + 1
  /\ eng[d].pc # "idle"
  /\ EngineAt(d, Idle)
  /\ StoreSame /\ RemoteSame /\ UNCHANGED <<cursor, body, spent, acts>>

\* The feed is behind: a round hears nothing of what has changed, and pushes.
FeedLags(d) ==
  /\ faults < MaxFaults /\ faults' = faults + 1
  /\ eng[d].pc = "idle" /\ cursor[d] = "log" /\ news[d] # <<>> /\ ops[d] # {}
  /\ EngineAt(d, DrainFrom(d, {o.seq : o \in ops[d]}))
  /\ StoreSame /\ RemoteSame /\ UNCHANGED <<cursor, body, spent, acts>>

\* The provider lets go of the cursor; it may say its own copy lost something.
CursorDies(d, how) ==
  /\ faults < MaxFaults /\ faults' = faults + 1
  /\ eng[d].pc = "idle" /\ cursor[d] = "log"
  /\ cursor' = [cursor EXCEPT ![d] = how]
  /\ StoreSame /\ RemoteSame /\ UNCHANGED <<eng, body, spent, acts>>

Pull(d) == StartRound(d) \/ DecideEntry(d) \/ EndDecide(d) \/ Apply(d)
Push(d) ==
  \/ PassOver(d)
  \/ \E op \in ops[d] :
       SendNothing(d, op) \/ SendWrite(d, op) \/ SendMove(d, op) \/ SendDelete(d, op)
  \/ LookForOwn(d) \/ CreateAgain(d) \/ Follow(d) \/ AskVersion(d) \/ Rewrite(d)
  \/ MoveAside(d) \/ RecordPush(d) \/ RecordMove(d) \/ RecordPurge(d)
Conflicted(d) ==
  Meet(d) \/ PushOver(d) \/ SameBytes(d) \/ SetAside(d) \/ CreateAside(d) \/ StepAside(d) \/ Resolve(d)
EngineStep(d) == Pull(d) \/ Push(d) \/ Conflicted(d)

Next == \E d \in Devices :
  \/ UserStep(d) \/ EngineStep(d)
  \/ Interrupted(d) \/ FeedLags(d) \/ \E how \in Deaths : CursorDies(d, how)

Spec == Init /\ [][Next]_vars

\* A round that can begin or go on does (the scheduler polls and retries).
FairSpec == Spec /\ \A d \in Devices : WF_vars(EngineStep(d))

-----------------------------------------------------------------------------
(* Properties.                                                               *)

\* A row that holds the version a file has now last synced the very text the
\* file has: the pull will not read the file, and a push will write over it
\* unasked (versionAfterMove, decideKnown, resolvePushConflict).
InStep ==
  \A d \in Devices, n \in NoteIds, f \in Files :
    Bound(rows[d][n], f) /\ Alive(f) /\ rows[d][n].file.version = remote[f].version
      => rows[d][n].synced = remote[f].text

\* What a user typed and has not replaced or deleted is in a live note of some
\* device or in a file of the remote, wherever the engines are (CLAUDE.md's
\* "never lose user data").
NoEditLost ==
  \A b \in 1..body :
    \/ b \in spent
    \/ \E d \in Devices, n \in NoteIds : Live(rows[d][n]) /\ rows[d][n].text.body = b
    \/ \E f \in Files : Alive(f) /\ remote[f].text.body = b

Twice(d, f) == Cardinality(HoldersOf(rows[d], f)) > 1

\* No pull, push, retry or restart binds a second row of a device to a file another
\* row holds: noteByRemoteId would hand back one of the two, and the other would be
\* stale for ever (noteForEntry, MayClaim, resolvePushConflict, settle).  But for one
\* step: a write that met the very bytes it was to send takes the file for its own
\* whoever holds it.  ARCHITECTURE.md and the comment in resolvePushConflict know no
\* such exception; the code asks who holds the file only where the bytes differ.
NoSecondRow ==
  [][\A d \in Devices : SameBytes(d) \/ \A f \in DOMAIN remote' : Twice(d, f)' => f \in Files /\ Twice(d, f)]_vars

Quiet ==
  \A d \in Devices : eng[d].pc = "idle" /\ ops[d] = {} /\ news[d] = <<>> /\ cursor[d] = "log"

\* With nothing queued, heard of or under way, every device holds the remote's
\* files, each in a live note with its text, and nothing else.
QuietAgree ==
  Quiet => \A d \in Devices :
    /\ \A f \in Files : Alive(f) => HoldersOf(rows[d], f) # {}
    /\ \A n \in NoteIds : rows[d][n] # NoRow =>
         /\ Live(rows[d][n]) /\ ~rows[d][n].dirty /\ rows[d][n].file # NoFile
         /\ Alive(rows[d][n].file.id)
         /\ rows[d][n].text = remote[rows[d][n].file.id].text

\* Once the users stop, everything becomes quiet and stays so.
Settles == <>[]Quiet
=============================================================================

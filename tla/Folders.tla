------------------------------- MODULE Folders -------------------------------
(* One device and a remote somebody else changes: folders and notes made,    *)
(* edited, moved and deleted there, told by a feed, pulled here while the    *)
(* user edits notes, moves them and moves, deletes and makes notebooks.  The *)
(* device does not push, so what the user did stays queued.                  *)
(*                                                                           *)
(* The remote is what the adapters make of two kinds of provider.  A "paths" *)
(* feed (Dropbox's) tells what happened in order, a deletion by its path, a  *)
(* move as the old path gone and everything at its new one.  An "ids" feed   *)
(* (OneDrive's and Google Drive's, idTree.ts) tells each thing that changed  *)
(* as it now is, folders first, a deletion by its id and where it was.       *)
(*                                                                           *)
(* What is simplified, beyond what FolderPull leaves out: an action of the   *)
(* user's that would land a note on another is not taken (freePath); mkdir   *)
(* ops are left out, which no pull reads; a round is one page, and decided   *)
(* in one step (NoteSync decides entry by entry, with the rest between).     *)
EXTENDS FolderPull

CONSTANTS
  Worlds,    \* [feed, start]: the kind of feed, "paths" or "ids", and the folders
             \* and the files there are at first, a sequence of [kind, path]
  Dirs,      \* positive integers: names of folders
  Notes,     \* positive integers: names of notes
  MaxDepth,  \* bound: names in a folder's path
  MaxSteps,  \* bound: what the remote's users and this one do, together
  MaxActs    \* bound: what this device's user does

VARIABLES
  feed,    \* which kind of feed the remote has
  remote,  \* the nodes ever made: [kind, path, text, version], or Gone
  news,    \* what has happened there since the cursor
  known,   \* where things were at the cursor (the id tree's)
  rows, folders, ops,  \* the notes, folders and opQueue tables
  eng,     \* where the engine is, and what it has read and decided
  typed,   \* whether there is an edit here that the user has not discarded
  far, acts,
  refilled \* history: a round put a folder in the place of one it deleted

vars == <<feed, remote, news, known, rows, folders, ops, eng, typed, far, acts, refilled>>

ASSUME FoldersAssumption ==
  /\ NoteIds \subseteq Nat \ {0} /\ Dirs \cup Notes \subseteq Nat \ {0}
  /\ {MaxDepth, MaxSteps, MaxActs} \subseteq Nat
  /\ \A w \in Worlds : /\ w.feed \in {"paths", "ids"}
                       /\ \A k \in DOMAIN w.start : w.start[k].kind = "file" => k \in NoteIds

Idle == [pc |-> "idle"]
Typed == -1
Text(n, k) == [id |-> n, body |-> k]
Node(kind, p, n) == [kind |-> kind, path |-> p, text |-> Text(n, 0), version |-> 0]

There(k) == remote[k] # Gone
Nodes == {k \in DOMAIN remote : There(k)}
Kind(kind) == {k \in Nodes : remote[k].kind = kind}
NodesIn(tree, p) == {k \in DOMAIN tree : tree[k] # Gone /\ Within(tree[k].path, p)}
PlacesOf(tree) == [k \in DOMAIN tree |-> IF tree[k] = Gone THEN NoPath ELSE tree[k].path]

Begins(start) ==
  /\ remote = [k \in DOMAIN start |-> Node(start[k].kind, start[k].path, k)]
  /\ rows = [n \in NoteIds |->
       IF n \in DOMAIN start /\ start[n].kind = "file"
       THEN [path |-> start[n].path, text |-> Text(n, 0), dirty |-> FALSE, deleted |-> FALSE,
             file |-> [id |-> n, version |-> 0], synced |-> Text(n, 0)]
       ELSE NoRow]

Init ==
  /\ \E w \in Worlds : feed = w.feed /\ Begins(w.start)
  /\ news = <<>>
  /\ known = PlacesOf(remote)
  /\ folders = {[path |-> remote[k].path, id |-> k] : k \in Kind("folder")}
  /\ ops = {}
  /\ eng = Idle
  /\ typed = FALSE
  /\ far = 0 /\ acts = 0
  /\ refilled = FALSE

-----------------------------------------------------------------------------
(* The remote.                                                               *)

LiveEntry(tree, k) ==
  [kind |-> tree[k].kind, id |-> k, path |-> tree[k].path, version |-> tree[k].version, gone |-> FALSE]
GoneEntry(id, p) == [kind |-> "gone", id |-> id, path |-> p, version |-> 0, gone |-> TRUE]

Inside(k) == SetToSortSeq(NodesIn(remote, remote[k].path) \ {k}, <)

\* A "paths" feed tells entries, and an "ids" feed which nodes to look at.
FarStep(tree, told, k) ==
  /\ far' = far + 1
  /\ remote' = tree
  /\ news' = news \o (IF feed = "paths" THEN told ELSE <<k>>)
  /\ UNCHANGED <<feed, known, rows, folders, ops, eng, typed, acts, refilled>>

FreeThere(p) ==
  /\ \A k \in Nodes : remote[k].path # p
  /\ Parent(p) = Root \/ \E k \in Kind("folder") : remote[k].path = Parent(p)

FarMake(kind, p) ==
  LET k == Len(remote) + 1
      tree == Append(remote, Node(kind, p, k))
  IN  FreeThere(p) /\ FarStep(tree, <<LiveEntry(tree, k)>>, k)

FarEdit(k) ==
  LET tree == [remote EXCEPT ![k] = [@ EXCEPT !.version = @ + 1, !.text.body = far + 1]]
  IN  k \in Kind("file") /\ FarStep(tree, <<LiveEntry(tree, k)>>, k)

\* What is inside goes along; the thing itself has a new version.
FarMove(k, p) ==
  LET from == remote[k].path
      under == NodesIn(remote, from)
      tree == [j \in DOMAIN remote |->
                 IF j \notin under THEN remote[j]
                 ELSE [remote[j] EXCEPT !.path = Rebase(@, from, p),
                                        !.version = IF j = k THEN @ + 1 ELSE @]]
      along == [i \in DOMAIN Inside(k) |-> LiveEntry(tree, Inside(k)[i])]
  IN  /\ FreeThere(p) /\ ~Within(p, from)
      /\ FarStep(tree, <<GoneEntry(NoId, from), LiveEntry(tree, k)>> \o along, k)

FarDelete(k) ==
  LET under == NodesIn(remote, remote[k].path)
      tree == [j \in DOMAIN remote |-> IF j \in under THEN Gone ELSE remote[j]]
      along == [i \in DOMAIN Inside(k) |-> GoneEntry(NoId, remote[Inside(k)[i]].path)]
  IN  FarStep(tree, Append(along, GoneEntry(NoId, remote[k].path)), k)

Places(names) == {<<x>> : x \in names} \cup {<<d, x>> : d \in Dirs, x \in names}
DirPlaces == {p \in Places(Dirs) : Len(p) <= MaxDepth}
Fits(p) == Len(p) <= MaxDepth
FarMoveFolder(k, p) ==
  /\ k \in Kind("folder")
  /\ \A j \in NodesIn(remote, remote[k].path) \cap Kind("folder") :
       Fits(Rebase(remote[j].path, remote[k].path, p))
  /\ FarMove(k, p)

Far ==
  /\ far + acts < MaxSteps
  /\ \/ \E p \in DirPlaces : FarMake("folder", p) \/ \E k \in Nodes : FarMoveFolder(k, p)
     \/ \E p \in Places(Notes) : FarMake("file", p) \/ \E k \in Kind("file") : FarMove(k, p)
     \/ \E k \in Nodes : FarEdit(k) \/ FarDelete(k)

-----------------------------------------------------------------------------
(* The user (store/folders.ts, store/notes.ts).                              *)

\* Behind everything a queue holds.
Behind(queue) == 1 + Max({0} \cup {o.seq : o \in queue})
NextOp == Behind(ops)
RmdirOp(s, p, id) ==
  [seq |-> s, kind |-> "rmdir", note |-> NoNote, path |-> p, target |-> NoPath, id |-> id]

UserStep ==
  /\ acts' = acts + 1
  /\ UNCHANGED <<feed, remote, news, known, eng, far, refilled>>

LiveAt(p) == {n \in NotesAt(rows, p) : Live(rows[n])}
NotesIn(p) == {n \in NoteIds : rows[n] # NoRow /\ Within(rows[n].path, p)}
FoldersIn(p) == {f \in folders : Within(f.path, p)}

QueueMoves(queue, moved, notes) ==
  FoldLeft(LAMBDA q, n : QueueMove(q, Behind(q), n, moved[n], rows[n].path), queue,
           SetToSortSeq(notes, <))

QueueDeletes(queue, gone, notes) ==
  FoldLeft(LAMBDA q, n : QueueDelete(q, Behind(q), n, gone[n]), queue, SetToSortSeq(notes, <))

\* The directories left behind, each by the id it had, after what empties them.
QueueRmdirs(queue, leaving) ==
  FoldLeft(LAMBDA q, f :
             IF f.id = NoId \/ \E o \in q : o.kind = "rmdir" /\ o.id = f.id /\ o.path = f.path
             THEN q ELSE q \cup {RmdirOp(Behind(q), f.path, f.id)},
           queue, SetToSortSeq(leaving, LAMBDA f, g : Len(f.path) < Len(g.path)))

\* A notebook made at p is what an rmdir there, or above, must leave alone.
WithdrawRmdirs(queue, paths) ==
  queue \ {o \in queue : o.kind = "rmdir" /\ \E p \in paths : o.path \in {p} \cup Above(p)}

EditNote(n) ==
  /\ UserStep
  /\ Live(rows[n]) /\ ~typed
  /\ LET row == [rows[n] EXCEPT !.text.body = Typed, !.dirty = TRUE]
     IN  /\ rows' = [rows EXCEPT ![n] = row]
         /\ ops' = QueueWrite(ops, NextOp, n, row, NoSeq)
  /\ typed' = TRUE
  /\ UNCHANGED folders

\* To another notebook that is here: a rename and, as every save, a write.
MoveNoteTo(n, p) ==
  /\ UserStep
  /\ Live(rows[n]) /\ Parent(p) # Parent(rows[n].path) /\ Base(p) = Base(rows[n].path)
  /\ Parent(p) = Root \/ RowAt(folders, Parent(p)) # {}
  /\ LiveAt(p) = {}
  /\ LET row == [rows[n] EXCEPT !.path = p, !.dirty = TRUE]
     IN  /\ rows' = [rows EXCEPT ![n] = row]
         /\ ops' = QueueEdit(ops, NextOp, n, row, rows[n].path)
  /\ UNCHANGED <<folders, typed>>

\* The notes go one by one, and the rows lose the ids of what stays behind.
RenameNotebook(from, to) ==
  LET moving == FoldersIn(from)
      moved == {[path |-> Rebase(f.path, from, to), id |-> NoId] : f \in moving}
      after == [n \in NoteIds |-> IF n \in NotesIn(from)
                                  THEN [rows[n] EXCEPT !.path = Rebase(@, from, to)] ELSE rows[n]]
      made == FolderChain(folders \ moving, to) \cup moved
  IN  /\ UserStep
      /\ RowAt(folders, from) # {}
      /\ ~Within(to, from) /\ FoldersIn(to) \subseteq moving
      /\ Parent(to) = Root \/ RowAt(folders, Parent(to)) # {}
      /\ \A f \in moved : Fits(f.path)
      /\ NotesIn(to) \subseteq NotesIn(from)
      /\ rows' = after
      /\ folders' = made
      /\ ops' = QueueRmdirs(QueueMoves(WithdrawRmdirs(ops, {f.path : f \in made \ folders}),
                                       after, NotesIn(from)),
                            moving)
      /\ UNCHANGED typed

DeleteNotebook(p) ==
  LET gone == {n \in NotesIn(p) : Live(rows[n])}
      after == [n \in NoteIds |-> IF n \in gone THEN [rows[n] EXCEPT !.deleted = TRUE, !.dirty = TRUE]
                                  ELSE rows[n]]
  IN  /\ UserStep
      /\ RowAt(folders, p) # {}
      /\ rows' = after
      /\ folders' = folders \ FoldersIn(p)
      /\ ops' = QueueRmdirs(QueueDeletes(ops, after, gone), FoldersIn(p))
      /\ typed' = (typed /\ \A n \in gone : rows[n].text.body # Typed)

MakeNotebook(p) ==
  /\ UserStep
  /\ RowAt(folders, p) = {} /\ NotesIn(p) = {}
  /\ Parent(p) = Root \/ RowAt(folders, Parent(p)) # {}
  /\ folders' = FolderChain(folders, p)
  /\ ops' = WithdrawRmdirs(ops, {p})
  /\ UNCHANGED <<rows, typed>>

User ==
  /\ acts < MaxActs /\ far + acts < MaxSteps
  /\ \/ \E n \in NoteIds : EditNote(n) \/ \E p \in Places(Notes) : MoveNoteTo(n, p)
     \/ \E p \in DirPlaces : DeleteNotebook(p) \/ MakeNotebook(p)
     \/ \E from, to \in DirPlaces : RenameNotebook(from, to)

-----------------------------------------------------------------------------
(* The engine: a round fetched, decided and applied (pull/run.ts).           *)

\* What an "ids" feed makes of the nodes that changed (settlePage).
PageOf(changed) ==
  LET last == SelectSeq([i \in DOMAIN changed |-> i],
                        LAMBDA i : \A j \in DOMAIN changed : j > i => changed[j] # changed[i])
      ids == [i \in DOMAIN last |-> changed[last[i]]]
      EntryOf(k) == IF There(k) THEN LiveEntry(remote, k)
                    ELSE GoneEntry(k, IF k \in DOMAIN known THEN known[k] ELSE NoPath)
      entries == [i \in DOMAIN ids |-> EntryOf(ids[i])]
      IsFolder(e) == e.kind = "folder"
      IsOther(e) == e.kind # "folder"
      dirs == SortSeq(SelectSeq(entries, IsFolder), LAMBDA d, e : Len(d.path) < Len(e.path))
  IN  dirs \o SelectSeq(entries, IsOther)

EngineOnly == UNCHANGED <<feed, remote, typed, far, acts>>

Fetch ==
  /\ eng.pc = "idle" /\ news # <<>>
  /\ eng' = [pc |-> "decide", heard |-> Len(news), places |-> PlacesOf(remote),
             entries |-> IF feed = "paths" THEN news ELSE PageOf(news)]
  /\ EngineOnly /\ UNCHANGED <<news, known, rows, folders, ops, refilled>>

\* A folder listed under the path of something the round deletes by its id.
Refills(entries) ==
  \E e, d \in ToSet(entries) :
    /\ e.kind = "folder" /\ d.gone /\ d.id # NoId
    /\ e.path # d.path /\ d.path # NoPath /\ Within(e.path, d.path)

Decides ==
  /\ eng.pc = "decide"
  /\ eng' = [pc |-> "apply", heard |-> eng.heard, places |-> eng.places,
             decided |-> DecideRound(rows, folders, ops, remote, eng.entries)]
  /\ refilled' = (refilled \/ Refills(eng.entries))
  /\ EngineOnly /\ UNCHANGED <<news, known, rows, folders, ops>>

\* The changes and the cursor in one transaction, or neither.
Apply ==
  LET done == ApplyRound([rows |-> rows, ops |-> ops, folders |-> folders], eng.decided)
  IN  /\ eng.pc = "apply"
      /\ IF done.ok
         THEN /\ rows' = done.st.rows /\ ops' = done.st.ops /\ folders' = done.st.folders
              /\ news' = SubSeq(news, eng.heard + 1, Len(news))
              /\ known' = eng.places
         ELSE UNCHANGED <<rows, ops, folders, news, known>>
      /\ eng' = Idle
      /\ EngineOnly /\ UNCHANGED refilled

Pull == Fetch \/ Decides \/ Apply

Next == Far \/ User \/ Pull

Spec == Init /\ [][Next]_vars

-----------------------------------------------------------------------------
(* Properties.                                                               *)

Heard == eng.pc = "idle" /\ news = <<>>

MirrorsExactly ==
  /\ {[path |-> rows[n].path, id |-> rows[n].file.id, body |-> rows[n].text.body] :
        n \in {m \in NoteIds : rows[m] # NoRow}}
       = {[path |-> remote[k].path, id |-> k, body |-> remote[k].text.body] : k \in Kind("file")}
  /\ folders = {[path |-> remote[k].path, id |-> k] : k \in Kind("folder")}

\* A device whose user has done nothing holds, once it has heard everything,
\* exactly what the remote does: every note at its path, and every folder
\* (tests/sync/randomRemote.test.ts:25-28).
HoldsExactly == Heard /\ acts = 0 => MirrorsExactly

\* The same where no round put a folder in the place of one it deletes.
Followed == Heard /\ acts = 0 /\ ~refilled => MirrorsExactly

\* Of what is under a notebook the user has removed, the rmdir not yet run,
\* nothing here says where it goes, nor, of an "ids" feed, that it is gone.
Parted(p) == \E o \in ops : /\ o.kind = "rmdir"
                            /\ \/ Within(p, o.path)
                               \/ There(o.id) /\ Within(p, remote[o.id].path)

HeldOnce(k) == Cardinality(HoldersOf(rows, k)) = 1 \/ Parted(remote[k].path)
WhereItsFileIs(n) ==
  LET k == rows[n].file.id
  IN  \/ Parted(rows[n].path)
      \/ There(k) /\ (rows[n].path = remote[k].path \/ Parted(remote[k].path))
Known(k) ==
  \/ \E f \in folders : f.path = remote[k].path /\ f.id \in {k, NoId}
  \/ Parted(remote[k].path)

\* Whatever the user did meanwhile, once everything is heard every file there is
\* one note's here, a note nobody here renamed is where its file is, and a folder
\* there is a notebook here, unless the user has removed it (decideAll,
\* applyChanges: a batch decided before what the user did, applied after).
Mirrored ==
  Heard /\ ~refilled =>
    /\ \A k \in Kind("file") : HeldOnce(k)
    /\ \A n \in NoteIds : Live(rows[n]) /\ rows[n].file # NoFile /\ Moves(ops, n) = {} =>
                            WhereItsFileIs(n)
    /\ \A k \in Kind("folder") : Known(k)

\* What the user typed and has not discarded is in a live note that owes it,
\* whatever folder is moved or deleted over it (deleteFolder, sync/store.ts).
EditKept ==
  typed => \E n \in NoteIds : /\ Live(rows[n]) /\ rows[n].dirty /\ rows[n].text.body = Typed
                              /\ Writes(ops, n) # {}
=============================================================================

------------------------------- MODULE NotePull -------------------------------
(* How a pull decides what a batch of remote entries does to the notes of    *)
(* one device: constant-level operators over the rows of the store, the      *)
(* changes decided so far and the files of the remote.  NoteSync runs them,  *)
(* one entry at a time, with the user and the other device at work between.  *)
(*                                                                           *)
(* What is simplified:                                                       *)
(*   - what an entry says of a folder is decided in FolderPull, and what a   *)
(*     decided folder change does to the notes is here;                      *)
(*   - every file is a note that can be read as text;                        *)
(*   - a feed says one thing of each file, its last word; a deletion told by *)
(*     the path is decided in FolderPull, one told by its id alone here;     *)
(*   - every conflict happens within one minute, the worst case for names.   *)
EXTENDS NoteQueue, Sequences, SequencesExt

CONSTANTS NoteIds,   \* positive integers: the ids notes have in frontmatter
          Gone       \* what the remote holds under the id of a deleted file

NoNote == 0

\* The lowest first.
InOrder(S) == [i \in 1..Cardinality(S) |-> CHOOSE n \in S : Cardinality({m \in S : m < n}) = i - 1]

\* What of q is in S, in order.
Only(q, S) ==
  LET upTo[i \in 0..Len(q)] ==
        IF i = 0 THEN <<>> ELSE IF q[i] \in S THEN Append(upTo[i - 1], q[i]) ELSE upTo[i - 1]
  IN  upTo[Len(q)]

\* A path is a sequence of names, outermost first, each a positive number with
\* the conflict suffixes it carries behind it, as negative ones.  The root is
\* empty.
Root == <<>>
Within(p, folder) ==
  /\ IsPrefix(folder, p)
  /\ Len(p) = Len(folder) \/ p[Len(folder) + 1] > 0
Rebase(p, from, to) == to \o SubSeq(p, Len(from) + 1, Len(p))
Parent(p) == SubSeq(p, 1, Max({i \in DOMAIN p : p[i] > 0}) - 1)

\* The free one with the lowest number, as conflictPath makes them.
ConflictPath(p, taken) ==
  LET Free(k) == Append(p, -k) \notin taken
  IN  Append(p, -(CHOOSE k \in 1..(Cardinality(taken) + 1) :
                    Free(k) /\ \A j \in 1..(k - 1) : ~Free(j)))

FileOf(e) == [id |-> e.id, version |-> e.version]
Bound(row, f) == row # NoRow /\ row.file # NoFile /\ row.file.id = f
HoldersOf(rows, f) == {n \in NoteIds : Bound(rows[n], f)}
NotesAt(rows, p) == {n \in NoteIds : rows[n] # NoRow /\ rows[n].path = p}
PathsOf(rows) == {rows[n].path : n \in {m \in NoteIds : rows[m] # NoRow}}

\* The live note at the path, or else the tombstone there.
NoteByPath(rows, p) ==
  LET at == NotesAt(rows, p)
      live == {n \in at : Live(rows[n])}
  IN  IF at = {} THEN NoNote
      ELSE IF live # {} THEN CHOOSE n \in live : TRUE ELSE CHOOSE n \in at : TRUE

-----------------------------------------------------------------------------
(* The changes, and where the notes are once those decided are applied.      *)

Change(kind, n) ==
  [kind |-> kind, note |-> n, path |-> NoPath, text |-> NoSynced, file |-> NoFile,
   synced |-> NoSynced, copy |-> n, copyPath |-> NoPath]

UpsertOf(n, e, text) ==
  [Change("upsert", n) EXCEPT !.path = e.path, !.text = text, !.file = FileOf(e)]
AdoptOf(n, e, synced) ==
  [Change("adopt", n) EXCEPT !.path = e.path, !.file = FileOf(e), !.synced = synced]
MoveOf(n, e, synced) == [AdoptOf(n, e, synced) EXCEPT !.kind = "move"]
ConflictOf(n, e, text, copy, copyPath) ==
  [UpsertOf(n, e, text) EXCEPT !.kind = "conflict", !.copy = copy, !.copyPath = copyPath]
DisplaceOf(n, p) == [Change("displace", n) EXCEPT !.path = p]

\* A folder moved, or deleted but for the notes in keep; `was` is where it stood
\* before the batch.
FolderChange(kind, p, to, id) == [kind |-> kind, path |-> p, to |-> to, id |-> id,
                                  was |-> p, keep |-> {}]

CarriedTo(p, c) == IF p # NoPath /\ Within(p, c.path) THEN Rebase(p, c.path, c.to) ELSE p

MoveFolder(st, c) ==
  [rows |-> [n \in DOMAIN st.rows |->
               IF st.rows[n] = NoRow THEN NoRow ELSE [st.rows[n] EXCEPT !.path = CarriedTo(@, c)]],
   ops  |-> {[o EXCEPT !.path = CarriedTo(@, c), !.target = CarriedTo(@, c)] : o \in st.ops}]

\* Mutant: the unsent go as well.
CascadeOverAll(st, p, spared) ==
  [rows |-> [n \in DOMAIN st.rows |->
               IF st.rows[n] # NoRow /\ n \notin spared /\ Within(st.rows[n].path, p)
               THEN NoRow ELSE st.rows[n]],
   ops  |-> st.ops]

\* A folder takes its notes with it, but for the unsent, which are cut loose.
Cascade(st, p, spared) ==
  LET Taken(n) == n \notin spared /\ Within(st.rows[n].path, p)
      Left(n) == IF Unsent(st.rows[n]) THEN WithoutRemote(st.rows[n]) ELSE NoRow
  IN  [rows |-> [n \in DOMAIN st.rows |->
                   IF st.rows[n] # NoRow /\ Taken(n) THEN Left(n) ELSE st.rows[n]],
       ops  |-> st.ops]

\* A conflict's copy carries an id of its own (conflictContent).
WithOwnId(st, c) ==
  IF st.rows[c.copy] = NoRow THEN st ELSE [st EXCEPT !.rows[c.copy].text.id = c.copy]

Applied1(st, s, c) ==
  CASE c.kind = "conflict"      -> WithOwnId(ApplyChange(st, s, c), c)
    [] c.kind = "move-folder"   -> MoveFolder(st, c)
    [] c.kind = "delete-folder" -> Cascade(st, c.path, c.keep)
    [] c.kind = "ensure-folder" -> st
    [] OTHER                    -> ApplyChange(st, s, c)

\* The store takes a batch whole or refuses it whole.
TakesNext(a, c) ==
  IF a.ok /\ Takes(a.st, c)
  THEN LET after == Applied1(a.st, a.next, c)
       IN  [st |-> after, next |-> NextSeq(after.ops, a.next), ok |-> TRUE]
  ELSE [a EXCEPT !.ok = FALSE]

AppliedAll(st, s, changes) ==
  LET upTo[i \in 0..Len(changes)] ==
        IF i = 0 THEN [st |-> st, next |-> s, ok |-> TRUE] ELSE TakesNext(upTo[i - 1], changes[i])
  IN  upTo[Len(changes)]

\* Every decision is reached against the rows as they will be (placement).
After(rows, decided) ==
  LET upTo[i \in 0..Len(decided)] ==
        IF i = 0 THEN [rows |-> rows, ops |-> {}] ELSE Applied1(upTo[i - 1], 0, decided[i])
  IN  upTo[Len(decided)].rows

ForgetNote(rows, n) == Change(IF Unsent(rows[n]) THEN "detach" ELSE "delete", n)
KeepNote(rows, n)   == Change(IF Unsent(rows[n]) THEN "detach" ELSE "reupload", n)

-----------------------------------------------------------------------------
(* A batch: its entries, and what the queue said when it began.              *)

\* entries [id, path, version, gone]; renaming pairs a note with the path its
\* file is still at.
BatchOf(entries, ops, scanning) ==
  LET Oldest(n) == CHOOSE o \in Moves(ops, n) : \A r \in Moves(ops, n) : o.seq <= r.seq
  IN  [entries  |-> entries,
       scanning |-> scanning,
       renaming |-> {[note |-> o.note, from |-> Oldest(o.note).path] :
                       o \in {r \in ops : r.kind = "move"}},
       deleting |-> {o.note : o \in {r \in ops : r.kind = "delete"}}]

LiveIn(b)   == {e \in ToSet(b.entries) : ~e.gone}
DoomedIn(b) == {e.id : e \in ToSet(b.entries) \ LiveIn(b)}
DoomedPaths(b) == {e.path : e \in ToSet(b.entries) \ LiveIn(b)} \ {NoPath}
Renaming(b, n) == \E r \in b.renaming : r.note = n

\* Names the batch brings a file to, and the old ones of renames queued here.
ClaimedPaths(b) == {e.path : e \in LiveIn(b)} \cup {r.from : r \in b.renaming}

\* Names a copy or a displacement must not take.
TakenIn(b, after, decided) ==
  PathsOf(after) \cup ClaimedPaths(b)
    \cup {c.path : c \in {x \in ToSet(decided) : x.kind = "displace"}}
    \cup {c.copyPath : c \in {x \in ToSet(decided) : x.kind = "conflict"}}

Reestablished(decided) ==
  LET back == {c \in ToSet(decided) : c.kind \in {"upsert", "adopt", "move", "conflict"}}
  IN  {c.note : c \in back} \cup {c.copy : c \in back}

\* Whether a note found at the entry's path, by its path alone, may become the
\* entry's file.  Asked of the provider only where nothing else can say.
MayClaim(b, rows, after, remote, e, n) ==
  LET at  == IF after[n] = NoRow THEN NoPath ELSE after[n].path
      own == rows[n].file
  IN  /\ at \in {NoPath, e.path}
      /\ own # NoFile => \A live \in LiveIn(b) : live.id # own.id
      /\ n \notin b.deleting
      /\ at # NoPath =>
           /\ ~Renaming(b, n)
           /\ \/ own = NoFile
              \/ b.scanning
              \/ own.id \in DoomedIn(b)
              \/ e.path \in DoomedPaths(b)
              \/ remote[own.id] = Gone

\* The note an entry is about: by the file's id, or else by the path.
NoteForEntry(b, rows, after, remote, e) ==
  LET byId   == HoldersOf(rows, e.id)
      byPath == NoteByPath(rows, e.path)
  IN  IF byId # {} THEN CHOOSE n \in byId : TRUE
      ELSE IF byPath # NoNote /\ MayClaim(b, rows, after, remote, e, byPath) THEN byPath
      ELSE NoNote

\* The notes at p moved aside, each name taken before the next is chosen.
DisplaceOccupants(b, after, decided, p, keeper) ==
  LET occupants == InOrder(NotesAt(after, p) \ {keeper})
      Then(moves, n) ==
        Append(moves, DisplaceOf(n, ConflictPath(p, TakenIn(b, after, decided \o moves))))
      upTo[i \in 0..Len(occupants)] ==
        IF i = 0 THEN <<>> ELSE Then(upTo[i - 1], occupants[i])
  IN  upTo[Len(occupants)]

\* The id in the file, unless a delete here or a note that stays has it.
IdForNewNote(b, rows, after, decided, text, fresh) ==
  IF \/ text.id \in b.deleting
     \/ rows[text.id] # NoRow /\ after[text.id] # NoRow
     \/ text.id \in Reestablished(decided)
  THEN fresh ELSE text.id

-----------------------------------------------------------------------------
(* One entry, decided.                                                       *)

\* Same bytes: the version is taken, and the path unless the user renamed it.
Unchanged(b, after, e, n, text) ==
  IF after[n].path = e.path \/ Renaming(b, n) THEN AdoptOf(n, e, text) ELSE MoveOf(n, e, text)

\* Mutant: an unsent edit is let over the remote's, whatever its bytes.
KnownOverEdit(b, rows, after, decided, e, n, found, fresh) ==
  IF Unsent(rows[n]) THEN Unchanged(b, after, e, n, found.text)
  ELSE UpsertOf(n, e, found.text)

\* A note we hold whose remote version has moved.
DecideKnown(b, rows, after, decided, e, n, found, fresh) ==
  LET row == rows[n]
      same == \/ found.text = row.text
              \/ Unsent(row) /\ found.version = e.version /\ row.synced = found.text
  IN  IF same THEN Unchanged(b, after, e, n, found.text)
      ELSE IF ~Unsent(row) THEN UpsertOf(n, e, found.text)
      ELSE ConflictOf(n, e, found.text, fresh, ConflictPath(e.path, TakenIn(b, after, decided)))

\* Not our own first push coming back, but another device's note of this name.
IsStranger(row, text) ==
  ~Unsent(row) /\ row.file = NoFile /\ text # row.text /\ text.id # row.text.id

\* Nobody's file is held under that id any more when it comes to be read: a
\* note about to follow it elsewhere is let go of.
GoneBeforeRead(rows, after, e, n) ==
  IF n # NoNote /\ Bound(rows[n], e.id) /\ after[n] # NoRow /\ after[n].path # e.path
  THEN <<ForgetNote(rows, n)>> ELSE <<>>

DecideFile(b, rows, decided, e, remote, fresh) ==
  LET after   == After(rows, decided)
      n       == NoteForEntry(b, rows, after, remote, e)
      removed == n # NoNote /\ after[n] = NoRow
      room    == DisplaceOccupants(b, after, decided, e.path, n)
      found   == remote[e.id]
      row     == rows[n]
      stranger == n # NoNote /\ ~removed /\ IsStranger(row, found.text)
      aside   == IF stranger THEN DisplaceOccupants(b, after, decided, e.path, NoNote) ELSE room
      withRoom == decided \o room
      known == n # NoNote /\ ~removed /\ row.file = FileOf(e)
  IN  CASE known ->
             IF after[n].path = e.path THEN <<>>
             ELSE Append(room, IF Renaming(b, n) THEN AdoptOf(n, e, row.synced)
                                                 ELSE MoveOf(n, e, row.synced))
        [] ~known /\ found = Gone ->
             GoneBeforeRead(rows, after, e, n)
        [] OTHER ->
             IF n = NoNote \/ stranger
             THEN Append(aside, UpsertOf(IdForNewNote(b, rows, After(rows, decided \o aside),
                                                      decided \o aside, found.text, fresh),
                                         e, found.text))
             ELSE Append(room, IF removed THEN UpsertOf(n, e, found.text)
                               ELSE DecideKnown(b, rows, After(rows, withRoom), withRoom,
                                                e, n, found, fresh))

DecideDeleted(rows, decided, e) ==
  LET after == After(rows, decided)
      held  == {n \in HoldersOf(rows, e.id) : Bound(after[n], e.id)}
  IN  IF held = {} THEN <<>> ELSE <<ForgetNote(rows, CHOOSE n \in held : TRUE)>>

Decide(b, rows, decided, e, remote, fresh) ==
  IF e.gone THEN DecideDeleted(rows, decided, e)
            ELSE DecideFile(b, rows, decided, e, remote, fresh)

\* The notes the batch has said something about: a note only moved aside is
\* still asked after, unless what is missing is to be sent back up.
KeptNotes(decided, upload) ==
  LET said == {c \in ToSet(decided) : upload \/ c.kind # "displace"}
  IN  {c.note : c \in said} \cup {c.copy : c \in said}

\* A scan's last word, on the notes whose files it did not return.
Reconcile(b, rows, decided, upload) ==
  LET after == After(rows, decided)
      Unseen(n) == /\ rows[n] # NoRow /\ rows[n].file # NoFile
                   /\ \A e \in ToSet(b.entries) : e.id # rows[n].file.id
                   /\ n \notin KeptNotes(decided, upload)
                   /\ after[n] # NoRow
      unseen == InOrder({n \in NoteIds : Unseen(n)})
  IN  [i \in DOMAIN unseen |-> IF upload THEN KeepNote(rows, unseen[i])
                                         ELSE ForgetNote(rows, unseen[i])]
=============================================================================

------------------------------ MODULE FolderPull ------------------------------
(* How a pull decides a round that says something of folders as well as of   *)
(* notes, and how the store applies it: constant-level operators around the  *)
(* ones of NotePull, which decide the notes.  Folders runs them.             *)
(*                                                                           *)
(* A decision is reached at a step: the batch, the store as it was before    *)
(* it, what the provider answers, the changes decided so far, how far into   *)
(* the entries it is, which entries are under way, and where the notes are   *)
(* once what is decided is applied.                                          *)
(*                                                                           *)
(* What is simplified: no file but notes, and every one of them readable; no *)
(* hidden path; names never differ by case alone; only rounds, no scan.      *)
EXTENDS NotePull

NoId == 0

\* The folders a path is under, the root left out.
Above(p) == {SubSeq(p, 1, k) : k \in {j \in 1..(Len(p) - 1) : p[j + 1] > 0}}
Base(p) == SubSeq(p, Len(Parent(p)) + 1, Len(p))
Outermost(paths) == SetToSortSeq(paths, LAMBDA p, q : Len(p) < Len(q))
Innermost(paths) == SetToSortSeq(paths, LAMBDA p, q : Len(p) > Len(q))

\* The store's folders are a set of rows [path, id], one at a path.
RowAt(folders, p) == {f \in folders : f.path = p}
RowOf(folders, id) == {f \in folders : f.id = id /\ id # NoId}
IdIn(found) == IF found = {} THEN NoId ELSE (CHOOSE f \in found : TRUE).id
PathIn(found) == IF found = {} THEN NoPath ELSE (CHOOSE f \in found : TRUE).path

MoveFolderTo(from, to, id) == FolderChange("move-folder", from, to, id)
EnsureFolder(p, id) == FolderChange("ensure-folder", p, NoPath, id)

-----------------------------------------------------------------------------
(* What a batch's entries say (batch.ts).  An entry is [kind, id, path,      *)
(* version, gone]; a deletion may lack its id or its path.                   *)

\* The last word about a file, and about what is deleted by its id.  A folder's
\* entries, and deletions by path alone, are each decided in turn.
Deduped(entries) ==
  LET Once(e) == IF e.gone THEN e.id = NoId ELSE e.kind = "folder"
      Again(i) == \E j \in DOMAIN entries :
                    /\ j > i /\ entries[j].id = entries[i].id
                    /\ entries[j].gone = entries[i].gone /\ ~Once(entries[j])
      said == SelectSeq([i \in DOMAIN entries |-> i], LAMBDA i : Once(entries[i]) \/ ~Again(i))
  IN  [k \in DOMAIN said |-> entries[said[k]]]

RoundOf(entries, ops) ==
  BatchOf(Deduped(entries), ops, FALSE)
    @@ [removing |-> {[id |-> o.id, path |-> o.path] : o \in {r \in ops : r.kind = "rmdir"}}]

ListedAt(b, id) == {i \in DOMAIN b.entries : ~b.entries[i].gone /\ b.entries[i].id = id}
ListedAfter(b, id, at) == \E i \in ListedAt(b, id) : i > at
ListedElsewhereAfter(b, id, at, p) == \E i \in ListedAt(b, id) : i > at /\ b.entries[i].path # p
LastPlace(b, id) == b.entries[Max(ListedAt(b, id))].path

\* Listed again, or at another path since it was last listed at this one.
AliveElsewhere(b, id, p, at) ==
  LET here == Max({0} \cup {i \in ListedAt(b, id) : i < at /\ b.entries[i].path = p})
  IN  \E i \in ListedAt(b, id) : i > at \/ (p # NoPath /\ i > here /\ b.entries[i].path # p)

\* The entry that has the last word about it, where that is a place outside.
LeavesFor(b, id, folder, at) ==
  LET last == Max({0} \cup {i \in DOMAIN b.entries : i > at /\ b.entries[i].id = id})
      e == b.entries[last]
  IN  IF id = NoId \/ last = 0 THEN 0
      ELSE IF e.gone \/ (e.path # folder /\ Within(e.path, folder)) THEN 0 ELSE last

-----------------------------------------------------------------------------
(* Where things are once the changes so far are applied (replay.ts,          *)
(* occupancy.ts).                                                            *)

Then(s, changes) ==
  IF changes = <<>> THEN s
  ELSE [s EXCEPT !.decided = @ \o changes, !.now = After(s.rows, s.decided \o changes)]
CopiesMade(s) == {c.copy : c \in {x \in ToSet(s.decided) : x.kind = "conflict"}}

\* The notes under a folder, a copy just decided not counted.
NotesUnder(s, p) ==
  {n \in NoteIds \ CopiesMade(s) : s.now[n] # NoRow /\ Within(s.now[n].path, p)}

FolderNow(p, changes) ==
  FoldLeft(LAMBDA at, c :
             CASE c.kind = "move-folder" -> CarriedTo(at, c)
               [] c.kind = "delete-folder" /\ at # NoPath /\ Within(at, c.path) -> NoPath
               [] OTHER -> at,
           p, changes)

\* Where what is at p by then was before.
FolderBefore(p, changes) ==
  FoldRight(LAMBDA c, at :
              CASE at = NoPath -> NoPath
                [] at # NoPath /\ c.kind = "move-folder" ->
                     IF Within(at, c.to) THEN Rebase(at, c.to, c.path)
                     ELSE IF Within(at, c.path) THEN NoPath ELSE at
                [] at # NoPath /\ c.kind = "delete-folder" ->
                     IF Within(at, c.path) THEN NoPath ELSE at
                [] OTHER -> at,
            changes, p)

Rest(s, i) == SubSeq(s.decided, i + 1, Len(s.decided))
EnsuredNow(s, i) == FolderNow(s.decided[i].path, Rest(s, i))
Ensured(s) == {i \in DOMAIN s.decided : s.decided[i].kind = "ensure-folder"}

\* The row that is at p by then, and the id of what is.
FolderAt(s, p) == RowAt(s.folders, FolderBefore(p, s.decided))
FolderIdAt(s, p) ==
  LET made == {i \in Ensured(s) : EnsuredNow(s, i) = p}
  IN  IF made # {} THEN s.decided[Max(made)].id ELSE IdIn(FolderAt(s, p))

\* Only "not found" says no.
StillThere(s, row) == row = NoRow \/ row.file = NoFile \/ s.remote[row.file.id] # Gone

\* The row a decision has of a note: the store's, or else the batch's own.
Held(s, n) == IF s.rows[n] # NoRow THEN s.rows[n] ELSE s.now[n]

-----------------------------------------------------------------------------
(* A folder's deletion and what it takes along (cascade.ts).                 *)

\* The notes whose files are outside, waiting on a rename queued here.
KeptFromCascade(s, p, was) ==
  {n \in NotesUnder(s, p) :
     \E r \in s.b.renaming : r.note = n /\ ~Within(r.from, p) /\ ~Within(r.from, was)}

CascadeOver(s, p, was) ==
  [FolderChange("delete-folder", p, NoPath, NoId)
     EXCEPT !.was = was, !.keep = KeptFromCascade(s, p, was)]

\* Folders for the notes the cascades kept, said at the end of the batch.
RoofOver(s) ==
  LET under == UNION {NotesUnder(s, c.path) : c \in {x \in ToSet(s.decided) : x.kind = "delete-folder"}}
      roofs == Outermost(UNION {Above(s.now[n].path) : n \in under})
  IN  [i \in DOMAIN roofs |-> EnsureFolder(roofs[i], NoId)]

-----------------------------------------------------------------------------
(* The folders (folders.ts).                                                 *)

\* The id of what is at p, which this batch may have put there.
FolderKnownAt(s, p, before, now) ==
  IF now # NoId /\ now # before THEN [id |-> now, placed |-> TRUE]
                                ELSE [id |-> before, placed |-> FALSE]
FolderKnown(s, p) == FolderKnownAt(s, p, IdIn(RowAt(s.folders, p)), FolderIdAt(s, p))

FolderAlive(s, p, known) ==
  /\ known.id # NoId
  /\ IF known.placed THEN ListedAfter(s.b, known.id, s.at)
                     ELSE AliveElsewhere(s.b, known.id, p, s.at)

\* A deletion by path of a folder alive elsewhere, or of something under one:
\* the innermost such.
OverBy(s, e, nearest) ==
  IF nearest # e.path
  THEN [kind |-> "under", path |-> nearest, to |-> LastPlace(s.b, FolderKnown(s, nearest).id)]
  ELSE [kind |-> IF FolderIdAt(s, e.path) \in {NoId, FolderKnown(s, e.path).id} THEN "itself" ELSE "not"]

MovedFolderOver(s, e) ==
  LET moved == Innermost({p \in {e.path} \cup Above(e.path) : FolderAlive(s, p, FolderKnown(s, p))})
  IN  IF e.id # NoId \/ e.path = NoPath \/ moved = <<>> THEN [kind |-> "not"]
      ELSE OverBy(s, e, Head(moved))

\* The folder a deletion is about, where it stands by then.
DoomedFolder(s, p, id) ==
  LET made == {i \in Ensured(s) : IF id = NoId THEN EnsuredNow(s, i) = p ELSE s.decided[i].id = id}
      before == RowAt(s.folders, p)
      again == \E i \in 1..(s.at - 1) :
                 s.b.entries[i].gone /\ s.b.entries[i].id = NoId /\ s.b.entries[i].path = p
  IN  CASE made # {} -> EnsuredNow(s, Max(made))
        [] made = {} /\ id # NoId -> FolderNow(PathIn(RowOf(s.folders, id)), s.decided)
        [] made = {} /\ id = NoId /\ before # {} /\ IdIn(before) = NoId -> NoPath
        [] made = {} /\ id = NoId /\ before # {} /\ IdIn(before) # NoId /\ ~again ->
             IF FolderNow(p, s.decided) = p THEN p ELSE NoPath
        [] OTHER -> IF FolderAt(s, p) = {} THEN NoPath ELSE p

\* A name no folder has here, nor has been moved to by this batch.
FreeFolderPath(s, p) ==
  LET chosen == {c.to : c \in {x \in ToSet(s.decided) : x.kind = "move-folder"}}
  IN  ConflictPath(p, {f.path : f \in s.folders} \cup {Parent(p) \o Base(q) : q \in chosen})

\* Mutant: nothing is got out of the folder first.
NoRescue(s, gone) == <<CascadeOver(s, gone, gone)>>

RECURSIVE DecideEntry(_)

InsideBy(s, f, gone, p) == IF p # NoPath /\ p # gone /\ Within(p, gone) THEN p ELSE NoPath
StandsInside(s, f, gone) == InsideBy(s, f, gone, FolderNow(f.path, s.decided))

\* What is at p inside, by the last word about it, or, by one already under way,
\* only put beside.
RescueOf(s, f, gone, p, leaving) ==
  LET UnderWay == \E i \in s.deciding :
                    LET e == s.b.entries[i]
                    IN  ~e.gone /\ e.id = f.id /\ (e.path = gone \/ ~Within(e.path, gone))
  IN  CASE p = NoPath -> <<>>
        [] p # NoPath /\ leaving # 0 ->
             DecideEntry([s EXCEPT !.at = leaving, !.deciding = @ \cup {leaving}])
        [] p # NoPath /\ leaving = 0 /\ UnderWay ->
             <<MoveFolderTo(p, FreeFolderPath(s, Parent(gone) \o Base(p)), NoId)>>
        [] OTHER -> <<>>

\* All that the rest of the round puts outside the folder got out of it.
Rescued(s, gone) ==
  LET inside == SetToSortSeq({f \in s.folders : f.id # NoId /\ StandsInside(s, f, gone) # NoPath},
                             LAMBDA f, g : Len(FolderNow(f.path, s.decided))
                                             < Len(FolderNow(g.path, s.decided)))
  IN  FoldLeft(LAMBDA t, f :
                 Then(t, RescueOf(t, f, gone, StandsInside(t, f, gone),
                                  LeavesFor(s.b, f.id, gone, s.at))),
               s, inside)

DecidedSince(s, then) == SubSeq(then.decided, Len(s.decided) + 1, Len(then.decided))

CascadeAfter(s, rescued, was, final) ==
  DecidedSince(s, rescued)
    \o (IF final = NoPath THEN <<>> ELSE <<CascadeOver(rescued, final, was)>>)

RescuedThenGone(s, gone, doomed, rescued) ==
  IF doomed = NoPath THEN CascadeAfter(s, rescued, gone, gone)
  ELSE CascadeAfter(s, rescued, doomed, FolderNow(doomed, rescued.decided))

DeleteAfterRescue(s, gone) ==
  RescuedThenGone(s, gone, PathIn(FolderAt(s, gone)), Rescued(s, gone))

\* The folder at `to` deleted if the batch says so, or else moved aside.
ClearTheWayOf(s, to, id, from, occupant) ==
  LET theirs == IdIn(occupant)
      named == \/ PathIn(occupant) \in DoomedPaths(s.b)
               \/ theirs # NoId /\ theirs \in DoomedIn(s.b)
      inside == from # NoPath /\ Within(from, to)
  IN  IF occupant = {} \/ theirs = id THEN <<>>
      ELSE IF named /\ ~inside THEN DeleteAfterRescue(s, to)
      ELSE <<MoveFolderTo(to, FreeFolderPath(s, to), NoId)>>

ClearTheWay(s, to, id, from) == ClearTheWayOf(s, to, id, from, FolderAt(s, to))

\* The notes a folder's move would land notes on, moved aside.
ClearTheNotes(s, from, to) ==
  LET Landing(p) == {n \in NotesUnder(s, from) : Rebase(s.now[n].path, from, to) = p}
      MovesOn(n, p) == /\ s.now[n].file # NoFile
                       /\ ListedElsewhereAfter(s.b, s.now[n].file.id, s.at, p)
      InTheWay(n) == \E m \in Landing(s.now[n].path) : m # n /\ ~MovesOn(m, s.now[n].path)
      sitting == SetToSortSeq({n \in NotesUnder(s, to) : InTheWay(n)}, <)
      Aside(t, n) == DisplaceOf(n, ConflictPath(s.now[n].path, TakenIn(s.b, t.now, t.decided)))
  IN  DecidedSince(s, FoldLeft(LAMBDA t, n : Then(t, <<Aside(t, n)>>), s, sitting))

\* A folder new here where one is that has still to move, or to go.
RoomForNewFolder(s, e) ==
  LET id == IdIn(FolderAt(s, e.path))
      leaves == ListedElsewhereAfter(s.b, id, s.at, e.path) \/ id \in DoomedIn(s.b)
  IN  IF id \in {NoId, e.id} \/ ~leaves THEN <<>> ELSE ClearTheWay(s, e.path, e.id, NoPath)

\* Where the entry's folder is by then: as the store has it, or as it was made in
\* the batch before the entry was come to.
WhereFolder(s, id, made) ==
  IF made # {} THEN EnsuredNow(s, Max(made))
  ELSE FolderNow(PathIn(RowOf(s.folders, id)), s.decided)

MovedThere(s, e, roomy, from, carried) ==
  LET moved == IF carried = NoPath THEN from ELSE carried
  IN  DecidedSince(s, roomy)
        \o ClearTheNotes(roomy, moved, e.path) \o <<MoveFolderTo(moved, e.path, e.id)>>

FolderFrom(s, e, made, from) ==
  LET Roomy(roomy) == MovedThere(s, e, roomy, from, WhereFolder(roomy, e.id, made))
  IN  IF from \notin {NoPath, e.path}
      THEN Roomy(Then(s, ClearTheWay(s, e.path, e.id, from)))
      ELSE (IF from = NoPath THEN RoomForNewFolder(s, e) ELSE <<>>)
             \o <<EnsureFolder(e.path, e.id)>>

FolderMade(s, e, made) == FolderFrom(s, e, made, WhereFolder(s, e.id, made))

\* A notebook removed here, whose rmdir is still queued, is not made again.
DecideFolder(s, e) ==
  IF e.path = Root \/ [id |-> e.id, path |-> e.path] \in s.b.removing THEN <<>>
  ELSE FolderMade(s, e, {i \in Ensured(s) : s.decided[i].id = e.id})

-----------------------------------------------------------------------------
(* The deletions (deletions.ts).                                             *)

RowsMade(s) == {c \in ToSet(s.decided) : c.kind = "upsert"}

\* The note a deletion is about: by its id, or by the path it has by then, or by
\* the name a rename queued here is taking it from.
DeletedNote(s, e) ==
  LET now == s.now
      byId == HoldersOf(s.rows, e.id)
      made == {c.note : c \in {x \in RowsMade(s) : x.file.id = e.id}}
      there == {n \in NoteIds \ CopiesMade(s) : now[n] # NoRow /\ now[n].path = e.path /\ ~Renaming(s.b, n)}
      bound == {n \in there : Held(s, n).file # NoFile}
      renamed == {r.note : r \in {x \in s.b.renaming : x.from = e.path /\ s.rows[x.note] # NoRow}}
      OneOf(notes) == IF notes = {} THEN NoNote ELSE CHOOSE n \in notes : TRUE
      About(notes, byOld) == [note |-> OneOf(notes), byOld |-> byOld]
  IN  IF e.id # NoId THEN About(IF byId # {} THEN byId ELSE made, FALSE)
      ELSE IF bound # {} THEN About(bound, FALSE)
      ELSE IF renamed # {} THEN About(renamed, TRUE) ELSE About(there, FALSE)

\* The first half of a move: what it names is alive elsewhere in the round.
AliveBy(s, e, at, id) == IF e.path # NoPath /\ at = e.path THEN ListedAfter(s.b, id, s.at)
                         ELSE AliveElsewhere(s.b, id, e.path, s.at)
NamesWhatLives(s, e, at, own) ==
  \E id \in {e.id, own} \ {NoId} : AliveBy(s, e, at, id)

OwnId(file) == IF file = NoFile THEN NoId ELSE file.id

MovedNotDeleted(s, e, n) ==
  IF n # NoNote
  THEN NamesWhatLives(s, e, IF s.now[n] = NoRow THEN NoPath ELSE s.now[n].path, OwnId(Held(s, n).file))
  ELSE e.id # NoId /\ NamesWhatLives(s, e, DoomedFolder(s, e.path, e.id), NoId)

Forgotten(s, notes) ==
  LET gone == SetToSortSeq(notes, <) IN [i \in DOMAIN gone |-> ForgetNote(s.rows, gone[i])]

\* Deleted by path under a folder that moves: the provider is asked.
FolderUnderMoved(s, gone, id, beside, there) ==
  LET listed == beside = Root \/ \E k \in DOMAIN s.remote :
                  s.remote[k] # Gone /\ s.remote[k].path = beside
      found == s.remote[id] # Gone /\ Parent(s.remote[id].path) = beside
  IN  IF id = NoId \/ ~listed \/ found THEN <<>>
      ELSE IF there = {} THEN DeleteAfterRescue(s, gone)
      ELSE Forgotten(s, NotesUnder(s, gone) \ there)

UnderMoved(s, gone, over) ==
  IF gone = NoPath THEN <<>>
  ELSE FolderUnderMoved(s, gone, FolderIdAt(s, gone), Parent(CarriedTo(gone, over)),
                        {m \in NotesUnder(s, gone) : StillThere(s, s.now[m])})

DecideUnderMoved(s, e, n, over) ==
  IF n = NoNote THEN UnderMoved(s, DoomedFolder(s, e.path, NoId), over)
  ELSE IF s.now[n] = NoRow \/ StillThere(s, s.now[n]) THEN <<>> ELSE Forgotten(s, {n})

\* A deletion that has no id is asked about where the batch wrote the note back.
DecideDeletedNote(s, e, about) ==
  LET row == s.now[about.note]
      unsure == about.byOld \/ about.note \in Reestablished(s.decided)
      believed == IF e.id # NoId THEN row # NoRow /\ row.file # NoFile /\ row.file.id = e.id
                  ELSE row # NoRow /\ (unsure => ~StillThere(s, row))
  IN  IF believed THEN Forgotten(s, {about.note}) ELSE <<>>

GoneOver(s, e, about, over, doomed) ==
  IF over.kind = "itself" THEN <<>>
  ELSE IF over.kind = "under" THEN DecideUnderMoved(s, e, about.note, over)
  ELSE IF about.note # NoNote THEN DecideDeletedNote(s, e, about)
  ELSE IF doomed = NoPath THEN <<>> ELSE DeleteAfterRescue(s, doomed)

GoneAbout(s, e, about) ==
  IF e.path = Root \/ MovedNotDeleted(s, e, about.note) THEN <<>>
  ELSE GoneOver(s, e, about, MovedFolderOver(s, e), DoomedFolder(s, e.path, e.id))

DecideGone(s, e) == GoneAbout(s, e, DeletedNote(s, e))

\* An id no row, file or change carries.
FreshId(s) ==
  LET used == {n \in NoteIds : s.rows[n] # NoRow}
                \cup {c.note : c \in {x \in ToSet(s.decided) : "note" \in DOMAIN x}} \cup CopiesMade(s)
  IN  Max(NoteIds \ (used \cup DOMAIN s.remote))

DecideEntry(s) ==
  LET e == s.b.entries[s.at]
  IN  IF e.gone THEN DecideGone(s, e)
      ELSE IF e.kind = "folder" THEN DecideFolder(s, e)
      ELSE DecideFile(s.b, s.rows, s.decided, e, s.remote, FreshId(s))

\* A whole round, in order, and then the roofs (decideAll).
DecideRound(rows, folders, ops, remote, entries) ==
  LET b == RoundOf(entries, ops)
      s == [b |-> b, rows |-> rows, folders |-> folders, remote |-> remote,
            now |-> rows, decided |-> <<>>, at |-> 0, deciding |-> {}]
      all == FoldLeft(LAMBDA t, i :
                        LET u == [t EXCEPT !.at = i, !.deciding = {i}]
                        IN  Then(u, DecideEntry(u)),
                      s, [i \in DOMAIN b.entries |-> i])
  IN  all.decided \o RoofOver(all)

-----------------------------------------------------------------------------
(* What the store does (sync/store.ts).  A store is [rows, ops, folders].    *)

\* The folders down to p made, from the last one that is there.
FolderChain(folders, p) ==
  LET Missing(q) == \A r \in Above(p) \cup {p} : Len(r) >= Len(q) => RowAt(folders, r) = {}
  IN  folders \cup {[path |-> q, id |-> NoId] : q \in {r \in (Above(p) \cup {p}) \ {Root} : Missing(r)}}

MoveFolderRows(folders, c) ==
  LET moving == {f \in folders : Within(f.path, c.path)}
      moved == {[path |-> Rebase(f.path, c.path, c.to),
                 id |-> IF f.path = c.path /\ c.id # NoId THEN c.id ELSE f.id] : f \in moving}
  IN  {f \in folders \ moving : RowAt(moved, f.path) = {}} \cup moved

EnsureFolderRow(folders, p, id) ==
  IF p = Root THEN folders
  ELSE (FolderChain(folders, Parent(p)) \ RowAt(folders, p))
         \cup {[path |-> p, id |-> IF id # NoId THEN id ELSE IdIn(RowAt(folders, p))]}

\* The notes whose first queued rename says their file is outside.
RenamedOutOf(ops, p, was) ==
  {o.note : o \in {m \in ops : /\ m.kind = "move"
                               /\ \A r \in Moves(ops, m.note) : m.seq <= r.seq
                               /\ ~Within(m.path, p) /\ ~Within(m.path, was)}}

\* A note put somewhere has the folders above it.
FoldersFor(st, c) ==
  IF \/ c.kind \in {"upsert", "move", "conflict"}
     \/ c.kind = "displace" /\ st.rows[c.note] # NoRow
  THEN FolderChain(st.folders, Parent(c.path)) ELSE st.folders

\* Mutant: the queue is not asked again as the deletion is applied.
SparedAsDecided(st, c) == c.keep

Spared(st, c) == c.keep \cup RenamedOutOf(st.ops, c.path, c.was)

DeleteFolder(st, c) ==
  IF RowAt(st.folders, c.path) = {} THEN st
  ELSE Cascade(st, c.path, Spared(st, c))
         @@ [folders |-> {f \in st.folders : ~Within(f.path, c.path)}]

ApplyOne(st, s, c) ==
  CASE c.kind = "ensure-folder" -> [st EXCEPT !.folders = EnsureFolderRow(@, c.path, c.id)]
    [] c.kind = "move-folder" -> MoveFolder(st, c) @@ [folders |-> MoveFolderRows(st.folders, c)]
    [] c.kind = "delete-folder" -> DeleteFolder(st, c)
    [] OTHER -> Applied1([rows |-> st.rows, ops |-> st.ops], s, c) @@ [folders |-> FoldersFor(st, c)]

\* All of a batch, or none of it where the store refuses a change.
ApplyRound(st, changes) ==
  FoldLeft(LAMBDA a, c :
             IF a.ok /\ Takes(a.st, c)
             THEN [st |-> ApplyOne(a.st, Max({0} \cup {o.seq : o \in a.st.ops}) + 1, c), ok |-> TRUE]
             ELSE [a EXCEPT !.ok = FALSE],
           [st |-> st, ok |-> TRUE], changes)
=============================================================================

------------------------------ MODULE NoteStore ------------------------------
(* One device's notes and push queue, the user who changes them at any       *)
(* moment, and the sync engine, which reads a note, goes to the network and  *)
(* comes back to record what it achieved against a row that may have moved   *)
(* on.  The remote is not a state here: its answers are any answer a         *)
(* provider can give (NoteSync has the real one).                            *)
(*                                                                           *)
(* Every action is one IndexedDB transaction, or one answer of the provider. *)
(* What is simplified:                                                       *)
(*   - a pull decides one change at a time (NoteSync composes batches);      *)
(*   - one edit is in a hand at a time, or the undo of one delete;           *)
(*   - attempts are not counted (a failed op just ends the drain);           *)
(*   - writes are sent one at a time.                                        *)
EXTENDS NoteQueue, FiniteSets

CONSTANTS NoteIds, Paths, Texts, Files,
          NoOp,       \* no op is at the engine
          NoChange,   \* no change is decided
          NoSpot,     \* no file is in the way
          Hands,      \* what may be in the user's hand: "typing", "undo"
          MaxSeq      \* users and pulls queue nothing once this number is reached

VARIABLES
  rows,    \* NoteId -> row or NoRow: the notes table
  ops,     \* the opQueue table
  next,    \* the queue's auto-increment
  drawn,   \* note ids ever drawn, on this device or in a file it was given
  hand,    \* the edit not yet saved, or the undo on offer
  pc,      \* where the engine is
  plan,    \* the queue as the drain read it: the sequence numbers still ahead
  held,    \* the op at the network
  seen,    \* its note's row as the engine read it
  spot,    \* where the remote said the file in the way is
  change   \* what a pull has decided and not yet applied

store  == <<rows, ops, next, drawn>>
engine == <<pc, plan, held, seen, spot, change>>
vars   == <<rows, ops, next, drawn, hand, pc, plan, held, seen, spot, change>>

Row == [path : Paths, text : Texts, dirty : BOOLEAN, deleted : BOOLEAN,
        file : Files \cup {NoFile}, synced : Texts \cup {NoSynced}]
OpRecord == [seq : Nat, kind : {"write", "move", "delete"}, note : NoteIds,
             path : Paths \cup {NoPath}, target : Paths \cup {NoPath}]
ASSUME StoreAssumption ==
  /\ MaxSeq \in Nat
  /\ Hands \subseteq {"typing", "undo"}
  /\ NoSynced \notin Texts
  /\ NoFile \notin Files
  /\ NoSpot \notin Paths
  /\ NoPath \notin Paths
  /\ NoRow \notin Row
  /\ NoOp \notin OpRecord

NoHand == [kind |-> "none"]
InHand(kind, n, t) == [kind |-> kind, note |-> n, base |-> t, stale |-> FALSE,
                       mark |-> FALSE, dropped |-> FALSE]
Hand == {NoHand} \cup [kind : {"typing", "undo"}, note : NoteIds, base : Texts,
                       stale : BOOLEAN, mark : BOOLEAN, dropped : BOOLEAN]
Change == [kind : {"upsert", "adopt", "move", "delete", "detach", "displace",
                   "reupload", "conflict"},
           note : NoteIds, path : Paths, text : Texts, file : Files \cup {NoFile},
           synced : Texts \cup {NoSynced}, copy : NoteIds, copyPath : Paths]

Now == [rows |-> rows, ops |-> ops]

\* No live note of this device is at p (a deleted note's name is free at once).
Free(p) == \A m \in NoteIds : Live(rows[m]) => rows[m].path # p

Fresh(n) == n \notin drawn

Room == next < MaxSeq

Init ==
  /\ rows = [n \in NoteIds |-> NoRow]
  /\ ops = {}
  /\ next = 0
  /\ drawn = {}
  /\ hand = NoHand
  /\ pc = "idle"
  /\ plan = {}
  /\ held = NoOp
  /\ seen = NoRow
  /\ spot = NoSpot
  /\ change = NoChange

-----------------------------------------------------------------------------
(* The user, and the writers in store/notes.ts.                              *)

UserWrites(newRows, newOps) ==
  /\ rows' = newRows
  /\ ops' = newOps
  /\ next' = NextSeq(newOps, next)
  /\ UNCHANGED engine

NewRow(p, t) == [path |-> p, text |-> t, dirty |-> TRUE, deleted |-> FALSE,
                 file |-> NoFile, synced |-> NoSynced]

Create(n, p, t) ==
  /\ Room /\ Fresh(n) /\ Free(p)
  /\ UserWrites([rows EXCEPT ![n] = NewRow(p, t)],
                QueueWrite(ops, next, n, NewRow(p, t), NoSeq))
  /\ drawn' = drawn \cup {n}
  /\ UNCHANGED hand

\* A keystroke the editor has not saved yet.
StartTyping(n) ==
  /\ Room
  /\ hand.kind = "none" /\ "typing" \in Hands
  /\ Live(rows[n])
  /\ hand' = InHand("typing", n, rows[n].text)
  /\ UNCHANGED <<store, engine>>

Edited(n, p, t) == [rows[n] EXCEPT !.path = p, !.text = t, !.dirty = TRUE]

\* The body is the one the editor showed, or the note is a tombstone, which
\* keeps the edit and stays deleted.
SaveInto(t) ==
  LET n == hand.note  row == Edited(n, rows[n].path, t)
  IN  /\ hand.kind = "typing"
      /\ rows[n] # NoRow
      /\ Live(rows[n]) => ~hand.stale
      /\ UserWrites([rows EXCEPT ![n] = row], QueueEdit(ops, next, n, row, row.path))
      /\ hand' = NoHand
      /\ UNCHANGED drawn

\* A copy with a fresh id beside the note, holding what was typed.
Beside(base, q, s, c, p, t) ==
  /\ Fresh(c) /\ Free(p)
  /\ UserWrites([base EXCEPT ![c] = NewRow(p, t)],
                QueueWrite(q, s, c, NewRow(p, t), NoSeq))
  /\ drawn' = drawn \cup {c}

\* The body was replaced since: the edit goes beside what replaced it.
SaveBeside(t, c, p) ==
  LET n == hand.note
  IN  /\ hand.kind = "typing"
      /\ Live(rows[n]) /\ hand.stale /\ rows[n].text # t
      /\ Beside(rows, ops, next, c, p, t)
      /\ hand' = NoHand

\* The body was replaced by the very text that was typed.
SaveSame(t) ==
  /\ hand.kind = "typing"
  /\ Live(rows[hand.note]) /\ hand.stale /\ rows[hand.note].text = t
  /\ hand' = NoHand
  /\ UNCHANGED <<store, engine>>

BringBack(t, p) ==
  LET n == hand.note
  IN  /\ rows[n] = NoRow /\ Free(p)
      /\ UserWrites([rows EXCEPT ![n] = NewRow(p, t)],
                    QueueWrite(ops, next, n, NewRow(p, t), NoSeq))
      /\ hand' = NoHand
      /\ UNCHANGED drawn

\* The note is gone, deleted on another device: made again, holding the edit.
SaveGone(t, p) ==
  /\ hand.kind = "typing" /\ ~hand.mark
  /\ BringBack(t, p)

\* The note is gone, deleted from this tab: the edit is let go.
SaveLetGo ==
  /\ hand.kind = "typing" /\ rows[hand.note] = NoRow /\ hand.mark
  /\ hand' = NoHand
  /\ UNCHANGED <<store, engine>>

\* The path it asks for may be the one the note is at.
Rename(n, p, t) ==
  LET row == Edited(n, p, t)
  IN  /\ Room
      /\ rows[n] # NoRow
      /\ p = rows[n].path \/ Free(p)
      /\ UserWrites([rows EXCEPT ![n] = row], QueueEdit(ops, next, n, row, rows[n].path))
      /\ hand' = IF hand.kind # "none" /\ hand.note = n /\ hand.base = rows[n].text
                 THEN [hand EXCEPT !.base = t] ELSE hand
      /\ UNCHANGED drawn

\* The row stays as a tombstone; the undo is on offer if no edit is in hand.
Delete(n) ==
  LET row == [rows[n] EXCEPT !.deleted = TRUE, !.dirty = TRUE]
  IN  /\ Room
      /\ Live(rows[n])
      /\ UserWrites([rows EXCEPT ![n] = row], QueueDelete(ops, next, n, row))
      /\ \/ hand' = IF hand.kind # "none" /\ hand.note = n
                    THEN [hand EXCEPT !.mark = TRUE, !.dropped = TRUE] ELSE hand
         \/ /\ hand.kind = "none" /\ "undo" \in Hands
            /\ hand' = InHand("undo", n, rows[n].text)
      /\ UNCHANGED drawn

\* The newcomers at the path a restored note comes back to.
InTheWay(n) == {m \in NoteIds \ {n} : Live(rows[m]) /\ rows[m].path = rows[n].path}

\* The tombstone lifted and its delete withdrawn, unless a pull has brought the
\* note back already; and what took its name meanwhile moved to q.
Lifted(n, q) ==
  LET row == [rows[n] EXCEPT !.deleted = FALSE, !.dirty = @ \/ rows[n].deleted]
      back == IF rows[n].deleted THEN QueueRestore(ops, next, n, row) ELSE ops
      Off(m) == Edited(m, q, rows[m].text)
      m == CHOOSE m \in NoteIds : m \in InTheWay(n)
  IN  IF InTheWay(n) = {}
      THEN [rows |-> [rows EXCEPT ![n] = row], ops |-> back]
      ELSE [rows |-> [rows EXCEPT ![n] = row, ![m] = Off(m)],
            ops  |-> QueueEdit(back, next + 1, m, Off(m), rows[m].path)]

CanLift(n, q) ==
  /\ hand.kind = "undo" /\ hand.note = n
  /\ rows[n] # NoRow
  /\ Cardinality(InTheWay(n)) <= 1 /\ (InTheWay(n) # {} => Free(q))

\* Undo finds the note's row, with the text it was deleted with.
UndoLift(q) ==
  LET n == hand.note
  IN  /\ CanLift(n, q)
      /\ rows[n].text = hand.base
      /\ UserWrites(Lifted(n, q).rows, Lifted(n, q).ops)
      /\ hand' = NoHand
      /\ UNCHANGED drawn

\* A pull has put another text in the row: lifted, and the user's text kept
\* beside it.  Free is asked of the names as they were; p and q differ.
UndoBeside(q, c, p) ==
  LET n == hand.note
  IN  /\ CanLift(n, q)
      /\ rows[n].text # hand.base
      /\ p # q /\ p # rows[n].path
      /\ Beside(Lifted(n, q).rows, Lifted(n, q).ops, next + 3, c, p, hand.base)
      /\ hand' = NoHand

\* Undo finds the row purged: the note is made again, cut loose from its file.
UndoGone(p) == hand.kind = "undo" /\ BringBack(hand.base, p)

-----------------------------------------------------------------------------
(* The engine pushing.                                                       *)

Idle ==
  /\ pc' = "idle" /\ plan' = {} /\ held' = NoOp /\ seen' = NoRow
  /\ spot' = NoSpot /\ change' = NoChange

\* The queue is read once, at the start of the drain.
StartPush ==
  /\ pc = "idle" /\ ops # {}
  /\ pc' = "drain"
  /\ plan' = {o.seq : o \in ops}
  /\ UNCHANGED <<store, hand, held, seen, spot, change>>

\* Each op is asked for again just before it goes; one withdrawn is passed over.
Ask ==
  /\ pc = "drain"
  /\ \E s \in plan :
       /\ \A r \in plan : s <= r
       /\ plan' = plan \ {s}
       /\ IF Queued(ops, s)
          THEN \E o \in ops : /\ o.seq = s
                              /\ held' = o
                              /\ seen' = rows[o.note]
                              /\ pc' = "sent"
          ELSE UNCHANGED <<held, seen, pc>>
  /\ UNCHANGED <<store, hand, spot, change>>

EndDrain ==
  /\ pc = "drain" /\ plan = {}
  /\ Idle
  /\ UNCHANGED <<store, hand>>

\* One transaction of the store that records an outcome; the drain goes on.
Settle(after) ==
  /\ rows' = after.rows
  /\ ops' = after.ops
  /\ next' = NextSeq(after.ops, next)
  /\ pc' = "drain" /\ held' = NoOp /\ seen' = NoRow /\ spot' = NoSpot
  /\ UNCHANGED <<drawn, plan, change>>

\* Mutant: a body written under an open editor keeps its origin.
HandUntouched(before, after) == hand

\* What a pull or a conflict writes into a row, an editor of it must not take
\* for what it showed: the body it holds has another origin now.
HandAfter(before, after) ==
  IF /\ hand.kind # "none"
     /\ after[hand.note] # NoRow
     /\ before[hand.note] = NoRow \/ before[hand.note].text # after[hand.note].text
  THEN [hand EXCEPT !.stale = TRUE] ELSE hand

Sending(kind) == pc = "sent" /\ held.kind = kind

\* Nothing to send: no row, or a move of a note no file is bound to, or one
\* whose file the provider says is gone.
SendNothing ==
  /\ pc = "sent"
  /\ seen = NoRow \/ held.kind = "move"
  /\ Settle(Done(Now, held.seq))
  /\ UNCHANGED hand

Push(file) ==
  /\ Sending("write") /\ seen # NoRow /\ rows[held.note] # NoRow
  /\ Settle(Pushed(Now, next, held.seq, held.note, seen.text, seen.path, file))
  /\ UNCHANGED hand

\* Where it was sent, or beside it when the remote would not give up the name.
Move(at) ==
  /\ Sending("move") /\ seen # NoRow /\ rows[held.note] # NoRow
  /\ seen.file # NoFile
  /\ Settle(Moved(Now, next, held.seq, held.note, at, seen.file))
  /\ UNCHANGED hand

Purge ==
  /\ Sending("delete") /\ seen # NoRow
  /\ Settle(Purged(Now, next, held.seq, held.note))
  /\ UNCHANGED hand

\* A write refused; the note is read again before anything is decided.
MeetConflict ==
  /\ Sending("write") /\ seen # NoRow /\ rows[held.note] # NoRow
  /\ pc' = "clash"
  /\ spot' = seen.path
  /\ seen' = rows[held.note]
  /\ UNCHANGED <<store, hand, plan, held, change>>

\* The note's own file unchanged, or the same bytes on both sides.
PushOver(file, at) ==
  /\ pc = "clash"
  /\ at \in {spot, seen.path}
  /\ rows[held.note] # NoRow
  /\ Settle(Pushed(Now, next, held.seq, held.note, seen.text, at, file))
  /\ UNCHANGED hand

Aside(p, cut) ==
  LET c == [kind |-> "displace", note |-> held.note, path |-> p]
      st == IF cut THEN DetachNote(Now, c) ELSE Now
  IN  /\ Free(p)
      /\ rows' = DisplaceNote(st, c).rows
      /\ ops' = DisplaceNote(st, c).ops
      /\ UNCHANGED <<next, drawn, hand>>

\* Cut loose and moved aside for a file that is not its own; its write goes
\* again at once, as a create, until the remote has a name free.
SetAside(p) ==
  /\ pc \in {"clash", "aside"}
  /\ Aside(p, seen.file # NoFile)
  /\ pc' = "aside"
  /\ seen' = [seen EXCEPT !.path = p, !.file = NoFile]
  /\ UNCHANGED <<plan, held, spot, change>>

PushAside(file) ==
  /\ pc = "aside"
  /\ rows[held.note] # NoRow
  /\ Settle(Pushed(Now, next, held.seq, held.note, seen.text, seen.path, file))
  /\ UNCHANGED hand

\* Moved aside and left queued, to be retried where the note now is.
StepAside(p, cut) ==
  /\ pc = "clash"
  /\ Aside(p, cut)
  /\ Idle

\* The remote keeps the path, and the text here becomes a copy.
Resolve(t, file, c, p) ==
  LET chg == [kind |-> "conflict", note |-> held.note, path |-> spot, text |-> t,
              file |-> file, synced |-> t, copy |-> c, copyPath |-> p]
      after == ResolveConflict(Now, next, held.seq, chg)
  IN  /\ pc = "clash"
      /\ t # seen.text
      /\ Fresh(c) /\ Free(p) /\ p # spot
      /\ Takes(Now, chg)
      /\ rows' = after.rows
      /\ ops' = after.ops
      /\ next' = NextSeq(after.ops, next)
      /\ drawn' = drawn \cup {c}
      /\ hand' = HandAfter(rows, after.rows)
      /\ pc' = "drain" /\ held' = NoOp /\ seen' = NoRow /\ spot' = NoSpot
      /\ UNCHANGED <<plan, change>>

\* The op failed, or the network did, or the store refused the outcome.
Fail ==
  /\ pc # "idle"
  /\ Idle
  /\ UNCHANGED <<store, hand>>

\* The tab is closed: what was not saved and what was in flight are gone.
Crash ==
  /\ pc # "idle" \/ hand.kind # "none"
  /\ hand' = NoHand
  /\ Idle
  /\ UNCHANGED store

-----------------------------------------------------------------------------
(* The engine pulling: decided against the rows as they are, applied later.  *)

DecideToApply(c) ==
  /\ pc = "idle" /\ Room
  /\ pc' = "pull"
  /\ change' = c
  /\ UNCHANGED <<rows, ops, next, hand, plan, held, seen, spot>>

Decided(kind, n, p, t, f, synced, c, cp) ==
  [kind |-> kind, note |-> n, path |-> p, text |-> t, file |-> f,
   synced |-> synced, copy |-> c, copyPath |-> cp]

\* A file for a clean row or for an id that is nobody's: never for an id with
\* a delete queued.
DecideUpsert(n, p, t, f) ==
  /\ IF rows[n] = NoRow THEN Deletes(ops, n) = {} ELSE ~Unsent(rows[n]) /\ rows[n].text # t
  /\ DecideToApply(Decided("upsert", n, p, t, f, t, n, p))
  /\ drawn' = drawn \cup {n}

\* The bytes are known: the version held, the row's own text, or, under a row
\* with an edit, the text it last synced.
KnownBytes(n, synced) ==
  /\ rows[n] # NoRow
  /\ \/ synced = rows[n].text
     \/ synced = rows[n].synced /\ rows[n].file # NoFile

DecideAdopt(n, p, f, synced) ==
  /\ KnownBytes(n, synced)
  /\ rows[n].path = p \/ Moves(ops, n) # {}
  /\ DecideToApply(Decided("adopt", n, p, rows[n].text, f, synced, n, p))
  /\ UNCHANGED drawn

DecideMove(n, p, f, synced) ==
  /\ KnownBytes(n, synced)
  /\ rows[n].path # p /\ Moves(ops, n) = {}
  /\ DecideToApply(Decided("move", n, p, rows[n].text, f, synced, n, p))
  /\ UNCHANGED drawn

\* The note's file is gone, or cannot be read, or a rescan did not return it.
DecideGone(n, kind) ==
  /\ rows[n] # NoRow /\ rows[n].file # NoFile
  /\ IF Unsent(rows[n]) THEN kind = "detach" ELSE kind \in {"delete", "reupload"}
  /\ DecideToApply(Decided(kind, n, rows[n].path, rows[n].text, rows[n].file,
                           rows[n].text, n, rows[n].path))
  /\ UNCHANGED drawn

DecideDisplace(n, p) ==
  /\ rows[n] # NoRow /\ Free(p)
  /\ DecideToApply(Decided("displace", n, p, rows[n].text, NoFile,
                           rows[n].text, n, p))
  /\ UNCHANGED drawn

DecideConflict(n, p, t, f, c, cp) ==
  /\ Unsent(rows[n]) /\ rows[n].text # t
  /\ Fresh(c) /\ Free(cp) /\ cp # p
  /\ DecideToApply(Decided("conflict", n, p, t, f, t, c, cp))
  /\ drawn' = drawn \cup {c}

\* Refused whole if the store no longer takes it; the next pull decides again.
Apply ==
  LET after == ApplyChange(Now, next, change)
      took  == Takes(Now, change)
      arrived == change.kind = "upsert" /\ hand.note = change.note
      touched == HandAfter(rows, after.rows)
  IN  /\ pc = "pull"
      /\ rows' = IF took THEN after.rows ELSE rows
      /\ ops' = IF took THEN after.ops ELSE ops
      /\ next' = NextSeq(ops', next)
      /\ hand' = CASE ~took \/ hand = NoHand -> hand
                   [] OTHER -> [touched EXCEPT
                        !.mark = @ /\ ~arrived,
                        !.dropped = @ /\ ~(arrived /\ rows[hand.note] = NoRow)]
      /\ Idle
      /\ UNCHANGED drawn

-----------------------------------------------------------------------------
UserApart ==
  \/ \E n \in NoteIds, p \in Paths, t \in Texts : Create(n, p, t) \/ Rename(n, p, t)
  \/ \E n \in NoteIds : StartTyping(n) \/ Delete(n)
  \/ \E t \in Texts : SaveInto(t) \/ SaveSame(t)
  \/ \E t \in Texts, c \in NoteIds, p \in Paths : SaveBeside(t, c, p)
  \/ SaveLetGo
  \/ \E q \in Paths : UndoLift(q)
  \/ \E q, p \in Paths, c \in NoteIds : UndoBeside(q, c, p)

BringsBack ==
  \/ \E t \in Texts, p \in Paths : SaveGone(t, p)
  \/ \E p \in Paths : UndoGone(p)

\* The engine has found no row for a write and has yet to complete it.
WriteOfNothing(n) == Sending("write") /\ seen = NoRow /\ held.note = n

PushStep ==
  \/ StartPush \/ Ask \/ EndDrain
  \/ \E f \in Files : Push(f) \/ PushAside(f)
  \/ \E p \in Paths : Move(p) \/ SetAside(p)
  \/ SendNothing \/ Purge \/ MeetConflict
  \/ \E f \in Files, p \in Paths : PushOver(f, p)
  \/ \E p \in Paths, cut \in BOOLEAN : StepAside(p, cut)
  \/ \E t \in Texts, f \in Files, c \in NoteIds, p \in Paths : Resolve(t, f, c, p)

PullStep ==
  \/ \E n \in NoteIds, p \in Paths, t \in Texts, f \in Files : DecideUpsert(n, p, t, f)
  \/ \E n \in NoteIds, p \in Paths, f \in Files, s \in Texts :
       DecideAdopt(n, p, f, s) \/ DecideMove(n, p, f, s)
  \/ \E n \in NoteIds, k \in {"delete", "detach", "reupload"} : DecideGone(n, k)
  \/ \E n \in NoteIds, p \in Paths : DecideDisplace(n, p)
  \/ \E n, c \in NoteIds, p, cp \in Paths, t \in Texts, f \in Files :
       DecideConflict(n, p, t, f, c, cp)
  \/ Apply

Engine == PushStep \/ PullStep \/ Fail

Next == UserApart \/ BringsBack \/ Engine \/ Crash

\* No note is brought back between the engine's finding no row for its write
\* and its completing that write.  The program does not ensure it.
NextApart ==
  \/ UserApart
  \/ BringsBack /\ ~WriteOfNothing(hand.note)
  \/ Engine
  \/ Crash

Spec == Init /\ [][Next]_vars
SpecApart == Init /\ [][NextApart]_vars

-----------------------------------------------------------------------------
(* Properties.                                                               *)

\* The types, and two facts every row keeps: an unbound row records no synced
\* text (withoutRemote clears both), and every queued op has a number of its
\* own below the auto-increment.
TypeOK ==
  /\ rows \in [NoteIds -> Row \cup {NoRow}]
  /\ ops \subseteq OpRecord
  /\ next \in Nat
  /\ drawn \subseteq NoteIds
  /\ hand \in Hand
  /\ pc \in {"idle", "drain", "sent", "clash", "aside", "pull"}
  /\ plan \subseteq Nat
  /\ held \in OpRecord \cup {NoOp}
  /\ seen \in Row \cup {NoRow}
  /\ spot \in Paths \cup {NoSpot}
  /\ change \in Change \cup {NoChange}
  /\ \A n \in NoteIds : rows[n] # NoRow /\ rows[n].file = NoFile => rows[n].synced = NoSynced
  /\ \A o \in ops : o.seq < next
  /\ \A o, q \in ops : o.seq = q.seq => o = q

\* A live note that owes no write is on the remote as it is here: clean, bound
\* to a file, and last synced with the very text it holds.  So no edit is left
\* behind by any interleaving of edits, deletes, restores, renames, settled
\* ops, conflicts and pulls (settle, applyConflict, upsertNote, reuploadNote).
NothingUnowed ==
  \A n \in NoteIds :
    Live(rows[n]) /\ Writes(ops, n) = {} =>
      /\ ~rows[n].dirty
      /\ rows[n].file # NoFile
      /\ rows[n].synced = rows[n].text

\* A tombstone owes the remote its delete and nothing else (queueDelete,
\* queueWrite): while its row is there a delete is queued and no write is.
TombstoneOwesItsDelete ==
  \A n \in NoteIds :
    Tombstone(rows[n]) => Deletes(ops, n) # {} /\ Writes(ops, n) = {}

\* An edit that will be saved into the note as its body was typed into the
\* text the note still holds: nothing an editor has not shown is overwritten
\* (bodyOrigin, saveNoteBody).
HandShowsTheRow ==
  hand.kind = "typing" /\ Live(rows[hand.note]) /\ ~hand.stale =>
    rows[hand.note].text = hand.base

\* No step of the engine loses a text the remote has not been sent: it is still
\* in a live row, owed a write, or it is what the remote was just told
\* (upsertNote's and deleteNote's refusals, applyConflict's copy, settle).
EngineKeepsUnsent ==
  [][\A n \in NoteIds : Unsent(rows[n]) =>
       \/ \E m \in NoteIds :
            /\ Live(rows'[m]) /\ rows'[m].text = rows[n].text
            /\ \/ rows'[m].dirty /\ Writes(ops', m) # {}
               \/ rows'[m].synced = rows[n].text
       \/ ~Engine]_vars

\* A note renamed again while its move was at the network stays at the newer
\* name, and owes the remote a move to it (settle, queueMove).
NewerNameKept ==
  [][\A at \in Paths :
       Move(at) /\ rows[held.note].path \notin {seen.path, held.target} =>
         /\ rows'[held.note].path = rows[held.note].path
         /\ at # rows[held.note].path =>
              \E o \in Moves(ops', held.note) : o.target = rows[held.note].path]_vars
=============================================================================

------------------------------- MODULE Sources -------------------------------
(* The sources of one device: connections bound, let go, kept detached for   *)
(* what they never sent, resumed under the account's next connection, and    *)
(* the first import of one, with the notes in them, the editor holding an    *)
(* unsaved edit through it all, and as much of the engine as moves notes     *)
(* between a source and its account (store/connection.ts, store/unsynced.ts, *)
(* store/detached.ts, store/notes.ts).                                       *)
(*                                                                           *)
(* Every action is one transaction.  `here` says whether the tab with the    *)
(* editor made a binding, or another did: what a tab remembers of sources    *)
(* (movedRows, goneSources) is its own.                                      *)
(*                                                                           *)
(* What is simplified, beyond what SourceRows leaves out:                    *)
(*   - the server names every account it binds;                              *)
(*   - a pull is a scan, decided and applied at once, a push sends one op at *)
(*     a time, and a write that meets another file waits for the next pull   *)
(*     (NoteSync has rounds, and conflicts of a push);                       *)
(*   - a deleted note is deleted from another tab than an editor holding it; *)
(*   - a resumed source has no more notes than are looked for.               *)
EXTENDS SourceRows

CONSTANTS
  Ids,        \* positive integers: the ids the server gives connections
  AccountOf,  \* the account each is to; a later id of an account is greater
  None,       \* nothing: no source, no hand, no choice, no account known
  Files,      \* the files there are at first: [account, path, text, version]
  Pile,       \* the notes in the device's own pile at first, by id
  Starts,     \* how the device may be at first: "unbound", "settled"
  MaxActs,    \* bound: what users write with no edit held
  MaxHeld,    \* bound: what they write till then and while one is
  MaxSpent,   \* bound: what users write and bind, together
  MaxBinds,   \* bound: bindings counted
  MaxFar      \* bound: what happens on the remote, and pushes cut short

VARIABLES
  stores,   \* source -> its notes and its queue, and the pile's
  src,      \* connection -> its syncState row, or None
  chosen,   \* the source chosen to be shown, or None
  hand,     \* the edit this tab has not saved: the note as shown, the word typed
  moved,    \* where this tab knows rows to have gone (movedRows)
  gone,     \* sources let go whose account this tab remembers (goneSources)
  list,     \* what a source holds unsent, as the user was shown it
  look,     \* what was found of a resumed source's files
  remote,   \* the files ever made: [account, path, text, version], or Gone
  flight,   \* a request made and not recorded
  heard,    \* sources that know their account's files as they are
  ever,     \* connections bound so far
  kept,     \* words users count on: saved, not replaced and not deleted
  may,      \* the accounts each word may be in; as many words as it is long
  staked,   \* source being imported -> words that only its finish makes safe
  thrown,   \* words staked on an import that was cancelled
  crossed,  \* the pile's words, where a source was bound while an import had them
  orphans,  \* files whose row was written over, or resumed once they were gone
  acts, binds, far

db    == <<stores, src, chosen>>
tab   == <<hand, moved, gone>>
asked == <<list, look>>
net   == <<remote, flight, heard>>
excuses == <<staked, thrown, crossed, orphans>>
ghost == <<kept, may, excuses>>
spent == <<acts, binds, far>>
vars  == <<db, tab, asked, net, ever, ghost, spent>>

Places == Ids \cup {Local}
Accounts == {AccountOf[c] : c \in Ids}

ASSUME SourcesAssumption ==
  /\ Ids \subseteq Nat \ {0} /\ NoteIds \subseteq Nat \ {0}
  /\ {MaxActs, MaxHeld, MaxSpent, MaxBinds, MaxFar} \subseteq Nat

LiveSource(c) == src[c] # None /\ src[c].live
Detached(c)   == src[c] # None /\ ~src[c].live
Verified(c)   == LiveSource(c) /\ ~src[c].unverified
Importing(c)  == LiveSource(c) /\ src[c].importing

\* The first import holds the app: nothing is written while it runs.
Held == \E c \in Ids : Importing(c)

\* The source showing, by the choice made or in want of one (activeConnectionId).
ActiveOf(sources, choice) ==
  LET there == {c \in Ids : sources[c] # None}
      live  == {c \in there : sources[c].live}
  IN  IF choice = Local \/ choice \in there THEN choice
      ELSE IF live # {} THEN Min(live) ELSE IF there # {} THEN Min(there) ELSE Local
Active == ActiveOf(src, chosen)

Source(c, importing, back, unverified, pulled) ==
  [live |-> TRUE, account |-> AccountOf[c], importing |-> importing, back |-> back,
   unverified |-> unverified, pulled |-> pulled, late |-> {}]

\* What is kept of a source let go: whose it was, and whether it was checked.
DetachedFrom(s) ==
  [s EXCEPT !.live = FALSE, !.importing = FALSE, !.back = None, !.pulled = FALSE, !.late = {}]

FileEntry(f) == [id |-> f, path |-> remote[f].path, version |-> remote[f].version, gone |-> FALSE]
FilesOf(a) == {f \in DOMAIN remote : remote[f] # Gone /\ remote[f].account = a}
Alive(f) == remote[f] # Gone
HasFile(row) == row.file # NoFile /\ Alive(row.file.id)

NewRow(p, text) == [path |-> p, text |-> text, dirty |-> TRUE, deleted |-> FALSE,
                    file |-> NoFile, synced |-> NoSynced]
RowOfFile(f) == [NewRow(Files[f].path, Files[f].text) EXCEPT
                   !.dirty = FALSE, !.file = [id |-> f, version |-> Files[f].version],
                   !.synced = Files[f].text]

First == Min(Ids)
Unbound ==
  /\ src = [c \in Ids |-> None] /\ chosen = None /\ ever = {} /\ heard = {}
  /\ stores = [c \in Places |-> IF c = Local THEN [NoStore EXCEPT !.rows = Pile @@ @] ELSE NoStore]
  /\ kept = 1..Len(may)

\* The first connection bound, and its account's notes in.
Settled ==
  LET mine == {f \in DOMAIN Files : Files[f].account = AccountOf[First]}
      rows == [n \in {Files[f].text.id : f \in mine} |->
                 RowOfFile(CHOOSE f \in mine : Files[f].text.id = n)]
  IN  /\ src = [c \in Ids |-> IF c = First THEN Source(c, FALSE, None, FALSE, TRUE) ELSE None]
      /\ chosen = First /\ ever = {First} /\ heard = {First}
      /\ stores = [c \in Places |-> IF c = First THEN [NoStore EXCEPT !.rows = rows @@ @] ELSE NoStore]
      /\ kept = {Files[f].text.body : f \in DOMAIN Files}

\* The files' words are the first, the pile's follow.
Init ==
  /\ may = [i \in 1..(Len(Files) + Cardinality(DOMAIN Pile)) |->
              IF i <= Len(Files) THEN {Files[i].account} ELSE Accounts]
  /\ \/ "unbound" \in Starts /\ Unbound
     \/ "settled" \in Starts /\ Settled
  /\ remote = Files
  /\ hand = None /\ moved = {} /\ gone = {}
  /\ list = None /\ look = None /\ flight = None
  /\ staked = [c \in Ids |-> {}] /\ thrown = {} /\ crossed = {} /\ orphans = {}
  /\ acts = 0 /\ binds = 0 /\ far = 0

-----------------------------------------------------------------------------
(* Ids and numbers nothing has.                                              *)

UsedIds(all) ==
  UNION {RowsIn(all[c]) \cup {all[c].rows[n].text.id : n \in RowsIn(all[c])} : c \in Places}
    \cup {remote[f].text.id : f \in {g \in DOMAIN remote : Alive(g)}}
    \cup (IF hand = None THEN {} ELSE {hand.key.note, hand.shown.text.id})
FreshIds(all) == InOrder(NoteIds \ UsedIds(all))
NewId == Head(FreshIds(stores))

NextNumber(all) ==
  1 + Max({0} \cup UNION {{o.seq : o \in all[c].ops} : c \in Places}
              \cup (IF flight = None THEN {} ELSE {flight.op.seq}))

\* The stores, with writes queued for notes of one.
Owing(all, c, notes) == [all EXCEPT ![c] = QueueOwed(@, notes, NextNumber(all))]

Word == Len(may)

-----------------------------------------------------------------------------
(* A tab's memory of where rows went, and where it looks for the note in     *)
(* hand.  A key is [source, note].                                           *)

Key(c, n) == [source |-> c, note |-> n]
RowAt(k) == stores[k.source].rows[k.note]

\* Back where it once was is not on from there.
Remembered(went) ==
  {m \in moved : m.from \notin {w.from : w \in went} \cup {w.to : w \in went}} \cup went

\* The last place it is known to have got to (movedRows.whereNow).
WhereNow(key) ==
  FoldLeft(LAMBDA k, i : IF \E m \in moved : m.from = k
                         THEN (CHOOSE m \in moved : m.from = k).to ELSE k,
           key, [i \in 1..8 |-> i])

SameNote(row, shown) ==
  /\ row.text.id = shown.text.id
  /\ row.file = NoFile \/ shown.file = NoFile \/ row.file.id = shown.file.id

\* A note of the pile may have gone into a source from another tab.
Candidates(h) ==
  {c \in Places : /\ stores[c].rows[h.key.note] # NoRow
                  /\ SameNote(stores[c].rows[h.key.note], h.shown)}

\* Mutant: a row of the id, under any source, is the note.
FoundAnywhere(h) ==
  IF RowAt(h.key) # NoRow THEN h.key
  ELSE LET there == {c \in Places : stores[c].rows[h.key.note] # NoRow}
       IN  IF there = {} THEN None ELSE Key(Min(there), h.key.note)

WhereShown(h) ==
  LET now == WhereNow(h.key)
  IN  IF RowAt(h.key) # NoRow THEN h.key
      ELSE IF RowAt(now) # NoRow THEN now
      ELSE IF h.key.source = Local /\ Cardinality(Candidates(h)) = 1
           THEN Key(CHOOSE c \in Candidates(h) : TRUE, h.key.note)
      ELSE None

-----------------------------------------------------------------------------
(* The user writes (store/notes.ts).                                         *)

Acts ==
  /\ acts < (IF hand = None THEN MaxActs ELSE MaxHeld) /\ acts + binds < MaxSpent
  /\ acts' = acts + 1
  /\ UNCHANGED <<binds, far>>

\* A word of the note's, which may be wherever the note may.
Says(places) == may' = Append(may, places)

Writing(c, n, row) ==
  stores' = [stores EXCEPT
    ![c] = [rows |-> [@.rows EXCEPT ![n] = row],
            ops  |-> IF row.deleted THEN QueueDelete(@.ops, NextNumber(stores), n, row)
                     ELSE IF @.rows[n] = NoRow THEN QueueWrite(@.ops, NextNumber(stores), n, row, NoSeq)
                     ELSE QueueEdit(@.ops, NextNumber(stores), n, row, @.rows[n].path)]]

Home(c) == IF c = Local THEN Accounts ELSE {AccountOf[c]}
FreeIn(c, p) == p \notin LivePaths(stores[c])

Create(p) ==
  /\ Acts /\ ~Held /\ FreeIn(Active, p)
  /\ Writing(Active, NewId, NewRow(p, [id |-> NewId, body |-> Word + 1]))
  /\ Says(Home(Active))
  /\ kept' = kept \cup {Word + 1}
  /\ UNCHANGED <<src, chosen, tab, asked, net, ever, excuses>>

Delete(n) ==
  LET row == stores[Active].rows[n]
  IN  /\ Acts /\ ~Held /\ Live(row)
      /\ Writing(Active, n, [row EXCEPT !.deleted = TRUE, !.dirty = TRUE])
      /\ kept' = kept \ {row.text.body}
      /\ UNCHANGED <<src, chosen, tab, asked, net, ever, excuses, may>>

Rename(n, p) ==
  LET row == stores[Active].rows[n]
  IN  /\ Acts /\ ~Held /\ Live(row) /\ FreeIn(Active, p)
      /\ Writing(Active, n, [row EXCEPT !.path = p, !.dirty = TRUE])
      /\ UNCHANGED <<src, chosen, tab, asked, net, ever, ghost>>

\* A keystroke, not saved yet: the app is free, and the note is showing.
Type(n) ==
  LET row == stores[Active].rows[n]
  IN  /\ Acts /\ ~Held /\ hand = None /\ Live(row)
      /\ hand' = [key |-> Key(Active, n), shown |-> row, word |-> Word + 1, stale |-> FALSE]
      /\ Says(Home(Active) \cup may[row.text.body])
      /\ UNCHANGED <<db, moved, gone, asked, net, ever, kept, excuses>>

WordsOf(c) == {stores[c].rows[n].text.body : n \in LiveRows(stores[c])}

\* Words that nothing but a source being imported has.
Stakes(c, words) ==
  staked' = [d \in Ids |-> IF d = c /\ Importing(d) THEN staked[d] \cup words ELSE staked[d]]

\* The editor's save lands, however late, in a source being imported too.
Saves(c) ==
  /\ hand # None /\ hand' = None /\ Stakes(c, {hand.word})
  /\ UNCHANGED <<moved, gone, asked, net, ever, thrown, crossed, may, spent>>

\* A save into the pile while an import holds it is late (finishImport).
WithLate(k) ==
  [c \in Ids |-> IF k.source = Local /\ Importing(c)
                 THEN [src[c] EXCEPT !.late = @ \cup {k.note}] ELSE src[c]]

\* Whether a pull, or another row of the file, has put another body there.
Replaced(k) == hand.stale \/ RowAt(k).text.body # hand.shown.text.body

\* The body it was typed into, or a tombstone's: the delete wins.
SaveInto ==
  LET k == WhereShown(hand)
      row == RowAt(k)
      edited == [row EXCEPT !.text.body = hand.word, !.dirty = TRUE]
  IN  /\ hand # None /\ k # None /\ (Tombstone(row) \/ ~Replaced(k))
      /\ Saves(k.source) /\ UNCHANGED orphans /\ src' = WithLate(k)
      /\ stores' = [stores EXCEPT
           ![k.source] = [rows |-> [@.rows EXCEPT ![k.note] = edited],
                          ops  |-> QueueWrite(@.ops, NextNumber(stores), k.note, edited, NoSeq)]]
      /\ kept' = IF Live(row) THEN (kept \ {row.text.body}) \cup {hand.word} ELSE kept
      /\ UNCHANGED chosen

\* A note made new, in its source, whenever it was first made.
Adds(c, n, p, id) ==
  LET row == NewRow(p, [id |-> id, body |-> hand.word])
  IN  /\ stores' = [stores EXCEPT
           ![c] = [rows |-> [@.rows EXCEPT ![n] = row],
                   ops  |-> QueueWrite(@.ops, NextNumber(stores), n, row, NoSeq)]]
      /\ kept' = kept \cup {hand.word}

\* The body was replaced since: the edit goes beside it.
SaveBeside ==
  LET k == WhereShown(hand)
      row == RowAt(k)
  IN  /\ hand # None /\ k # None /\ Live(row) /\ Replaced(k)
      /\ Saves(k.source) /\ UNCHANGED orphans
      /\ Adds(k.source, NewId, ConflictPath(row.path, LivePaths(stores[k.source])), NewId)
      /\ src' = WithLate(Key(k.source, NewId))
      /\ UNCHANGED chosen

\* The note is gone: made again in its source, where there is one, where this
\* tab knows it went, or under its source made again (homeOf).
HomeOf(h) ==
  LET now == WhereNow(h.key)
  IN  IF h.key.source # Local /\ src[h.key.source] # None THEN h.key
      ELSE IF now.source # Local /\ src[now.source] # None THEN now
      ELSE IF h.key.source = Local THEN Key(Active, h.key.note)
      ELSE h.key

\* Mutant: whatever row is there is the note.
TakenKeyFor(h) == HomeOf(h)

FreeKeyFor(h) ==
  LET k == HomeOf(h)
  IN  IF RowAt(k) = NoRow \/ SameNote(RowAt(k), h.shown) THEN k ELSE Key(k.source, NewId)

\* The source a note is brought back to, there or made again (ensureDetached).
EnsureDetached(sources, c) ==
  IF c = Local \/ sources[c] # None THEN sources
  ELSE [sources EXCEPT ![c] = DetachedFrom([Source(c, FALSE, None, FALSE, FALSE) EXCEPT
                                 !.account = IF c \in gone THEN @ ELSE None])]

\* The file of the row it is made again over.
Orphaned(k) ==
  IF RowAt(k) = NoRow \/ RowAt(k).file = NoFile THEN {} ELSE {RowAt(k).file.id}

SaveGone ==
  LET k == FreeKeyFor(hand)
      others == {stores[k.source].rows[n].path : n \in LiveRows(stores[k.source]) \ {k.note}}
      p == IF hand.shown.path \in others THEN ConflictPath(hand.shown.path, others) ELSE hand.shown.path
  IN  /\ hand # None /\ WhereShown(hand) = None
      /\ Saves(k.source)
      /\ orphans' = orphans \cup Orphaned(k)
      /\ Adds(k.source, k.note, p, hand.shown.text.id)
      /\ src' = EnsureDetached(WithLate(k), k.source)
      /\ chosen' = IF k.source # Local /\ src[k.source] = None /\ chosen = None THEN Active ELSE chosen

\* The tab closed, and its unsaved edit with it.
Reload ==
  /\ tab # <<None, {}, {}>>
  /\ hand' = None /\ moved' = {} /\ gone' = {}
  /\ UNCHANGED <<db, asked, net, ever, ghost, spent>>

-----------------------------------------------------------------------------
(* Sources bound, shown and let go (store/connection.ts).                    *)

\* A tab with nothing in hand is as any other.
InTab(here) == here => hand # None

\* A binding counted: what was found of a source's files is of no use after.
Binding(here) ==
  /\ InTab(here) /\ binds < MaxBinds /\ acts + binds < MaxSpent /\ binds' = binds + 1
  /\ look' = None
  /\ UNCHANGED <<acts, far>>

\* The answer to a list is carried out by a binding, by two where the source is to
\* be detached first: one they are not left for is not made, and dropped.
Answerable(source, spentOn) ==
  source # None /\ spentOn + (IF source.live THEN 2 ELSE 1) <= Min({MaxBinds, MaxSpent - acts})
KeepsList == list' = IF list # None /\ Answerable(src'[list.source], binds') THEN list ELSE None

\* What rows moved so far left behind and brought, in a move of more of them.
Nothing == [stores |-> stores, owed |-> {}, linked |-> FALSE, went |-> {}]
And(a, from, to, m) ==
  [stores |-> [a.stores EXCEPT ![from] = m.from, ![to] = m.to],
   owed   |-> a.owed \cup m.owed,
   linked |-> a.linked \/ m.linked,
   went   |-> a.went \cup {[from |-> Key(from, w.from), to |-> Key(to, w.to)] : w \in m.went}]
Moving(a, from, to, mode, only, keep) ==
  And(a, from, to, MoveRows(a.stores[from], a.stores[to], mode, only, keep, FreshIds(a.stores)))

\* What a tab remembers of it, where it was the one to do it.
Remembers(here, went) == moved' = IF here THEN Remembered(went) ELSE moved

\* An account has one connection at a time, each with a new id.
Served(c) == c \in ever /\ \A d \in ever : AccountOf[d] = AccountOf[c] => d <= c
MayBind(c) == Served(c) \/ \A d \in Ids : AccountOf[d] = AccountOf[c] => (d < c <=> d \in ever)

\* The detached sources of the account, whose rows go home.
HomesTo(c) == {d \in Ids \ {c} : Detached(d) /\ src[d].account = AccountOf[c]}

\* The rows of the source that were here all along, and owe what they never sent.
Waiting(c, a) ==
  IF Detached(c) THEN [a EXCEPT !.owed = @ \cup OwedInPlace(a.stores[c]),
                                !.linked = @ \/ AnyLinked(a.stores[c])]
  ELSE a

\* The pile, copied unless an import has it already, and kept for a cancel.
WithPile(c, first, a) == IF Held THEN a ELSE Moving(a, Local, c, "copy", NoteIds, first)

BoundSource(c, first, linked) ==
  LET was == src[c]
  IN  Source(c, first \/ (was # None /\ was.importing),
             IF first THEN Active ELSE IF was = None THEN None ELSE was.back,
             linked \/ (was # None /\ was.unverified),
             was # None /\ was.pulled)

\* The row the hand was on yielded to the one there.
YieldedTo(went) ==
  \E w \in went : w.from = WhereShown(hand) /\ w.to.source # Local /\ RowAt(w.to) # NoRow

Binds(c, here, first, homes, a) ==
  /\ stores' = Owing(a.stores, c, a.owed)
  /\ src' = [d \in Ids |-> IF d = c THEN BoundSource(c, first, a.linked)
                           ELSE IF d \in homes THEN None ELSE src[d]]
  /\ Remembers(here, a.went)
  /\ hand' = IF hand = None THEN None ELSE [hand EXCEPT !.stale = @ \/ YieldedTo(a.went)]

\* Files that rows of a source name and the account has no more.
GoneFrom(c) == {f \in DOMAIN remote : ~Alive(f) /\ HoldersOf(stores[c].rows, f) # {}}

Bind(c, here) ==
  LET homes == HomesTo(c)
      first == src[c] = None /\ homes = {}
      resumed == FoldLeft(LAMBDA a, d : Moving(a, d, c, "resume", NoteIds, FALSE),
                          Nothing, InOrder(homes))
  IN  /\ Binding(here) /\ MayBind(c)
      /\ Binds(c, here, first, homes, WithPile(c, first, Waiting(c, resumed)))
      /\ chosen' = c
      /\ ever' = ever \cup {c}
      /\ gone' = IF here THEN gone \ {c} ELSE gone
      /\ crossed' = IF Held THEN crossed \cup WordsOf(Local) ELSE crossed
      /\ KeepsList
      /\ Stakes(c, UNION {WordsOf(d) : d \in homes})
      /\ orphans' = IF c \in heard THEN orphans \cup UNION {GoneFrom(d) : d \in homes} ELSE orphans
      /\ UNCHANGED <<net, kept, thrown, may>>

Show(c) ==
  /\ Binding(FALSE) /\ ~Held
  /\ c \in {Local} \cup {d \in Ids : src[d] # None} /\ c # Active
  /\ chosen' = c
  /\ UNCHANGED <<stores, src, tab, net, ever, ghost>>
  /\ KeepsList

\* Rows, queue and all; this tab remembers whose it was.
Forgets(c, here, all) ==
  /\ stores' = [all EXCEPT ![c] = NoStore]
  /\ src' = [src EXCEPT ![c] = None]
  /\ gone' = IF here /\ src[c].account # None THEN gone \cup {c} ELSE gone

\* The rows the remote has go, and the source stays for those that stay.
Keeps(c, all, staying) ==
  /\ stores' = [all EXCEPT ![c] = KeepOnly(@, staying)]
  /\ src' = [src EXCEPT ![c] = DetachedFrom(@)]
  /\ UNCHANGED gone

\* What an editor of the tab that asks could not save first.
Holdings(c, here) ==
  IF here /\ hand # None /\ hand.key.source = c THEN {{}, {hand.key.note}} ELSE {{}}

DetachesWith(c, here, staying) ==
  /\ IF staying = {}
     THEN Forgets(c, here, stores) /\ chosen' = IF chosen = c THEN None ELSE chosen
     ELSE Keeps(c, stores, staying) /\ UNCHANGED chosen
  /\ heard' = heard \ {c}
  /\ staked' = [staked EXCEPT ![c] = {}]
  /\ KeepsList
  /\ UNCHANGED <<hand, moved, remote, flight, ever, kept, thrown, crossed, orphans, may>>

Detach(c, here) ==
  /\ Binding(here) /\ src[c] # None
  /\ \E holding \in Holdings(c, here) :
       DetachesWith(c, here, Unsynced(stores[c], src[c].unverified) \cup (holding \cap RowsIn(stores[c])))

\* The list of what a source never sent, each note as it stood: of a detached
\* one, or of one still connected that the user asks to let go of, which goes
\* on syncing meanwhile.
Stamp(row) == <<row.path, row.text, row.deleted>>
ShowList(c) ==
  /\ Answerable(src[c], binds)
  /\ list' = [source |-> c, seen |-> {<<n, Stamp(stores[c].rows[n])>> :
                                        n \in Unsynced(stores[c], src[c].unverified)}]
  /\ list' # list
  /\ UNCHANGED <<db, tab, look, net, ever, ghost, spent>>

WasSeen(st, n) == <<n, Stamp(st.rows[n])>> \in list.seen

\* What the list did not stand for stays, and what an editor holds.
LetGo(c, here, all, unseen, staying) ==
  /\ IF unseen \cup staying = {}
     THEN Forgets(c, here, all) /\ chosen' = IF chosen = c THEN None ELSE chosen
     ELSE Keeps(c, all, unseen \cup staying) /\ UNCHANGED chosen
  /\ list' = None

Unseen(st, unverified) == {n \in Unsynced(st, unverified) : ~WasSeen(st, n)}

ReleasesBut(c, here, unseen, held) ==
  /\ LetGo(c, here, stores, unseen, held)
  /\ kept' = kept \ {row.text.body : row \in
                       {stores[c].rows[n] : n \in LiveRows(stores[c]) \ (unseen \cup held)}}
  /\ UNCHANGED <<hand, moved, net, ever, excuses, may>>

Release(c, here) ==
  /\ Binding(here) /\ list # None /\ list.source = c /\ Detached(c)
  /\ \E holding \in Holdings(c, here) :
       ReleasesBut(c, here, Unseen(stores[c], src[c].unverified), holding \cap RowsIn(stores[c]))

MovesOver(c, t, here, unseen, held, moving, a) ==
  LET all == Owing(a.stores, t, a.owed)
      words == {stores[c].rows[n].text.body : n \in moving}
                 \cup (IF hand # None /\ WhereShown(hand) \in {Key(c, n) : n \in moving}
                       THEN {hand.word} ELSE {})
  IN  /\ LetGo(c, here, all, unseen, held)
      /\ Remembers(here, a.went)
      /\ Stakes(t, {stores[c].rows[n].text.body : n \in moving})
      /\ may' = [w \in DOMAIN may |-> IF w \in words THEN may[w] \cup {AccountOf[t]} ELSE may[w]]
      /\ kept' = kept \ {all[c].rows[n].text.body : n \in LiveRows(all[c]) \ (unseen \cup held)}

MovesBut(c, t, here, st, moving, held) ==
  /\ moving # {}
  /\ MovesOver(c, t, here, Unseen(st, FALSE), held, moving,
               Moving(Nothing, c, t, "copy", moving, FALSE))
  /\ UNCHANGED <<hand, net, ever, thrown, crossed, orphans>>

MoveUnsynced(c, t, here) ==
  /\ Binding(here) /\ list # None /\ list.source = c /\ Detached(c) /\ ~src[c].unverified
  /\ t # c /\ LiveSource(t)
  /\ \E holding \in Holdings(c, here) :
       MovesBut(c, t, here, stores[c],
                {n \in UnsentNotes(stores[c], FALSE) \ holding : WasSeen(stores[c], n)},
                holding \cap RowsIn(stores[c]))

-----------------------------------------------------------------------------
(* A resumed source's files looked for, and the rows cut loose where there   *)
(* are none (verifyResume).                                                  *)

Look(c) ==
  /\ LiveSource(c) /\ src[c].unverified /\ Served(c) /\ look = None
  /\ look' = [source |-> c, found |-> \E n \in RowsIn(stores[c]) : HasFile(stores[c].rows[n])]
  /\ UNCHANGED <<db, tab, list, net, ever, ghost, spent>>

\* What is found is not there for good, and the next pull says so.
Checked(c) ==
  IF look.found THEN stores
  ELSE Owing([stores EXCEPT ![c] = CutLoose(@, NextNumber(stores))], c, {})

LostElsewhere(row) == ~row.dirty /\ row.file # NoFile /\ ~Alive(row.file.id)

Verdict(c) ==
  /\ look # None /\ look.source = c
  /\ stores' = Checked(c)
  /\ src' = [src EXCEPT ![c].unverified = FALSE]
  /\ look' = None
  /\ kept' = IF ~look.found THEN kept
             ELSE kept \ {stores[c].rows[n].text.body : n \in
                            {m \in LiveRows(stores[c]) : LostElsewhere(stores[c].rows[m])}}
  /\ UNCHANGED <<chosen, tab, list, net, ever, excuses, may, spent>>

-----------------------------------------------------------------------------
(* The engine, as far as it moves notes between a source and its account.    *)

Syncing(c) == Verified(c) /\ Served(c) /\ flight = None

DecidedOf(rows, b) ==
  FoldLeft(LAMBDA ds, i : ds \o Decide(b, rows, ds, b.entries[i], remote, FreshIds(stores)[i]),
           <<>>, [i \in DOMAIN b.entries |-> i])

WithReconcile(b, rows, decided) == decided \o Reconcile(b, rows, decided, FALSE)

\* The note in hand made again by it is not the note typed into.
Pulled(c, done) ==
  /\ done.ok
  /\ stores' = [stores EXCEPT ![c] = done.st]
  /\ hand' = IF hand = None THEN None
             ELSE [hand EXCEPT !.stale =
                     @ \/ \E k \in {hand.key, WhereNow(hand.key)} :
                            k.source = c /\ RowAt(k) = NoRow /\ done.st.rows[k.note] # NoRow]

PullOf(c, b) ==
  Pulled(c, AppliedAll(stores[c], NextNumber(stores),
                       WithReconcile(b, stores[c].rows, DecidedOf(stores[c].rows, b))))

Pull(c) ==
  /\ Syncing(c) /\ c \notin heard
  /\ LET files == InOrder(FilesOf(AccountOf[c]))
     IN  PullOf(c, BatchOf([i \in DOMAIN files |-> FileEntry(files[i])], stores[c].ops, TRUE))
  /\ src' = [src EXCEPT ![c].pulled = TRUE]
  /\ heard' = heard \cup {c}
  /\ UNCHANGED <<chosen, moved, gone, asked, remote, flight, ever, ghost, spent>>

FilesAt(c, p) == {f \in FilesOf(AccountOf[c]) : remote[f].path = p}

\* A write goes to where its note is, its file with it where a queued move says
\* so; a move to its target; a file that is gone is made again.
Goes(c, op, row) ==
  LET f == row.file.id
      to == IF op.kind = "move" THEN op.target ELSE row.path
  IN  \/ /\ op.kind = "write" /\ ~HasFile(row) /\ FilesAt(c, to) = {}
         /\ remote' = Append(remote, [account |-> AccountOf[c], path |-> to, text |-> row.text, version |-> 0])
      \/ /\ op.kind # "delete" /\ HasFile(row) /\ FilesAt(c, to) \subseteq {f}
         /\ remote[f].version = row.file.version
         /\ remote[f].path = to \/ \E o \in Moves(stores[c].ops, op.note) : o.target = to
         /\ remote' = [remote EXCEPT ![f] =
              IF op.kind = "move" THEN [@ EXCEPT !.path = to]
              ELSE [@ EXCEPT !.path = to, !.text = row.text, !.version = @ + 1]]
      \/ /\ op.kind = "delete" /\ row.file # NoFile
         /\ remote' = [remote EXCEPT ![f] = Gone]

SentBy(op, row) ==
  LET f == IF HasFile(row) THEN row.file.id ELSE Len(remote) + 1
  IN  [file |-> IF op.kind = "delete" THEN NoFile ELSE [id |-> f, version |-> remote'[f].version],
       at   |-> IF op.kind = "delete" THEN NoPath ELSE remote'[f].path]

FirstOp(c) == CHOOSE o \in stores[c].ops : \A p \in stores[c].ops : o.seq <= p.seq

\* The request of the first op in the queue, made.
Send(c) ==
  LET op == FirstOp(c)
      row == stores[c].rows[op.note]
  IN  /\ Syncing(c) /\ c \in heard /\ stores[c].ops # {}
      /\ row # NoRow /\ (op.kind = "write" => Live(row)) /\ Goes(c, op, row)
      /\ flight' = [source |-> c, op |-> op, text |-> row.text] @@ SentBy(op, row)
      /\ UNCHANGED <<db, tab, asked, heard, ever, ghost, spent>>

\* Nothing to send: no note, or no file to move or to delete.
SendNothing(c) ==
  LET op == FirstOp(c)
      row == stores[c].rows[op.note]
      n == NextNumber(stores)
  IN  /\ Syncing(c) /\ c \in heard /\ stores[c].ops # {}
      /\ stores' = [stores EXCEPT
           ![c] = IF row # NoRow /\ op.kind = "delete" THEN Purged(@, n, op.seq, op.note)
                  ELSE Done(@, op.seq)]
      /\ row # NoRow =>
           \/ op.kind = "write" /\ Tombstone(row)
           \/ op.kind = "delete" /\ row.file = NoFile
           \/ op.kind = "move" /\ ~HasFile(row)
      /\ UNCHANGED <<src, chosen, tab, asked, net, ever, ghost, spent>>

\* The store takes what comes back only for a source it still syncs.
TakesFor(c) == Verified(c)

Settled1(st, fl, n) ==
  CASE fl.op.kind = "write"  -> Pushed(st, n, fl.op.seq, fl.op.note, fl.text, fl.at, fl.file)
    [] fl.op.kind = "move"   -> Moved(st, n, fl.op.seq, fl.op.note, fl.at, fl.file)
    [] fl.op.kind = "delete" -> Purged(st, n, fl.op.seq, fl.op.note)

Record ==
  /\ flight # None
  /\ LET c == flight.source
     IN  stores' = IF ~TakesFor(c) \/ stores[c].rows[flight.op.note] = NoRow THEN stores
                   ELSE [stores EXCEPT ![c] = Settled1(@, flight, NextNumber(stores))]
  /\ flight' = None
  /\ UNCHANGED <<src, chosen, tab, asked, remote, heard, ever, ghost, spent>>

Far == far < MaxFar /\ far' = far + 1 /\ UNCHANGED <<acts, binds>>

\* The answer never comes; the engine starts again with a pull.
Drop ==
  /\ Far /\ flight # None
  /\ flight' = None /\ heard' = heard \ {flight.source}
  /\ UNCHANGED <<db, tab, asked, remote, ever, ghost>>

\* The app's folder in the account emptied, or made another one.  What was only
\* there is its users' doing, but not what a row here is kept for.
Emptied(a) ==
  LET words == {remote[f].text.body : f \in FilesOf(a)}
      Counted(c, row) == IF c = Local THEN ~Held
                         ELSE row.dirty \/ row.file = NoFile \/ src[c].unverified
      held == UNION {{stores[c].rows[n].text.body : n \in
                        {m \in LiveRows(stores[c]) : Counted(c, stores[c].rows[m])}} : c \in Places}
  IN  /\ Far /\ FilesOf(a) # {} /\ flight = None
      /\ remote' = [f \in DOMAIN remote |-> IF f \in FilesOf(a) THEN Gone ELSE remote[f]]
      /\ heard' = {c \in heard : AccountOf[c] # a}
      /\ kept' = kept \ (words \ held)
      /\ UNCHANGED <<db, tab, asked, flight, ever, excuses, may>>

-----------------------------------------------------------------------------
(* The end of a first import, and a cancel of it.                            *)

\* Mutant: what was written in the pile meanwhile goes with it.
PileAlone(c) == Nothing

LateIntoSource(c) ==
  LET late == {n \in src[c].late : Live(stores[Local].rows[n])}
  IN  IF late = {} THEN Nothing ELSE Moving(Nothing, Local, c, "copy", late, FALSE)

FinishesWith(c, here, a) ==
  /\ stores' = [Owing(a.stores, c, a.owed) EXCEPT ![Local] = NoStore]
  /\ Remembers(here, a.went)

\* The queue has been through, or has stopped at an op out of attempts.
FinishImport(c, here) ==
  /\ InTab(here) /\ Importing(c) /\ src[c].pulled /\ (flight # None => flight.source # c)
  /\ FinishesWith(c, here, LateIntoSource(c))
  /\ src' = [src EXCEPT ![c].importing = FALSE, ![c].back = None, ![c].late = {}]
  /\ staked' = [staked EXCEPT ![c] = {}]
  /\ UNCHANGED <<chosen, hand, gone, asked, net, ever, kept, thrown, crossed, orphans, may, spent>>

\* Everything the import brought is thrown away, and what was in front is back.
AbandonImport(c, here) ==
  /\ Binding(here) /\ Importing(c)
  /\ Forgets(c, here, stores)
  /\ chosen' = src[c].back
  /\ heard' = heard \ {c}
  /\ thrown' = thrown \cup staked[c]
  /\ staked' = [staked EXCEPT ![c] = {}]
  /\ KeepsList
  /\ UNCHANGED <<hand, moved, remote, flight, ever, kept, crossed, orphans, may>>

-----------------------------------------------------------------------------

Names == {<<1>>, <<2>>}

User ==
  \/ \E p \in Names : Create(p) \/ \E n \in NoteIds : Rename(n, p)
  \/ \E n \in NoteIds : Delete(n) \/ Type(n)
  \/ SaveInto \/ SaveBeside \/ SaveGone \/ Reload
Bindings ==
  \/ \E c \in Places : Show(c)
  \/ \E c \in Ids, here \in BOOLEAN :
       \/ Bind(c, here) \/ FinishImport(c, here) \/ AbandonImport(c, here)
       \/ Detach(c, here) \/ Release(c, here)
       \/ \E t \in Ids : MoveUnsynced(c, t, here)
  \/ \E c \in Ids : ShowList(c) \/ Look(c) \/ Verdict(c)
Engine == \/ \E c \in Ids : Pull(c) \/ Send(c) \/ SendNothing(c)
          \/ Record
Faults == Drop \/ \E a \in Accounts : Emptied(a)

Next == User \/ Bindings \/ Engine \/ Faults

Spec == Init /\ [][Next]_vars

-----------------------------------------------------------------------------
(* Properties.                                                               *)

RowsOf(c) == {stores[c].rows[n] : n \in RowsIn(stores[c])}
LiveOf(c) == {row \in RowsOf(c) : Live(row)}

Somewhere(w) ==
  \/ \E c \in Places : \E row \in LiveOf(c) : row.text.body = w
  \/ \E f \in DOMAIN remote : Alive(f) /\ remote[f].text.body = w

\* What a user has saved and not replaced, deleted or discarded is in a note on
\* this device or in a file of an account, whatever is bound, let go of, resumed
\* or cancelled (keepOnly, moveRowsTo, cutLoose, finishImport, abandonImport).
\* Two kinds of words are excepted, both against what comments in the code say.
\* What only a source being imported has, a save that landed in it late, a note
\* moved into it unsent or a row resumed into it, goes with it when the import is
\* cancelled (`thrown`), though "held, nothing can have been" written in it
\* (abandonImport).  And the pile's may go where a source was bound while an import
\* held a copy of it (`crossed`), though "every row of it is in the source now"
\* (finishImport): whichever import finishes first clears the pile, and a bind of
\* an importing source again makes late saves old ones.
NothingLost == \A w \in kept \ (thrown \cup crossed) : Somewhere(w)

\* A note is in a source this device has, where something shows it and sends it,
\* and its words in no account but those they may be in: the one they were written
\* for, any for the pile's, and where the user said to move them (whereShown,
\* homeOf, freeKeyFor, ensureDetached, moveUnsyncedTo).
Silo ==
  /\ \A c \in Ids : \A row \in RowsOf(c) : src[c] # None /\ AccountOf[c] \in may[row.text.body]
  /\ \A f \in DOMAIN remote : Alive(f) => remote[f].account \in may[remote[f].text.body]

\* No two notes of a source are one file, which a resume beside rows pulled since
\* could make them (moveRowsTo's twins).
OneRowPerFile == \A c \in Ids : \A f \in DOMAIN remote : Cardinality(HoldersOf(stores[c].rows, f)) <= 1

\* A source that has heard its account and owes it nothing holds exactly its
\* files: what was carried, cut loose or copied is queued until it is there.  But,
\* until a re-scan, for two kinds of files (`orphans`): one whose row an edit held
\* from the pile was written over, with the note in two sources, which no row may
\* name any more (bringBack, freeKeyFor); and one that was gone before its row was
\* resumed into a source that had pulled, whose cursor will not tell of it again
\* (bindConnection, verifyResume).
Agrees ==
  \A c \in heard :
    LET apart == {f \in orphans : HoldersOf(stores[c].rows, f) = {} \/ ~Alive(f)}
        IdOf(row) == IF row.file = NoFile THEN 0 ELSE row.file.id
    IN  Syncing(c) /\ stores[c].ops = {} =>
          {[path |-> row.path, text |-> row.text, id |-> IdOf(row)] :
             row \in {r \in LiveOf(c) : IdOf(r) \notin apart}}
            = {[path |-> remote[f].path, text |-> remote[f].text, id |-> f] :
                 f \in FilesOf(AccountOf[c]) \ apart}
=============================================================================

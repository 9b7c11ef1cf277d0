------------------------------- MODULE PullRun -------------------------------
(* One run of the engine on a device: a round of changes read page by page,  *)
(* or a scan listed page by page and applied page by page; a dead cursor     *)
(* answered with a scan, an expired token with one renewal; then the push.   *)
(*                                                                           *)
(* A note is its identity and a file one of the births of a note, so what a  *)
(* file holds is told by its name.  What is simplified:                      *)
(*   - a batch is decided in the step that applies it, and a note is at one  *)
(*     path: NoteStore and NotePull are about what comes in between;         *)
(*   - versions and texts: a note with an edit to send is dirty, and the     *)
(*     push sends dirty notes in any order, one request each;                *)
(*   - a provider's listing names every file that is there all the while,    *)
(*     and its cursor tells of every change since the first page.            *)
EXTENDS Naturals, Sequences, FiniteSets

CONSTANTS Notes,
          MaxBirths,     \* files a note may have, one after another
          NoRow, NoFile

Files == Notes \X (1..MaxBirths)
Rows  == [file : Files \cup {NoFile}, dirty : BOOLEAN]

ASSUME PullRunAssumption ==
  /\ MaxBirths \in Nat \ {0}
  /\ NoFile \notin Files /\ NoRow \notin Rows

VARIABLES
  row,      \* Note -> its row on this device
  cursor,   \* the stored cursor: none, good, or dead in one of two ways
  remote,   \* the files there are
  births,   \* Note -> files it has had
  news,     \* what a good cursor has yet to tell of
  pc,       \* where the run is
  run,      \* what the run holds in memory
  calm,     \* from here on nothing happens but the engine's own steps
  deleted,  \* history: notes somebody has deleted, or has agreed to lose
  mayReturn \* history: notes there was a reason to send to the remote

vars == <<row, cursor, remote, births, news, pc, run, calm, deleted, mayReturn>>
world == <<remote, births, news>>

Kinds == {"reset", "upload"}
Idle == [rescan |-> "no",      \* the scan a dead cursor was answered with
         page   |-> "stored",  \* the cursor the next page is asked with
         pos    |-> {},        \* what that cursor has yet to tell of
         told   |-> [f \in {} |-> FALSE],
         due    |-> {},        \* files the listing still has to name
         pages  |-> <<>>, seen |-> {},
         renewed |-> FALSE,    \* the run's one renewal is spent
         todo   |-> {}]        \* notes the push has still to send

Init ==
  /\ row = [n \in Notes |-> NoRow] /\ cursor = "none"
  /\ \E there \in SUBSET Notes :
       /\ remote = {<<n, 1>> : n \in there}
       /\ births = [n \in Notes |-> IF n \in there THEN 1 ELSE 0]
  /\ news = {} /\ pc = "idle" /\ run = Idle /\ calm = FALSE
  /\ deleted = {} /\ mayReturn = {}

Held(r) == {n \in Notes : r[n] # NoRow}
Dirty(r) == {n \in Held(r) : r[n].dirty}

-----------------------------------------------------------------------------
(* What a batch makes of the rows.                                           *)

\* The file of note n a batch says is there, if it says so of one; a file it
\* never had must be read, and one gone by then is none.
There(n, told) == {f \in DOMAIN told : f[1] = n /\ told[f]}
Readable(n, told) == IF row[n] = NoRow THEN There(n, told) \cap remote ELSE There(n, told)

\* A file gone: an edit not sent makes the note again, anything else goes.
Forgotten(r) == IF r.dirty THEN [r EXCEPT !.file = NoFile] ELSE NoRow
\* Absent from a scan that may be missing things: sent back up.
SentBack(r) == [file |-> NoFile, dirty |-> TRUE]

DecidedNote(n, told) ==
  LET there == Readable(n, told)
      r     == row[n]
  IN  IF there # {} THEN LET f == CHOOSE g \in there : TRUE IN
           IF r = NoRow THEN [file |-> f, dirty |-> FALSE] ELSE [r EXCEPT !.file = f]
      ELSE IF r # NoRow /\ r.file \in DOMAIN told THEN Forgotten(r)
      ELSE r
DecideAll(told) == [n \in Notes |-> DecidedNote(n, told)]

\* Mutant: every page is reconciled as though it were the last.
ReconciledEachPage(rows, seen, upload, last) ==
  [n \in Notes |->
     IF rows[n] = NoRow \/ rows[n].file \in seen \cup {NoFile} THEN rows[n]
     ELSE IF upload THEN SentBack(rows[n]) ELSE Forgotten(rows[n])]

\* The last page's word on every row the scan did not return.
Reconcile(rows, seen, upload, last) ==
  [n \in Notes |->
     IF ~last \/ rows[n] = NoRow \/ rows[n].file \in seen \cup {NoFile} THEN rows[n]
     ELSE IF upload THEN SentBack(rows[n]) ELSE Forgotten(rows[n])]

-----------------------------------------------------------------------------
(* The pull.                                                                 *)

Ends == pc' = "idle" /\ run' = Idle
\* Mutant: any scan in answer to a dead cursor sends back what it misses.
UploadAlways == run.rescan # "no"
Upload == run.rescan = "upload"

\* A round from the stored cursor; a scan where there is none, or where one
\* already answers a dead one.
Attempt(r) ==
  /\ run' = [Idle EXCEPT !.renewed = r.renewed, !.rescan = r.rescan]
  /\ pc' = IF cursor # "none" /\ r.rescan = "no" THEN "read" ELSE "list"

Start ==
  /\ pc = "idle"
  /\ Attempt(Idle)
  /\ UNCHANGED <<row, cursor, world, calm, deleted, mayReturn>>

\* The cursor a page is asked with, and what it has yet to tell of.
Asked == IF run.page = "stored" THEN cursor ELSE run.page
Unheard == IF run.page = "stored" THEN news ELSE run.pos

ReadPage ==
  /\ pc = "read" /\ Asked = "good"
  /\ \E S \in SUBSET Unheard :
       /\ Unheard # {} => S # {}
       /\ run' = [run EXCEPT !.page = "good", !.pos = Unheard \ S,
                  !.told = [f \in DOMAIN @ \cup S |-> IF f \in S THEN f \in remote ELSE @[f]]]
       /\ pc' = IF Unheard = S THEN "decided" ELSE "read"
  /\ UNCHANGED <<row, cursor, world, calm, deleted, mayReturn>>

CursorRefused ==
  \/ pc = "read" /\ Asked \in Kinds
  \/ pc = "listing" /\ run.page \in Kinds

\* Mutant: a refused cursor is a failure like any other.
RefusedForGood ==
  /\ CursorRefused
  /\ Ends
  /\ UNCHANGED <<row, cursor, world, calm, deleted, mayReturn>>

\* The page's cursor is refused.  A scan answers it, unless this is one that
\* already does: then the run ends.
RefusedCursor ==
  /\ CursorRefused
  /\ IF run.rescan = "no"
     THEN Attempt([run EXCEPT !.rescan = Asked])
     ELSE Ends
  /\ UNCHANGED <<row, cursor, world, calm, deleted, mayReturn>>

\* What is held under a cursor that may have lost something may be sent back.
Doubted == mayReturn' = IF cursor' = "upload" THEN mayReturn \cup Held(row') ELSE mayReturn

\* A round is one transaction, the cursor with it.
ApplyRound ==
  /\ pc = "decided"
  /\ row' = DecideAll(run.told)
  /\ cursor' = run.page /\ news' = run.pos
  /\ pc' = "push" /\ run' = [Idle EXCEPT !.todo = Dirty(row')]
  /\ Doubted
  /\ UNCHANGED <<remote, births, calm, deleted>>

\* A page of a listing names some of the files there are, those it must have
\* named among them by the last.
ListPage ==
  /\ \/ pc = "list"
     \/ pc = "listing" /\ run.page = "good"
  /\ LET named == UNION {run.pages[i] : i \in DOMAIN run.pages}
         due   == IF pc = "list" THEN remote ELSE run.due
         pos   == IF pc = "list" THEN {} ELSE run.pos
     IN  \E S \in SUBSET (remote \ named) :
           /\ due # {} => S \cap due # {}
           /\ run' = [run EXCEPT !.page = "good", !.pos = pos, !.due = due \ S,
                                 !.pages = Append(@, S)]
           /\ pc' = IF due \subseteq S THEN "apply" ELSE "listing"
  /\ UNCHANGED <<row, cursor, world, calm, deleted, mayReturn>>

\* Mutant: the cursor goes with the first page.
CursorAtOnce(last) == TRUE
\* Pages of a scan carry no cursor but the last.
CarriesCursor(last) == last

\* The scan page by page, each a transaction of its own.
ApplyPage ==
  /\ pc = "apply"
  /\ LET page == Head(run.pages)
         last == Len(run.pages) = 1
         seen == run.seen \cup page
         rows == DecideAll([f \in page |-> TRUE])
     IN  /\ row' = Reconcile(rows, seen, Upload, last)
         /\ IF CarriesCursor(last) THEN cursor' = run.page /\ news' = run.pos
                                   ELSE UNCHANGED <<cursor, news>>
         /\ pc' = IF last THEN "push" ELSE "apply"
         /\ run' = IF last THEN [Idle EXCEPT !.todo = Dirty(row')]
                   ELSE [run EXCEPT !.pages = Tail(@), !.seen = seen]
         /\ Doubted
  /\ UNCHANGED <<remote, births, calm, deleted>>

-----------------------------------------------------------------------------
(* The push: each note owed, sent once.                                      *)

\* Another change the stored cursor has yet to tell of, and the page's.
Changed(f) ==
  /\ news' = news \cup {f}
  /\ run' = [run EXCEPT !.pos = IF run.page = "stored" THEN @ ELSE @ \cup {f},
                        !.due = IF f \in remote' THEN @ ELSE @ \ {f}]

\* A note with no file of its own there is made again, unless its bytes
\* already are at its path: a request whose answer was lost made them.
Make(n) ==
  /\ {f \in remote : f[1] = n} = {}
  /\ remote' = remote \cup {<<n, births[n] + 1>>}
  /\ births' = [births EXCEPT ![n] = @ + 1]
  /\ news' = news \cup {<<n, births[n] + 1>>}

Sent(n) == run' = [run EXCEPT !.todo = @ \ {n}]
Settled(n, f) == row' = [row EXCEPT ![n] = [file |-> f, dirty |-> FALSE]]

Push(n) ==
  /\ pc = "push" /\ n \in run.todo /\ Sent(n)
  /\ IF row[n] = NoRow \/ ~row[n].dirty THEN UNCHANGED <<row, world>>
     ELSE \/ \E f \in remote : f[1] = n /\ Settled(n, f) /\ UNCHANGED world
          \/ Make(n) /\ Settled(n, <<n, births'[n]>>)
  /\ UNCHANGED <<cursor, pc, calm, deleted, mayReturn>>

PushEnds ==
  /\ pc = "push" /\ run.todo = {} /\ Ends
  /\ UNCHANGED <<row, cursor, world, calm, deleted, mayReturn>>

-----------------------------------------------------------------------------
(* What goes wrong.                                                          *)

\* Mutant: a renewal is forgotten, so every refusal asks for another.
RenewedEachTime == [run EXCEPT !.renewed = FALSE]
Renewed == [run EXCEPT !.renewed = TRUE]

\* A request is refused for its token.  One renewal is tried, once for the
\* pull and once for the push; a second refusal, or none to be had, pauses.
RefusedToken ==
  /\ pc # "idle"
  /\ \/ Ends
     \/ /\ ~run.renewed
        /\ IF pc = "push" THEN run' = Renewed /\ UNCHANGED pc ELSE Attempt(Renewed)
  /\ UNCHANGED <<row, cursor, world, calm, deleted, mayReturn>>

\* The network, the store, or the tab goes; or a write lands and its answer
\* does not.
Interrupted ==
  /\ pc # "idle" /\ Ends
  /\ \/ UNCHANGED world
     \/ /\ pc = "push"
        /\ \E n \in Dirty(row) \cap run.todo : Make(n)
  /\ UNCHANGED <<row, cursor, calm, deleted, mayReturn>>

\* The provider lets go of its cursors.
CursorDies ==
  /\ cursor' = IF cursor = "good" THEN "reset" ELSE cursor
  /\ run' = [run EXCEPT !.page = IF @ = "good" THEN "reset" ELSE @]
  /\ UNCHANGED <<row, world, pc, calm, deleted, mayReturn>>

\* Bound: a note's last birth is not taken away.
Losable == {f \in remote : f[2] < MaxBirths}

\* The provider loses a file of its own, and says so of the cursors it gave:
\* not where it gave none, nor of a scan it has already refused one for.
Lose(f) ==
  /\ f \in Losable /\ cursor # "none" /\ run.rescan # "reset"
  /\ remote' = remote \ {f}
  /\ cursor' = "upload"
  /\ run' = [run EXCEPT !.page = IF @ = "stored" THEN @ ELSE "upload", !.due = @ \ {f}]
  /\ mayReturn' = mayReturn \cup Held(row)
  /\ UNCHANGED <<row, births, news, pc, calm, deleted>>

-----------------------------------------------------------------------------
(* The user and the other devices.                                           *)

Write(n) ==
  /\ row[n] = NoRow => births[n] = 0
  /\ row' = [row EXCEPT ![n] = IF @ = NoRow THEN [file |-> NoFile, dirty |-> TRUE]
                               ELSE [@ EXCEPT !.dirty = TRUE]]
  /\ mayReturn' = mayReturn \cup {n}
  /\ UNCHANGED <<cursor, world, pc, run, calm, deleted>>

\* The user has everything read again, and is told that what the provider no
\* longer has goes here too.
Resync ==
  /\ pc = "idle" /\ cursor # "none"
  /\ cursor' = "none"
  /\ deleted' = deleted \cup {n \in Held(row) : row[n].file \notin remote}
  /\ UNCHANGED <<row, world, pc, run, calm, mayReturn>>

OtherMakes(n) ==
  /\ births[n] = 0 /\ row[n] = NoRow
  /\ births' = [births EXCEPT ![n] = 1] /\ remote' = remote \cup {<<n, 1>>}
  /\ Changed(<<n, 1>>)
  /\ UNCHANGED <<row, cursor, pc, calm, deleted, mayReturn>>

OtherDeletes(f) ==
  /\ f \in Losable
  /\ remote' = remote \ {f} /\ deleted' = deleted \cup {f[1]}
  /\ Changed(f)
  /\ UNCHANGED <<row, cursor, births, pc, calm, mayReturn>>

Calm == ~calm /\ calm' = TRUE
        /\ UNCHANGED <<row, cursor, world, pc, run, deleted, mayReturn>>

-----------------------------------------------------------------------------

Engine ==
  \/ Start \/ ReadPage \/ RefusedCursor \/ ApplyRound \/ ListPage \/ ApplyPage
  \/ \E n \in Notes : Push(n)
  \/ PushEnds

Others ==
  /\ ~calm
  /\ \/ RefusedToken \/ Interrupted \/ CursorDies \/ Resync \/ Calm
     \/ \E f \in remote : Lose(f) \/ OtherDeletes(f)
     \/ \E n \in Notes : Write(n) \/ OtherMakes(n)

Next == Engine \/ Others
Spec == Init /\ [][Next]_vars
FairSpec == Spec /\ WF_vars(Engine)

-----------------------------------------------------------------------------
(* What is checked.                                                          *)

AsOnTheRemote == \A n \in Notes :
  /\ row[n] = NoRow <=> {f \in remote : f[1] = n} = {}
  /\ row[n] # NoRow => row[n].file \in remote

\* However its scans were cut, a run that has heard everything and owes
\* nothing leaves the device with a row for each file there is.
\* applyScan, reconcile (pull/run.ts): one scan is one batch with one cursor.
QuietAgree ==
  pc = "idle" /\ cursor = "good" /\ news = {} /\ Dirty(row) = {} => AsOnTheRemote

\* A note goes from this device only if somebody deleted it: not because a
\* page had not named it yet, and not because the provider lost its copy.
\* reconcile with upload; the stored cursor kept until the scan is whole.
GoesOnlyIfDeleted ==
  [][\A n \in Notes : row[n] # NoRow /\ row'[n] = NoRow => n \in deleted]_vars

\* A note another device deleted is sent back only if it was written here, or
\* held while the provider said it may have lost something.
\* rescan, its flag kept for the one scan it is about (pull/run.ts).
SentForCause ==
  [][\A n \in Notes : births'[n] > births[n] /\ row[n] # NoRow => n \in mayReturn]_vars

\* Every run comes to an end, though its cursors and tokens be refused for
\* ever: one renewal and one scan in answer to a dead cursor.
RunEnds == pc # "idle" ~> pc = "idle"

\* Once nothing else happens the device comes to agree with the remote,
\* whatever was cut short before.
CatchesUp == calm ~> AsOnTheRemote /\ Dirty(row) = {}
=============================================================================

# TLA+ models of skysa-notes

skysa-notes keeps Markdown notes in the browser (IndexedDB, through Dexie) and
syncs them with a folder of the user's own cloud storage (Dropbox, Google Drive,
OneDrive).  There is no note server: `apps/api` only holds OAuth secrets, mints
access tokens and relays "something changed" between devices.  Whatever can go
wrong with the user's text goes wrong in the browser: between the user who types,
the queue that remembers what is owed to the remote, the engine that is at the
network for seconds at a time, the other tabs of the same browser, and the other
devices on the same folder.

This directory models that part, checks the models with TLC on small instances,
and proves the most important invariants with TLAPS for instances of any size.

- [Inventory](#inventory): the parts, their state, how they interact, what is hard
- [Plan](#plan): the modules and how they build on each other
- [Modules](#modules): what each models and how it corresponds to the code
- [Runs](#runs): what TLC checks, with which bounds
- [Proofs](#proofs): what TLAPS proves and along which argument
- [Findings](#findings): where code and comment disagree, and what else was seen
- [Not modelled](#not-modelled)

Check a module with `tlc -config NoteStore.cfg MCNoteStore`, a proof with
`tlapm NoteStore_proofs.tla`.  `PROJECT.json` lists the runs, the lines of the
source each definition stands for, the hazards, and for every property a mutant
of the model (a plausible bug) that breaks it.

## Inventory

Paths are relative to the repository; `core` is `packages/core/src`, `web` is
`apps/web/src`, `api` is `apps/api/src`.

### One device

| part | state it keeps | operations | who calls it |
|---|---|---|---|
| note writers, `web/store/notes.ts` | the `notes` table: path, text, dirty, deleted, remoteId, remoteVersion, syncedHash | create, edit, save a body, rename, move, delete, undo, bring back, copy beside | the UI, any tab, any moment |
| push queue, `web/store/queue.ts` | the `opQueue` table, in order of an auto-increment: write, move, delete, mkdir, rmdir, move-folder, upload, move-file, delete-file | queueWrite, queueMove, queueDelete, queueRestore, ... always inside the writer's own transaction | the writers and the sync store |
| editor sessions, `web/store/heldEdits.ts`, `deletedHere.ts`, `components/note/useNoteSession.ts` | the text typed and not saved; where the shown body came from; the mark "deleted from this tab" | saveNoteBody, retried | React components |
| sync store, `web/sync/store.ts` | the same tables, and the cursor in `syncState` | applyChanges (one batch and its cursor in one transaction), completeOp / settle, resolveConflict, failOp | the engine |
| pull, `core/sync/pull/*` | nothing kept between runs but the cursor; a batch being decided | fetch changes from a cursor, read the files, decide entry by entry, apply, reconcile after a full scan | the scheduler |
| push, `core/sync/push/*` | the queue as it was read; what is at the network | drain the queue in order, a few writes together; resolve a refused write | the scheduler |
| folders and files, `core/sync/{pull,push}/{folders,files,attachments,cascade}.ts` | `folders`, `files` tables | the same for directories and attachments | pull and push |
| scheduler, `web/sync/scheduler.ts` | the session (generation, flags, failures, run in flight), the timers, a pause, the status | triggers (open, focus, online, minute, edit, relay notice, Sync now, re-scan, pause, halt), one run at a time per connection | browser events, the UI |
| tokens, `web/sync/tokens.ts` | the access token in memory and in the row, the mint under way, the last refusal | get, refresh | the provider adapter, the engine |
| connections, `web/store/connection.ts`, `unsynced.ts`, `detached.ts` | the `syncState` rows (bound, detached, importing, unverified), the source shown, the device's own pile; in each tab, where rows went (`movedRows`) and which sources went (`goneSources`) | bind, resume under another id, check what was resumed, detach, release, move what was never sent, finish or cancel a first import | the UI, another tab |

### Between devices

| part | state | operations |
|---|---|---|
| provider port, `core/providers/types.ts` and its adapters | the files: id, path, version, bytes; a change feed | write with an expected version, move by id, delete by id, read, changes from a cursor |
| relay, `api/relay/*`, `web/sync/relay.ts` | sockets by grant, an hour each | pushed -> changed to every other device |
| credentials, `api/routes/*`, `api/db/connections.ts` | connections with a sealed refresh token, grants by hash | connect, mint, revoke, disconnect |

### What is hard

- *The engine reads, goes away, and comes back.*  `runWrite` reads a note, sends
  its text, and records the outcome against a row the user may have edited,
  renamed, deleted, restored, or a row that is gone.  A pull decides against rows
  as they were and applies later.  Every such pair is guarded in the store
  (`settle`, `upsertNote`, `deleteNote`, `requireNote`), case by case.
- *The queue is edited while it is drained*: ops are merged, withdrawn, rebased
  and re-queued by writers, pulls and settles.
- *What the user holds is not in the store*: an edit typed into a body a pull has
  replaced since; the undo of a delete whose row was purged since.
- *Crashes*: between the remote's taking a write and the store's recording it.
- *Two devices, two tabs*: version checks on the remote, conflict copies, adopted
  files, a lock per connection, sessions that end while a run is in flight.
- *Sources come and go*: rows are moved, copied, carried or thrown away when a
  connection is bound, let go of or resumed, while an edit is unsaved, a request is
  in flight, and other tabs do the same.
- *Time*: backoff, a blocked queue, a pause, an offline event, a nudge in a run.

### What makes each part correct

- queue and writers: every edit is owed to the remote until it is there; a
  tombstone owes its delete and nothing else; an op is never lost, and never
  describes a note that has moved on;
- sync store: no outcome or decision overwrites what the user did meanwhile;
- push and pull together: no text either device wrote is lost unless the user
  replaced or deleted it; one row per remote file; a version held means the bytes
  it names; with the network up and the users resting, the devices agree;
- scheduler: a trigger is not forgotten, one run at a time, nothing runs while
  paused or for a session that ended, what fails is retried in time;
- pull run: a scan cut short anywhere costs nothing but time, and every run ends;
- files and folders: a copy outlives its original, what is let go of is removed from
  the remote with nothing of others in it, and a pulled tree is the remote's;
- connections: no saved word is lost when a source is bound, let go or resumed, and
  none gets into an account it was not written for;
- tokens: a token that was refused is not handed out again, one mint at a time;
- relay: a revoked or expired seat hears nothing more;
- credentials: a hash is bound to one connection for ever.

## Plan

A module is written so that it can be proved about: constants with named assumptions,
one action per operation, invariants as named conjuncts, no recursive operators
(but one, in `FolderPull`).  What a transaction does to rows and ops is a
constant-level operator; a module with variables runs such operators.

| module | models | built on | runs |
|---|---|---|---|
| `NoteQueue` | the push queue and what a store transaction does to rows and ops | | |
| `NoteStore` | one device: writers, editor, push and pull steps of the engine, against any answer of a provider | `NoteQueue` | `note_store`, `brought_back` |
| `NoteStore_proofs` | its inductive invariant, and six theorems | `NoteStore` | |
| `Scheduler` | one tab: sessions, runs, timers, triggers, pause | | `scheduler`, `scheduler_live` |
| `Scheduler_proofs` | its inductive invariant, and five theorems | `Scheduler` | |
| `NotePull` | how a pull decides a batch about notes, entry by entry | `NoteQueue` | |
| `NoteSync` | devices on one remote with versions, a feed, lost answers, dead cursors | `NotePull` | `note_sync`, `note_sync_live` |
| `NoteSync_proofs` | the inductive invariant behind `InStep`, and two theorems | `NoteSync` | |
| `NoteSyncKept_proofs` | the inductive invariant behind `NoEditLost`: that no edit is lost | `NoteSync_proofs` | |
| `PullRun` | pages, the cursor, a scan and its reconciliation, a dead cursor, a refused token | | `pull_run` |
| `PullRun_proofs` | its inductive invariant, and four theorems | `PullRun` | |
| `FileQueue` | files beside notes, notebooks, and the ops owed for both | | |
| `FilePush` | the drain of those ops, request by request, with attempts and ops stepped over | `FileQueue` | `file_push` |
| `FilePush_proofs` | what each operator of `FileQueue` makes of a store, the inductive invariant of `FilePush`, and five theorems | `FilePush` | |
| `FilePushOwed_proofs` | what is owed at every moment; that with nothing owed the sides agree, and that no directory stands that was let go of | `FilePush_proofs` | |
| `FolderPull` | how a pull decides a round that speaks of folders, and what the store makes of it | `NotePull` | |
| `Folders` | a device and a remote on which folders and notes are made, moved and deleted, with two kinds of feed | `FolderPull` | `folders`, `subfolder_lost` |
| `SourceRows` | what becomes of a source's notes when it is bound, let go of, resumed or moved | `NotePull` | |
| `Sources` | connections bound, let go and resumed around an unsaved edit and a request in flight | `SourceRows` | `sources` |
| `Claims` | what the server promises of a credential's hash (abstract) | | |
| `Grants` | the server's connections and grants, the requests that write them, the relay's sockets | implements `Claims` | `grants` |
| `Grants_proofs` | four theorems about it, the refinement among them | `Grants` | |

Worth proving next: `KeepsItsName` of `FilePush`, `Silo` and
`OneRowPerFile` of `Sources`, and `NoSecondRow` of `NoteSync`.  Worth composing next: a pull of
folders with a push of files, and `Sources` with rounds in place of scans.

## Modules

### NoteQueue

Operators on a store `[rows, ops]`: what `web/store/queue.ts` queues
(`QueueWrite`, `QueueMove`, `QueueDelete`, `QueueRestore`), what `settle` in
`web/sync/store.ts` records (`Pushed`, `Moved`, `Purged`, `Done`), what each change
of a pull does (`Upsert`, `AdoptVersion`, `MoveNote`, `DeleteNote`, `DetachNote`,
`DisplaceNote`, `ReuploadNote`, `Conflict`) and when the store refuses it (`Takes`).
Each is one function of the code.  A row keeps path, text, `dirty`, `deleted`,
the remote file and the text last synced (`syncedHash`); a text is one value that
includes its frontmatter; an op keeps its number, kind, note and the two ends of
a move.  In every module, operators named "Mutant" above a definition are bugs the
definition must not have; no action uses them.

### NoteStore

| in the model | in the code |
|---|---|
| `rows`, `ops`, `next` | the `notes` and `opQueue` tables, the auto-increment |
| `drawn` | no variable: ids are random, so an id is never drawn twice |
| `hand` | an editor's text not saved yet with the origin of its body (`heldEdits.ts`, `bodyOrigin`), the mark of `deletedHere.ts`, or the undo on offer |
| `pc`, `plan`, `held`, `seen`, `spot` | the locals of `drainOps`, `runOp`, `runWrite`, `resolvePushConflict` across their awaits |
| `change` | what a pull decided before `applyChanges` |
| `Create`, `Rename`, `Delete`, `Save...`, `Undo...` | the writers of `web/store/notes.ts`, one transaction each |
| `Ask`, `Push`, `Move`, `Purge`, `SendNothing`, `MeetConflict`, `PushOver`, `SetAside`, `StepAside`, `Resolve`, `Fail` | `core/sync/push`: an op asked for again, sent, and its outcome settled or refused |
| `Decide...`, `Apply` | `core/sync/pull/notes.ts` deciding, `applyChanges` applying |
| `Crash` | the tab closed: memory gone, tables kept |

The remote is not a state: an action takes any file, path or text a provider could
answer with, so what holds here holds for any remote, including one that lies
about versions.  A pull applies one change at a time (the code's batch is one
transaction; a batch of one is the case in which most can come between), attempts
are not counted, and one edit is in a hand at a time.

### NotePull

`core/sync/pull` without its input and output: from the rows of a device, the queue
as the batch first read it, the entries and what was decided so far to the changes
the next entry calls for.  `After` is `placement` (every decision is reached against
the rows as they will be), `NoteForEntry` and `MayClaim` are `noteForEntry`,
`DecideFile`, `DecideKnown`, `DecideDeleted`, `Reconcile` the functions of those
names.  A path is a base name and the numbers of the conflict suffixes it carries,
`ConflictPath` what `conflictPath` makes of it when every conflict falls within one
minute, when names meet most.

### NoteSync

| in the model | in the code |
|---|---|
| `remote`, `news` | the provider as `providers/types.ts` promises it and `providers/fake.ts` does it: files under ids never used again, a version per write, the ids the next `changes(cursor)` has to tell of |
| `cursor` | the stored cursor: good, or dead, as `CursorResetError` says with or without `uploadDifferences` |
| `rows`, `ops` | the tables of each device |
| `eng` | where a device's run is: reading and deciding (`decide`), applying, draining, or between two requests of `runWrite`, `runMove`, `runDelete`, `resolvePushConflict`, with the locals they hold |
| `Edit`, `Rename`, `Carry`, `Delete`, `Create` | the writers, and `renameFolder` as it moves a note |
| `StartRound`, `DecideEntry`, `EndDecide`, `Apply` | `runPull`: a round or a scan as one batch, each file read when its entry is decided |
| `SendWrite` ... `RecordPurge` | `drainOps` and `push/notes.ts`, one request an action |
| `Meet`, `PushOver`, `SameBytes`, `SetAside`, `CreateAside`, `StepAside`, `Resolve` | `push/conflicts.ts` |
| `Interrupted` | a request or its answer lost, the tab closed, a token gone: the run ends where it is |
| `FeedLags` | a round that hears nothing yet (`docs/ARCHITECTURE.md:562`) and goes on to push |
| `CursorDies` | `CursorResetError` at the next round |
| `spent` | history: bodies a user has replaced or deleted, which need not be kept |

`MoveRenews` is the difference between the providers that matters most: a move gives
the file a new version on OneDrive, and none on Dropbox and Drive.  Attempts are
not counted, so an op that fails is tried again for ever; the drain of the code would
block after five and be given its attempts back later (`Scheduler`, `FilePush`).

### Scheduler

A tab is one record and each function of `web/sync/scheduler.ts` an operator from
a tab to a tab, so what runs without an await is one step.  `at` holds the
sessions that still have something under way; a name of a session is used again
when it has not, as only `generation` tells sessions apart in the code.

| in the model | in the code |
|---|---|
| `tab.bound`, `next`, `debounce`, `notice`, `paused`, `shown`, `halted`, `phase` | the cells and timers of `createSyncScheduler`, the status's phase |
| a session's `flags`, `run`, `blocked`, `stuck`, `heard` | `flags`, `inFlight` and where it awaits, `blockedSince`, `stuck`, `lastSeq` |
| `asking`, `rescan`, `after` | the continuations of `syncNow` and `online`, `resync`, `pause` that wait for the database, the lock, the run let go |
| `lock` | the Web Lock of the connection, held by a session, or by another tab with a round or a scan |
| `made`, `sent`, `tries`, `cursor`, `live`, `row` | the queue's highest number and how far it is sent, the first op's attempts, the stored cursor, the sources connected, the one shown |
| `quiet`, `spent`, `owed` | history, for the properties only: sources paused and not asked for since, and whether a cancel has ended the pause; sources whose push failed; re-scans asked for |

A run is `TakeLock`, `Resumed` (the resume check), `Pull`, `Push` and its outcome
(`PushFails`, `PushBlocked`, `RunFails`), then `Answered`, where `settle` runs for
the session that is still bound, and `NameStuck` and `GiveBackAttempts` where
`synced` awaits the database.  Time is only the order of events: a backoff may
fire at any moment, as may a blocked queue's quarter of an hour.

### PullRun

`core/sync/pull/run.ts` and the push behind it, for one device.

| in the model | in the code |
|---|---|
| `row` | the note's row: its file and whether it has something to send |
| `cursor` | the stored cursor: none, good, or one the provider will refuse, of the kind that asks for a scan (`reset`) or for a scan that also sends back what is missing (`upload`) |
| `remote`, `births`, `news` | the files, how many a note has had, what a good cursor has yet to tell of |
| `run` | the locals of `runPull`: the scan a dead cursor was answered with, the page's cursor, what was listed, whether a token was renewed |
| `ApplyRound` | a round: `applyChanges` with the cursor |
| `ListPage`, `ApplyPage` | `fullScan`: pages applied one by one, the cursor with the last, `reconcile` after it |
| `RefusedCursor`, `RefusedToken` | `CursorResetError` and `AuthError`, each answered once |
| `Interrupted`, `Resync`, `CursorDies`, `Lose` | the tab or the network gone; everything read again; the provider letting go of its cursors, or of a file |
| `calm`, `deleted`, `mayReturn` | history, for the properties only |

A note is an identity and a file one of its births, so what a file holds is
told by its name; a batch is decided in the step that applies it (`NoteStore`,
`NotePull` and `NoteSync` are about what comes between).

### FileQueue and FilePush

A store is `[files, dirs, ops, kept]`: the `files` and `folders` tables, the queue in
its order, and the ops a drain holds in memory.  `FileQueue` is
`queueUpload`, `queueMoveFile`, `queueDeleteFile`, `queueMkdir`, `queueRmdir` and the
settled outcomes of each; `FilePush` the drain.

| in the model | in the code |
|---|---|
| `drain` | the locals of `drainOps`: the queue as read, the op at the network, what was stepped over |
| `PassOver`, `HoldBack`, `OutOfAttempts`, `Failed` | an upload stepped over, what must not overtake it, an op that stops the queue, `handleOpError` |
| `BeginUpload` to `MadeDir`, then `Settle` | `push/files.ts` and `push/folders.ts`, one request a step, and the outcome recorded |
| `LostAnswer`, `Stopped`, `Crash`, `GiveBack` | a request carried out whose answer never came; a rate limit or a refused token; the tab gone; `giveBackAttempts`, later |
| `UserAdds` ... `UserRenames` | a picture pasted, a note with a picture copied or moved, its last link gone, notebooks made, renamed, deleted |
| `OtherAdds`, `OtherDeletes` | another device on the same folders |

Simplified: no pull and no notes; every file is the same picture, so a path is a
notebook and which of the picture's names; notebooks are side by side; a missing
parent is made in the step that found it missing; the listings of a step are read
at once; a race for a conflict name is tried again without a limit; and
`refuseTwin` never fires, as no remote folder has two files of one name.  `Plays`
says which of these happen together in a behaviour, so one run covers what would
not fit in one state space.

### FolderPull and Folders

`FolderPull` is `core/sync/pull/batch.ts`, `decide.ts`, `folders.ts`, `cascade.ts`,
`deletions.ts`, `replay.ts` and what `applyChanges` makes of the folder changes.  A decision is reached with the
batch, the store before it, what the provider answers, what is decided so far and
which entries are under way: `DecideEntry` is recursive, since getting out of a doomed
folder what leaves it (`deleteFolderAfterRescue`) decides other entries first.  It is
the one recursive operator of the project, and no theorem reaches it.

`Folders` runs it on a device with a user and a remote with others.  Its remote is what
the adapters make of two kinds of provider: a `paths` feed (Dropbox) tells what happened
in order, a deletion by its path, a move as the old path gone and everything at its new
one; an `ids` feed (OneDrive and Drive, `providers/idTree.ts`) tells each thing that
changed as it now is, a deletion by its id and where it was.  Simplified: rounds only,
of one page, decided in one step; no push, so what the user did stays queued; no files
but notes; an action of the user's that would land a note on another
(`freePath`) is not taken; `mkdir` ops, which no pull reads, are left out; only
notebooks with a row are renamed or deleted.

### SourceRows and Sources

| in the model | in the code |
|---|---|
| `stores` | the rows and ops of each source, and of the device's own pile |
| `src`, `chosen` | the `syncState` rows (detached, importing, unverified, `boundAt`); the source chosen to be shown |
| `hand` | the edit a tab has typed and not saved |
| `moved`, `gone` | `movedRows` and `goneSources`, which each tab keeps for itself |
| `list`, `look` | what `unsyncedIn` listed, as the user was shown it; what was found of a resumed source's files |
| `remote`, `flight`, `heard` | the accounts' files; a request made and not recorded; sources that know their account as it is |
| `kept`, `may`, `staked`, `thrown`, `crossed`, `orphans` | history, for the properties only: the words that must be somewhere, the accounts each may be in, and what is excepted |
| `Create`, `Delete`, `Rename`, `Type`; `SaveInto`, `SaveBeside`, `SaveGone` | the writers, in the source a note is in; `saveNoteBody` where the row is there, beside the row that took its place, or gone (`bringBack`) |
| `Bind`, `Show`, `Detach`, `ShowList`, `Release`, `MoveUnsynced`, `FinishImport`, `AbandonImport` | the functions of `store/connection.ts` and `store/unsynced.ts`, one transaction each |
| `Look`, `Verdict` | `verifyResume`: a resumed source's files sampled, and what is made of them |
| `Pull`, `Send`, `SendNothing`, `Record`, `Drop`, `Emptied` | as much of the engine as moves notes between a source and its account; an answer that never comes; the app's folder emptied |

`here` tells whether the tab with the editor made a binding, or another did.  `ShowList` lists
what a source never sent, whether it is detached already or still connected, pulled and
pushed until the user answers (`web/sync/account.ts`, `releasing`); a note in a hand may be
deleted or renamed meanwhile, from another tab.
Simplified: notes in one notebook, no spellings; a pull is a scan, decided and applied
at once; a push that would meet another file waits for the next pull; one editor; the
app is held during an import in every tab; the `updatedAt` of a listed note is its words,
its place and its file; a list that no binding is left to answer is dropped, which is a
bound; a resumed source has no more notes than are sampled; the server names
every account it binds, and gives an account a new id only once its old row is gone.

`NothingLost` says what is excepted from it, and history variables say which words those
are.  `staked` are the words that only the finish of a source's import makes safe: a save
that landed in the source late, a note moved into it unsent, a row resumed into it; when
the import is cancelled they are `thrown`.  `crossed` are the words of the pile where
another source is bound while an import has them.  Without either exception TLC finds
`NothingLost` violated within the bounds of the run (see *Findings*).  `Agrees` excepts `orphans`: files whose row a
note made again was written over, and files that were gone before their row was resumed
into a source that had pulled (see *Also seen*).

### Claims and Grants

`Grants` is `api/db/connections.ts`, `credentials.ts`, the callback of
`routes/connect.ts`, the deletes of `routes/connections.ts`, and `routes/relay.ts` with
`relay/room.ts`.  A request is several awaits, each an action, and a `db.batch` one
step, as it is one transaction: `Callback`, `ReadExisting`, `ReadHeld`,
`Commit` and its retry; `RemoveDevice` or `Disconnect`, `Find`, `Revoke` or `Delete`,
`Close`; `Ticket`, `Check`, `Connect`.  `CutOff` ends a request at any await, `Throws`
and `CommitUnheard` are a database that fails without or with having written.  A
grant's row id and the hash of its credential name each other for ever, so one value
stands for both; when a grant was last used is kept only as idle or not; a hub that
cannot be reached is a request cut off before it closed the sockets; the sealed secret,
the provider and entitlements are left out.

`Claims` is what that amounts to for a device's credential: unclaimed, claimed by one
connection, spent, in that order and never back.  `Grants` implements it with
`claim <- grants`, checked as `HashesAreClaimedOnce` and proved.

## Runs

| run | instance | states | question |
|---|---|---|---|
| `note_store` | 2 notes, 2 paths, 2 texts, 1 file, 4 queue numbers; an edit or an undo in the hand while at most one op has been queued | 423,749 | is every edit owed, every delete owed, no unsent text lost, the newer name kept; does what the user holds neither overwrite nor vanish |
| `scheduler` | 1 source with 1 edit and 2 disturbances of any kind, or 2 sources with 4 switches, pauses and cancels; 2 attempts, 2 session names | 1,600,213 | pause, wake-up, re-scan, spacing of attempts |
| `scheduler_live` | 1 source, 1 edit, 1 attempt, 2 disturbances, `FairSpec` | 141,249 | is an edit sent in the end |
| `note_sync` | 2 devices, 1 note at first, 2 names, 2 user acts, 2 faults of any kind, moves renew versions | 980,031 | is no edit lost, no version held unread, no file given a second row by a step but one; do devices at rest agree with the remote |
| `note_sync_live` | the same with 1 name, 1 fault, `FairSpec` | 23,614 | do the devices come to rest once the users do |
| `pull_run` | 2 notes, 2 births of each, any number of faults, `FairSpec` | 325,222 | does a note go only if deleted, is one sent back only for cause, does every run end, does the device catch up |
| `file_push` | 3 file rows, 2 notebooks and the top folder, 2 attempts, 5 remote files; three plays, `FairSpec` | 703,150 | do copies outlive originals, do directories go with nothing of others in them, is all that is owed sent |
| `folders` | 2 folder names, 1 note, depth 2, 3 steps of which 1 by the user here; three worlds | 272,817 | is what is pulled what the remote holds; does no unsent edit go with a folder |
| `sources` | ids 1 and 2 of account A and 3 of B, one file each of the same name and id, 1 note in the pile; 1 act and another while an edit is held, 3 bindings, 4 of both together, 1 fault | 817,884 | is no saved word lost, does none reach another account, no file two rows, does what is synced agree |
| `grants` | 2 hashes, 2 accounts, 3 ids, 2 requests at once, a cap of 1 | 222,716 | is a hash claimed once, is every row reached by a grant, does a revoked socket hear nothing |
| `brought_back`, `subfolder_lost` | as small as shows it | | the findings below |

Why the bounds are enough.  *NoteStore*: the races are between one note's row and
one op at the network; a second note is needed to be in the way, to be the copy of
a conflict, or to be what took a freed name; two paths let a note move and meet;
two texts tell an edit from what was sent.  Once `MaxSeq` is reached users and
pulls queue nothing more, while whatever is queued still runs; the numbers allow
a write, a move, a delete and a re-queued op of one life of a note.  A third file
or text only renames what two show, and the theorems cover every number of them.
What is in a hand meets one op at a time, so it is followed
(`HandsWhileShort`) only while few have been queued.
*Scheduler*: one edit suffices since a later one only raises the number watched;
two attempts let an op fail, be tried again and run out; two names of sessions let
one run be let go of while the next waits for its lock; disturbances are what the
user, the browser and other tabs do on their own, and two of them with the
triggers that are always there (focus, sync asked for, timers) interleave with
every point of a run.  Two sources take most of the states, so that play carries
no edits and more disturbances.
*NoteSync*: every conflict is between what two devices did to one note or to one
name, so two acts make it; a fault puts a retry, a feed that lags or a rescan between
any two requests.  The second act may create a second note, the second name lets a
note move away and another come.  Six ids let every conflict copy have one of its
own (`IdsLeft` is never false), and `MaxVersion` bounds the moves only (a write is always taken).  The safety
invariants were also checked, beside the runs kept, with three acts and no fault,
and with moves that keep the version.  The invariants hold only so far:

- With two notes at first and a dead cursor of the kind `upload`, a note displaced
  while the rescan is decided may stay bound to a file that is gone until the next
  scan.  `reconcile` and `docs/ARCHITECTURE.md` (section 7) name that exception, so
  the runs begin with one note.
- Two devices that rename one note to two names can move its file back and forth for
  as long as the schedule goes against them, each pull finding the other's move.
  No text is lost and any pause ends it, but weak fairness does not exclude it, so
  `note_sync_live` has one name, and `MaxVersion` cuts the exchange short in the
  safety run.

That no file has two rows is false with a third act (see *Findings*); `NoSecondRow`
excepts the one step that does it, and was checked with three acts and two faults as well
(no note at first, `reset` the only death: 14,860,447 states).

*PullRun*: two notes let a page name one and not the other, and two births let a file be
deleted and made again while a scan is listed; faults are not bounded at all, so cursors,
tokens and crashes meet in every order.
*FilePush*: three rows are a picture, its copy and one more that wants the name of
either; five remote files let each be sent twice but for one.  A play bounds what is done by
hand and what goes wrong, in the combinations that were found to matter:
everything a user does with one trouble; copies whose original goes, with three; another
device on the same folders.
*Folders*: two names are a folder and where it goes, depth two a folder in a folder,
three steps the shortest way to make the order of a round matter (`subfolder_lost`
takes exactly three).  With two acts of the user's on top, a note queued for nothing may
be out of step (see *Also seen*).
*Sources*: two ids of an account let a source be let go and resumed, one of another
account is where words must not go; three bindings are bind, let go and bind again, or
two resumes; files and the pile's note share a name, so that every landing meets
something.  A second act, while an edit is held, lets its note go, changes its name
or makes room for it.  Beside the run kept, an instance that begins settled with any two
acts and three bindings was checked (1,756,316 states), one with one act and four bindings
(269,816), and one that begins unbound with one act and four (4,049,944).
*Grants*: two requests are enough for every race of reads and batches, a cap of one
makes every second grant evict the first, and the theorems cover every size.  Beside the
run kept, instances with three hashes (2,077,331 states) and three requests (947,806)
were checked.

`CHECK_DEADLOCK FALSE` where the system may come to rest: `NoteStore` when nothing
may be queued any more, `Scheduler` when no source is connected or a pause holds,
`NoteSync` when it is quiet and the users have done all they may, and
likewise `FilePush`, `Folders` and `Sources`.

Type invariants are checked, and proved, for `NoteStore`, `Grants` and `Scheduler`,
and proved for `PullRun` and `FilePush`.

Fairness.  In `NoteSync` a device's engine,
which has one step to take at a time, takes it in the end: the scheduler polls and
retries, which `Scheduler` is about.  In `Scheduler` a run's steps, the continuations of
promises, the timers and the database's live queries happen (weak fairness: a
browser does not drop them while the tab lives).  The lock is granted to whoever
asks in turn (strong fairness of `TakeLock` and `Rescan`: Web Locks queue), and
another tab's run ends.  Nothing is asked of the user, of a network to come back,
or of notices; `EditsGetThrough` says what follows *while* the source is shown, not
paused, online and visible, and the server has not refused.  Failures are bounded
by `Disturbances`: a remote that fails for ever sends nothing for ever.
In `PullRun` the engine takes its next step (weak fairness), and `CatchesUp` speaks of
what follows `calm`, a moment after which nothing goes wrong; that moment need not come.
In `FilePush` a run is started in the end and takes its next step (weak fairness, the
scheduler again), and attempts are given back to a queue that is blocked again and
again (strong fairness of `GiveBack`: the quarter of an hour passes), while what goes
wrong is bounded by the play.

## Proofs

`NoteStore_proofs` proves for any sets of notes, paths, texts and files, any
`MaxSeq` and any `Hands`, from `StoreAssumption` alone (the markers are not in the
sets they are beside):

- `TypeSafe`: `SpecApart => []TypeOK`;
- `NoEditLeftBehind`: `SpecApart => []NothingUnowed`;
- `DeletesReachTheRemote`: `SpecApart => []TombstoneOwesItsDelete`.

`SpecApart` is `Spec` without the one interleaving of the finding `brought_back`: a
note brought back between the engine's finding no row for its write and its
completing the op.  The runs that pass check `SpecApart` too; under `Spec` the
invariant is false, which `brought_back` shows.

The argument.  None of the three is inductive: an outcome is settled against what
the engine remembers, so the invariant `Inv` also says what that may be.
`TypesOK` are types; `StoreOK` of `[rows, ops]` joins the two safety invariants
with the facts they need (an unbound row records no synced text; queue numbers
distinct and below the auto-increment); `DrawnOK` that
every row and op is of a drawn id; `HeldOK` what is known while an op
is at the network (its number, if still queued, is still that op; a live note whose
write it is has a write queued); `NothingOK` that a write found without a row still
has none, which is where `SpecApart` is used, and that a delete found without one
is not the only delete of a tombstone; `PullOK` that a
decided change is one its kind allows.  There is one lemma for each operator of
`NoteQueue`, saying it keeps `StoreOK` and touches only its note's ops, and one for
each action; `StepInv` collects them, `InvAlways` is the temporal step.

It proves the rest of what `note_store` checks from `Inv`:

- `UnsentIsKept`: `SpecApart => EngineKeepsUnsent`;
- `NewerNameStays`: `SpecApart => NewerNameKept`;
- `ShownIsStored`: `SpecApart => []HandShowsTheRow`.

For the first, one lemma for each operator shows where an unsent text went (`SafeRows`:
a live row, dirty or synced with that very text); that a dirty row owes a write is
`Inv` in the next state.  For the second, `MoveOnItsWay` says of a move at the network
that it is still queued and its note where it was read or where the move takes it, or
that it was replaced and what replaced it goes to where the note now is; only the user
acts meanwhile, and `Follows` is what any transaction of the user's does to a note's
moves.  For the third, the outcomes leave texts alone (`OutcomeTexts`), whatever else
the engine writes is marked in the hand (`HandAfterTrue`), and the user's writers empty
the hand or change it with the row.

`Grants_proofs` proves for any hashes, accounts, ids and requests and any cap, from
`GrantsAssumption`:

- `TypeCorrect`: `Spec => []TypeOK`;
- `ClaimedOnce`: `Spec => HashesAreClaimedOnce`, the refinement of `Claims`;
- `NoRowIsLeft`: `Spec => []RowsAreReached`;
- `SocketsFollow`: `Spec => []RevokedHearNothing`.

The argument.  `TypeOK` alone does not bear the steps: what a request holds must fit
the await it is at (`Fits`), so `Typed` joins the two.  `Keyed` adds what the schema's
foreign key and the drawing of ids give: a grant names a row that is there, and an id
that was not drawn names nothing.  On those, `RowsAreReached` is shown step by step; it
excepts `revived`, rows that a callback stores again for a grant withdrawn between its
read and its batch (see *Also seen*).  `RevokedHearNothing` needs of a request that is
about to close sockets that it still names every socket whose grant it has withdrawn.
The refinement needs only that a step of a request leaves each hash's claim as
it was, takes it from unclaimed, or spends it, which each batch's own conditions give.

`Scheduler_proofs` proves for any sources, session names, numbers of edits and attempts,
and any plays, from `SchedulerAssumption` (the markers are apart from what they
are beside, no session is named as another tab's lock is, the bounds are numbers):

- `SchedulerTypes`: `Spec => []TypeOK`;
- `RescansAreKept`: `Spec => []RescanIsKept`;
- `SomethingAlwaysWakes`: `Spec => []SomethingWillWakeIt`;
- `AttemptsStaySpaced`: `Spec => AttemptsAreSpaced`;
- `PausesHold`: `Spec => []PausedIsStill`.

The argument.  None of these survives a step alone, because a tab is rewritten by
operators that call one another, each on a tab halfway through its handler.  `IInv` says
what a tab owes between handlers: `TabOK`, that timers belong to a bound session, which
is of the source shown, and that a pause holds it; `TimerOK`, that no timer runs beside a
run, without which a timer that fires would start a second; `RunsOK`, that a run at the
network holds its source's lock and goes on a cursor only when no re-scan is owed;
`OwedOK`, that the cursor of an owed re-scan stays cleared and no other tab is in a round
on one; `Awake`, which is the wake-up property; `Recalled`, that a run which found no
network, if the network is back, has what its return asked for still to come, without
which `Awake` fails when the run settles; and `Spaced`, where a failed attempt stands:
an answer not yet settled, a backoff with its timer, or a network that is away.

There is one lemma for each operator (`RunOnce`, `Run`, `Nudge`, `Finish`, `Tidy`,
`EndSession`, `Follow`, the outcomes) saying it keeps `TabOK` and `TimerOK`, starts
nothing at the network (`Calm`), and what it makes of `Awake`, `Recalled` and `Spaced`;
one for each action; and `NextOK` and `Invariance` on top.  `PausesHold` adds `QuietOK`,
that what is paused and not asked for is what the tab holds: few operators touch a pause or
a halt (`PauseLeft`), so its steps are short.  A cancel of a first import ends a pause,
against what `pause` says of itself, and `PausedIsStill` excepts it in so many words (see
*Findings*).
`spent` is history: a source whose push failed and which nothing has been asked of since.
A run superseded by a change of sources while it was away is done over at once by the
code (`web/sync/scheduler.ts:784`), so it does not count.

`NoteSync_proofs` proves for any devices, names, notes to begin with and bounds, and
any finite set of ids, from `SyncAssumption` (ids and names are positive numbers; the
marker of a row without a file is no file):

- `HoldersInStep`: `Spec => []InStep`;
- `WritesOverWhatIsKnown`: `Spec => WritesOverKnown`: a file's text changes only where a
  push wrote it over the text its note last synced.

The argument.  A version is had of a file in many ways (a feed's entry, a read, the
answer to a write or to a move, what is met at a path) and is kept in many places: a
row, a change decided and not yet applied, a request under way.  `Reads(w, file, text)`
says of one with a text beside it what is so of the remote `w`: the file was there, its
version is no later than the file's is now, and if it still is the file's, so is the
text.  `IInv` says it of every place: of each row and what it last synced (`TableTrue`),
of each change that binds a note (`ChangeTrue`), and of an engine between two requests
(`HoldTrue`: which of the versions in hand is of which text, that what is about to
be written over is what the row synced, and that what was read of a file in the way is
no earlier than what was met).  Nothing that befalls the remote undoes a `Reads`
(`Grows`): a file gone stays gone, versions only rise, and a text changes only with its
version.  That last is what a move on OneDrive puts to the test, since it gives a new
version to bytes the mover may never have read; `MovedFile` and `AskVersion` read them
first, and `MovedFileUnread`, which does not, is the mutant.  There is one lemma for
each operator of `NoteQueue` and `NotePull`, one for each kind of request, and one for
each action.  What is listed one by one (`Only`, `InOrder`, `DisplaceOccupants`,
`AppliedAll`) is written as a recursive function over an interval, and `Steps` does for
it what induction would.  The second theorem is read off the same
steps.  `IInv` and `WritesOverKnown` were first checked on the instance of `note_sync`, over
all of its states.

`NoteSyncKept_proofs` proves for the same, from `SyncAssumption` and `MarkersAssumption`
(the markers `NoRow`, `Gone`, `NoPath` and `NoSynced` are none of the rows, files, paths
and texts they stand in for):

- `NoEditIsLost`: `Spec => []NoEditLost`.

The argument.  Three things can take a text away.  A request writes over it: by
`WritesOverKnown` it is then the text its note last synced, and a note's text came of the
one it last synced, or that one is `spent` (`BasedOn`).  A pull puts a file's text in its
place: the store refuses where the note is unsent, and what is sent and not edited since
is `Safe`, in a file or spent (`RowFine`).  And a change that was decided could bind a note
to a text it was never weighed against; `NoEditLost` says nothing of this, and is not
inductive for it.  `KInv` therefore says of a batch half decided that its entries are of
different files at different paths (`TodoFine`), that nothing decided is about a note or
a path of an entry still to decide (`Leaves`), and so that no note is given a new text
and then bound to another file (`Orderly`); of the feed, that it tells a device of a file
at most once (`NewsOnce`), which is where a batch gets this from; and of a request under
way, that the text it carries came of the text of its note now (`HoldFine`).  There is one
lemma for each kind of change, each way a batch decides an entry, each request
and each act; every one gives, beside its part of `KInv`, that what a live row had is safe
or in a live row after (`Carried`), from which `NoEditLost` follows.  `KInv` is proved
together with `IInv`, which it needs for what a version in hand is a version of.  It was
first an invariant of the `note_sync` instance, over all of its states.

`PullRun_proofs` proves for any notes and any number of births, from
`PullRunAssumption` (one birth at least, the markers apart from what they are beside):

- `TypesHold`: `Spec => []TypeOK`;
- `QuietMeansEqual`: `Spec => []QuietAgree`;
- `NotesGoOnlyIfDeleted`: `Spec => GoesOnlyIfDeleted`;
- `SendsForCause`: `Spec => SentForCause`.

The argument.  What a cursor, a page and a row say is each true only but for what is
still to be told, and the invariant says so for each of them.  `WorldOK`: a note has at
most one file, of its latest birth, and the last of its births the bound allows stays.  `RowsOK`: a stored cursor that is good answers for every row and
file it does not tell of, and a row without its file is of a note somebody deleted.  `RunOK`: which cursor a run goes on from, and with what it may carry
to the store.  `RoundOK` and `ScanOK`: what a round or a scan has read so far is so, but
for what its own cursor has yet to tell, so that the page which carries the cursor leaves
the rows answered for.  The two action properties use of it that what is forgotten was
listed nowhere and told of, or reconciled away by a scan that saw all there was.

`FilePush_proofs` and `FilePushOwed_proofs` prove for any notebooks, any number of rows, of
remote files and of attempts, and any plays, from `FilePushAssumption` and
`NothingAssumption`:

- `TypesHold`: `Spec => []TypeOK`;
- `RowsApart`: `Spec => []OneRowPerFile(files)`;
- `CopiesAreSafe`: `Spec => CopiesSurvive`;
- `OthersAreSafe`: `Spec => NothingOfOthersGoes`;
- `OkIsTrue`: `Spec => OkMeansSent`;
- `SidesAgree`: `Spec => []QuietAgree`;
- `FolderGoes`: `Spec => []FolderGone`.

`NothingAssumption` says that the markers are none of the things they mark the lack of: a
notebook without a row is not one whose row names no directory (`remoteId: null`), nor one
whose row names some directory.

The argument.  `StoreOK` is what every transaction keeps of `[files, ops]`: tags apart;
one row a file; a row whose bytes are neither here nor there has an original to copy;
what is to be deleted is no row's, and every upload that copies it is ahead of its
delete.  That a copy survives does not follow from the queue, since it is drained as it
was read: `RunOK` says that where a delete is still to come in the run, each of its
copies comes before it in the run, or was stepped over and is remembered in `copying`;
and that a run which neither failed nor stuck has everything it read ahead of it or done.
`FlightOK` is what is known of a request under way whatever the user has done since: the
row is gone or as it was bound, the file met is nobody's, what is removed nobody here
wants.  There is one lemma for each operator of `FileQueue`, in two parts: it keeps
`StoreOK`, and it is `Fine`, which says where the ops and rows of the new store come
from, so that `RunOK` and `FlightOK` survive it.  Its writers run over all rows of a
notebook (`DropFiles`, `RenameFolder`), and `RmdirsBehind` over ops: recursive functions
over an interval, about which `Recursion`, `Steps` and `Stays` say what induction would.
One lemma for each action follows, and the action properties on top.

`QuietAgree` speaks of a moment at rest, and says nothing of the moments before it.
`OInv` says what is so at each of them while nobody else meddles: `Owed`, that a row the
remote has no file for has its upload queued; that a row is where its file is, or its one
move is queued and says from where to where; that every file a row names is there; that
every file there has its row, or its delete queued; and that a notebook has its directory,
or its `mkdir`.  The writers keep `Owed` whatever the drain is about, since each queues
what it makes owing (`OwedStill`, one lemma an operator).  The drain does not: between the
remote's doing and the store's (`sendFile`, then `settle`) a file stands that no row names
yet, or where its row does not know it.  `Env` is the remote but for that: the file just
made counts as accounted for, the one being moved is at neither place, and the directory
being removed does not count as standing; and once an upload's answer was lost, nothing
here need account for what is there.  `AsRead`, `Answered` and `ItsOwn` say that the op and
the answer in hand are still what the queue and the remote have.  `Plain` is `Env` with nothing under way, and
`OwedNothing` reads `QuietAgree` off it.  `OInv` was first an invariant of the `file_push`
run, over all of its states.

`FolderGone` too speaks of a moment at rest.  `LeftOwed` says what is so before it: a
directory that was let go of, and that may not stand, has its `rmdir` queued.  A writer
that withdraws an `rmdir` (`queueMkdir`) makes the notebook again, so it is not let go of
any more, and a failure leaves it queued; what is hard is the drain, which
completes the `rmdir` unsent when its listing (`Look`) finds a file there.  Every such file
must be one that an op behind the `rmdir` takes out, or one whose delete looks for it
elsewhere: what `overtaken` remembers.  By `Owed` the file has its row or its delete
queued.  No row is in a notebook that is not here (`Homed`), so an op is
queued that takes the file out of that directory; and if it is ahead of the
`rmdir`, the run came to it before.  That is `TakenAhead`: what is ahead of an `rmdir` in the
queue is ahead of it in the run, or was held back and has its place remembered in
`holding`, with which `holdBack` steps over the `rmdir`.  That needs the user's writers
to put nothing ahead of an `rmdir` the run has read (`Tidied`, one lemma an operator), but
that settling a move rewrites where another move of its file starts, and there is no
other that the run has read (`OneMoveRead`).  Directories have births, which a remote only counts up
(`DirsOnward`), so the one that was let go of is not another of its name.  `GInv`
is all of it; it was first an invariant of the `file_push` run, over all of its states, and of
random runs of a larger instance.

Model-checked only: everything about `Folders` and `Sources`; of `NoteSync`,
`NoSecondRow`, and `QuietAgree`, which is false of larger
instances (see *Runs*); of `FilePush`, `KeepsItsName`; and liveness, `EditsGetThrough` of
`Scheduler`, `RunEnds` and `CatchesUp` of `PullRun` and `SentInTheEnd` of `FilePush`
included.  Out of this prover's reach, and left to TLC: liveness under
fairness and `ENABLED`; induction over data; anything about `RECURSIVE` operators
(`DecideEntry` of `FolderPull`).

## Findings

Two have a run that finds them.

1. `brought_back` (`core/sync/push/drain.ts:81`): a queued write whose row was
   deleted by a pull completes as done; a note brought back by a held edit
   meanwhile counts on that very op, and is left dirty with nothing queued.
2. `subfolder_lost` (`core/sync/pull/batch.ts:145`): a subfolder moved out of a folder
   that is deleted, into one that is then renamed to its name, all in one round of a
   feed by id.  The last word about it lies within the path being deleted and is taken
   for no way out, so the cascade takes its row and its note, and nothing lists the
   note again: the notebook is there, empty, while the remote has the note.

Four are exceptions that a property states, each against what a comment or a document of the
repository says, and each a trace that TLC finds in seconds when the exception is taken out
of the property.

3. `PausedIsStill` (`web/sync/scheduler.ts:1097`; with `quiet[...] # "no"` for
   `= "paused"`, six states of the `scheduler` run): a cancel of a first import has `follow`
   find no source to sync, which clears the pause; the server refuses the cancel, and the
   source that is followed again is run.  The contract of `pause` (`:251`) says that nothing
   but the user's asking, another source or a reload starts one.
4. `NoSecondRow` (`core/sync/push/conflicts.ts:305`; without `SameBytes(d)`, fourteen states of
   `note_sync` with no note at first and three acts): a write that meets a file with the very
   bytes of its note takes it for its own before anything asks whether another note
   already holds it (`:320`, `:355`), and `settle` (`web/sync/store.ts:1265`) does not ask
   either.  A note whose write landed unheard, renamed while a pull decides what that file is
   and renamed back before it applies, becomes two rows of one file, which `:321` calls
   unrecoverable and `docs/ARCHITECTURE.md:2085` rules out.
5. `NothingLost` without `thrown` (`web/store/connection.ts:1275`; six states of the
   `sources` run): `abandonImport` takes it that, with
   the app held, nothing can have been written in the importing source.  A save still
   pending in another tab can land there, as `finishImport` says of the pile
   (`:1131`), and a cancel throws it away; so it does with a note that was moved there unsent.
6. `NothingLost` without `crossed` (`web/store/connection.ts:1166`; six states of the
   `sources` run): a second source bound while the first
   one's import holds the pile takes no copy of it; the first import is cancelled, the second
   finishes and clears the pile, whose notes are in no source.  Its comment (`:1124`) says
   that every row of it is.

### Also seen

Behaviours met while modelling that no run is kept for.  Some are documented, some are
the price of a choice; each is a trace of the model, not a run of the code.

Push and pull of notes:

- After a second rename during the first one's move, the queued move's `path` is
  not where the file is (`web/store/queue.ts:196`), which `core/sync/store.ts:132`
  says it is.
- A newer version written into a tombstone clears the mark that it was deleted here
  (`web/sync/store.ts:1004`), and an edit held since before the delete makes the note
  again, which `notes.ts:489` says it does not.
- A pull decides on the queue as it read it first.  A rename it takes for the user's,
  taken back before the batch is applied, leaves the note at a path its file is not
  at, with no move queued (`push/notes.ts:94`, `pull/decide.ts:145`); the next edit's
  write then fails until a re-scan.

Files and folders:

- A notebook deleted and made again while its directory's `rmdir` is queued or under way
  (`web/store/queue.ts:311`, `:319`) may be left without a directory until something is
  put in it, and a file put into a directory between its listing and its removal goes
  with it; `docs/ARCHITECTURE.md` names both gaps.
- A file move that another op overtook, or two that cross, may leave a picture under a
  conflict name; the bytes are kept.
- A picture deleted while its move is at the network has its delete queued at the name it
  left (`web/store/queue.ts`, `queueDeleteFile`), and the move's settling
  does not correct it.  If a copy of it keeps that delete waiting, what waits in turn is
  decided by the old name (`core/sync/push/drain.ts`, `awaitsCopy` and `holdBack`).  The
  `rmdir` of the directory the picture landed in runs, finds it there and is completed, and
  that directory stands for good, though the comment above `awaitsCopy` and
  `docs/ARCHITECTURE.md` say it waits; and another picture sent to the name it landed at
  takes a conflict name.  It takes a copy, a move and a delete, with a failed upload, more
  than the plays of `file_push` hold; found on larger ones.  `FolderGone` and `KeepsItsName`
  except it: `Astray` names those deletes, `overtaken` and `crossed` remember that one was in
  the way.
- With a feed by paths, a folder that comes to where one was deleted may stay without
  its row until something in it changes (`decideUnderMoved`, `pull/deletions.ts`).
- A sub-notebook deleted here while the remote moved it out and deleted its parent: the
  delete does not reach it.  A notebook deleted here with its `rmdir` queued takes the
  rows of what others moved into it, and with a feed by id leaves some stale.  Both are
  why `Mirrored` excepts what is under a notebook the user removed.
- With two acts of the user's, a note may end at a path its file is not at with nothing
  queued, as with the rename taken back above, by way of a folder's rename.
- The move of a note withdrawn while it is at the network lands all the same, and
  is heard of by the next round only.

Sources:

- Binding an importing source again resets `boundAt`, so that pile saves before it go with
  the pile, and rows resumed into it go with it when it is cancelled.  `NothingLost` excepts
  both (`crossed`, `staked`).
- A source detached during its first import keeps the pile, and connecting it again
  copies the notes a second time.
- An edit held from the pile, with the same note in two sources, is saved over the row
  of the source that is shown, which then has a file and is not marked as held.  If that
  source had renamed the note, the row put in its place (`bringBack`, `web/store/notes.ts:827`)
  has the old name and no file, and the file under the new one is in the account with no
  row here that names it until a re-scan.  It takes two accounts, a bind that keeps
  copies and another, a rename and the save.  `Agrees` excepts such a file (`orphans`).
- A note that an editor held when its source was let go, and whose file was deleted
  meanwhile, stays clean and without its file when it is resumed into a connection of the
  account that is bound already and has pulled: `bindConnection` (`store/connection.ts:822`)
  keeps that connection's cursor, `verifyResume` finds another file and is content, and
  nothing but a re-scan tells of the deletion.  It takes two acts and three bindings.
  `Agrees` excepts it (`orphans`).

Server and tokens:

- A callback that reconnects an account while its last device is being withdrawn may store
  a row that no grant reaches (`api/db/connections.ts:154`; the comment at `:28` says there
  is none).  `RowsAreReached` excepts exactly that.
- A tab cut off between `keepCredential` and the binding of its connection leaves a
  credential under an id no source names, and the device shows itself as not connected.
  A device back later than `PENDING_TTL_MS` after a flow that did commit deletes the only
  credential for it (`web/store/credentials.ts:93`), which `web/sync/account.ts:323` calls
  the worst outcome.
- `web/sync/account.ts` (`:213`, `:470`) forgets the credential held under a connection
  without asking whether it is still the one that was refused.
- `refresh` (`web/sync/tokens.ts`) does not wait for a mint under way, which may end after
  it and store its older token over the newer one; that costs one more refusal and refresh.

## Not modelled

- Writes sent several at once (`core/sync/push/drain.ts:209`), which only Drive takes: the
  models send one op at a time.
- What a pull makes of files that are not notes, the folders and files a scan reconciles,
  files that cannot be read, and a pull of folders while the same device pushes.
- The access token's cache and the tabs that share its row: only that a token may be
  refused, renewed once, and refused again (`PullRun`).  What a provider does with a
  refresh token it has rotated away is no code of this repository.
- The relay's frames, their rate, and the client's reconnecting.
- Notebooks, files, pictures, keys, preferences and the clipboard of a source that is
  bound or let go.
- The life cycle of a tab beyond its crash.

Left out for good: parsing and formatting of Markdown and frontmatter, names and
slugs as strings (a free name is any free value), encryption, search, import and
export, HTTP decoding in the adapters, React components, messages and progress.

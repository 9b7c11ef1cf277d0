------------------------------ MODULE FilePush ------------------------------
(* The push of the files beside notes, and of the notebooks they are in: the *)
(* queue read once and drained op by op, each asked for again before it goes,*)
(* while the user goes on adding, moving and deleting, and other devices     *)
(* change the same folders.  An upload that fails is stepped over; what must *)
(* not overtake it is held back.                                             *)
(*                                                                           *)
(* A step is one request to the provider, or what is read and written of the *)
(* store between two.  What is simplified:                                   *)
(*   - the pull and the notes: NotePull, NoteSync and PullRun are about them;*)
(*   - a missing parent is made in the step that found it missing, and the   *)
(*     listings a step reads are read at once;                               *)
(*   - a second clash of names, a race with another device, tries again      *)
(*     without a limit.                                                      *)
EXTENDS FileQueue

CONSTANTS MaxFiles,       \* file ids rows may have
          Folders,
          Top,            \* the folder that is no notebook: always there
          MaxAttempts,
          MaxRemote,      \* files the remote ever has
          Plays           \* what may happen in a behaviour, and how much of it

Play == [acts : SUBSET {"add", "copy", "move", "drop", "create", "delete", "rename"},
         happens : SUBSET {"failure", "lostAnswer", "throttle", "crash", "adds", "deletes"},
         left : Nat, troubles : Nat]

ASSUME FilePushAssumption ==
  /\ Top \in Folders /\ Folders # {Top}
  /\ {MaxFiles, MaxAttempts, MaxRemote} \subseteq Nat \ {0}
  /\ Plays \subseteq Play

FileIds == 1..MaxFiles
Notebooks == Folders \ {Top}
Ids == 1..MaxRemote
Paths == [dir : Folders, k : Nat]
Rows == [at : Paths, remote : Ids \cup {NoFile}, held : BOOLEAN]
Entries == [at : Paths, ours : BOOLEAN]
Kinds == {"upload", "move-file", "delete-file", "mkdir", "rmdir"}
QueuedOps == [tag : Nat, kind : Kinds, file : FileIds \cup {NoRow}, at : Paths, to : Paths,
              remote : Nat \cup {NoFile}, copyOf : Ids \cup {NoFile}, attempts : Nat]

ASSUME NothingAssumption ==
  NoFile \notin Nat \cup Entries /\ NoRow \notin FileIds \cup Rows \cup QueuedOps \cup Nat \cup {NoDir}

VARIABLES
  files, dirs, ops,   \* the store, as in FileQueue
  remote,             \* the remote's files, by id, and its directories
  drain,              \* the run of the push
  outcome,            \* what the last run came to
  past,               \* history, for the properties
  play                \* what may still happen

vars == <<files, dirs, ops, remote, drain, outcome, past, play>>

Calls == {"fetch", "send", "move", "remove", "look", "rmdir", "mkdir"}

Store == [files |-> files, dirs |-> dirs, ops |-> ops, kept |-> drain.read]
StoreIs(st) == \E s \in {st} : files' = s.files /\ dirs' = s.dirs /\ ops' = s.ops

Rest == [pc |-> "idle", todo |-> <<>>, read |-> {}, op |-> NoRow,
         at |-> NoFile,        \* the name being tried
         sent |-> NoFile,      \* where the row was when the op began
         from |-> NoFile,      \* the file a move is about
         entry |-> NoFile,     \* what the remote answered with
         copying |-> {}, holding |-> {}, failed |-> FALSE, stuck |-> FALSE]

\* A notebook with a file in it that the remote has, and beside it the top.
Init ==
  /\ \E held \in BOOLEAN : LET d == CHOOSE d \in Notebooks : TRUE IN
       /\ files = [g \in FileIds |->
                     IF g = 1 THEN [at |-> Path(d, 0), remote |-> 1, held |-> held] ELSE NoRow]
       /\ dirs = [e \in Notebooks |-> IF e = d THEN 1 ELSE NoRow]
       /\ remote = [files |-> [i \in Ids |-> IF i = 1 THEN [at |-> Path(d, 0), ours |-> TRUE]
                                             ELSE NoFile],
                    dirs |-> [e \in Notebooks |-> [here |-> e = d, id |-> IF e = d THEN 1 ELSE 0]],
                    made |-> 1]
  /\ ops = <<>> /\ drain = Rest /\ outcome = "none"
  /\ past = [meddled |-> FALSE, unheard |-> {}, gaveUp |-> FALSE, taken |-> {},
             left |-> {}, strays |-> {}, behind |-> {},
             overtaken |-> {}, crossed |-> FALSE]
  /\ play \in Plays

-----------------------------------------------------------------------------
(* The remote, and what the request under way makes of it.                   *)

Here(w, d) == d \in {e \in Notebooks : w.dirs[e].here} \cup {Top}
DirMade(w, d) == IF Here(w, d) THEN w ELSE [w EXCEPT !.dirs[d] = [here |-> TRUE, id |-> @.id + 1]]
AtName(w, p) == {i \in Ids : w.files[i] # NoFile /\ w.files[i].at = p}
FilesThere(w, d) == {i \in Ids : w.files[i] # NoFile /\ w.files[i].at.dir = d}

Placed(w, id, p, ours) == [w EXCEPT !.files[id] = [at |-> p, ours |-> ours]]
Created(w, p, ours) == [Placed(DirMade(w, p.dir), w.made + 1, p, ours) EXCEPT !.made = @ + 1]
DirGone(w, d) == [w EXCEPT !.dirs[d].here = FALSE,
                           !.files = [i \in Ids |-> IF i \in FilesThere(w, d) THEN NoFile ELSE @[i]]]

Moving == drain.from

Done(w) ==
  CASE drain.pc = "send" ->
         IF AtName(w, drain.at) # {} THEN w ELSE Created(w, drain.at, TRUE)
    [] drain.pc = "move" ->
         IF w.files[Moving] = NoFile THEN w
         ELSE IF AtName(w, drain.at) \subseteq {Moving}
         THEN Placed(DirMade(w, drain.at.dir), Moving, drain.at, w.files[Moving].ours)
         ELSE w
    [] drain.pc = "remove" -> [w EXCEPT !.files[drain.op.remote] = NoFile]
    [] drain.pc = "rmdir"  -> DirGone(w, drain.op.at.dir)
    [] drain.pc = "mkdir"  -> DirMade(w, drain.op.at.dir)
    [] OTHER -> w

-----------------------------------------------------------------------------
(* The drain.                                                                *)

\* Mutant: a failed upload goes last though it copies a file.
CopiesLast(op) == op.kind = "upload" /\ op.attempts > 0
\* An upload that failed goes last, unless it copies a file.
Later(op) == op.kind = "upload" /\ op.attempts > 0 /\ op.copyOf = NoFile

Start ==
  /\ drain.pc = "idle" /\ ops # <<>>
  /\ LET last  == {i \in DOMAIN ops : Later(ops[i])}
         order == Those(ops, DOMAIN ops \ last) \o Those(ops, last)
     IN  drain' = [Rest EXCEPT !.pc = "turn", !.todo = [i \in DOMAIN order |-> order[i].tag],
                               !.read = {o.tag : o \in Queued(Store)}]
  /\ UNCHANGED <<files, dirs, ops, remote, outcome, past, play>>

\* What the turn is about, as the store has it now; none if it was withdrawn.
Turn == drain.pc = "turn"
Now == IF drain.todo = <<>> THEN {} ELSE ByTag(Store, Head(drain.todo))

\* What the drain remembers from one turn to the next.
NextTurn == [Rest EXCEPT !.pc = "turn", !.todo = Tail(drain.todo), !.read = drain.read,
               !.copying = drain.copying, !.holding = drain.holding,
               !.failed = drain.failed, !.stuck = drain.stuck]
Ends(how) == drain' = Rest /\ outcome' = how
Settled(st, op) == (\E s \in {st} : StoreIs(Complete(s, op.tag))) /\ drain' = NextTurn

\* Mutant: a drain that stepped over an upload it has failed to send is ok.
DrainedOk == "ok"
\* Uploads stepped over are still owed.
Drained == IF drain.failed THEN "retry" ELSE IF drain.stuck THEN "blocked" ELSE "ok"

DrainEnds ==
  /\ Turn /\ drain.todo = <<>>
  /\ Ends(Drained)
  /\ UNCHANGED <<files, dirs, ops, remote, past, play>>

PassOver ==
  /\ Turn /\ drain.todo # <<>> /\ Now = {}
  /\ drain' = NextTurn
  /\ UNCHANGED <<files, dirs, ops, remote, outcome, past, play>>

\* Mutant: a delete does not wait for the copy of what it deletes.
WaitsForNothing(op) == FALSE
\* Mutant: nothing waits for a delete that waits.
OnlyDeletesWait(op) == op.kind = "delete-file" /\ op.remote \in drain.copying

\* A delete of what an upload stepped over still copies; and what such a
\* delete, held back, is in the way of.
AwaitsCopy(op) ==
  CASE op.kind = "rmdir" -> \E p \in drain.holding : p.dir = op.at.dir
    [] op.kind \in {"upload", "move-file"} -> op.to \in drain.holding
    [] op.kind = "delete-file" -> op.remote \in drain.copying
    [] OTHER -> FALSE

\* Files whose delete names a place they are not at: they were on their way to
\* another when they were deleted here.
Astray == {o.remote : o \in {o \in Queued(Store) :
             /\ o.kind = "delete-file" /\ remote.files[o.remote] # NoFile
             /\ remote.files[o.remote].at # o.at}}

\* What is held back keeps its place.  The path an rmdir keeps is a directory's,
\* which is no file's: what it waits for is in that directory, and holds back a
\* later rmdir of it or of one around it all the same.
HeldBack(op, r) ==
  [r EXCEPT !.holding = IF op.kind = "rmdir" THEN @ ELSE @ \cup {op.at},
            !.copying = IF op.kind = "upload" THEN @ \cup {op.copyOf} ELSE @]

HoldBack ==
  /\ Turn
  /\ \E op \in Now :
       /\ AwaitsCopy(op)
       /\ drain' = HeldBack(op, NextTurn)
       /\ past' = [past EXCEPT !.crossed = @ \/ (op.kind = "delete-file" /\ op.remote \in Astray)]
  /\ UNCHANGED <<files, dirs, ops, remote, outcome, play>>

StepOver(op, r) == [r EXCEPT !.copying = @ \cup {op.copyOf}]

\* An rmdir is given up on, an upload stepped over; anything else stops the
\* drain.
OutOfAttempts ==
  /\ Turn
  /\ \E op \in Now :
       /\ ~AwaitsCopy(op) /\ op.attempts >= MaxAttempts
       /\ CASE op.kind = "rmdir"  -> Settled(Store, op) /\ past' = [past EXCEPT !.gaveUp = TRUE]
                                     /\ UNCHANGED outcome
            [] op.kind = "upload" -> /\ drain' = [StepOver(op, NextTurn) EXCEPT !.stuck = TRUE]
                                     /\ UNCHANGED <<files, dirs, ops, outcome, past>>
            [] OTHER -> Ends("blocked") /\ UNCHANGED <<files, dirs, ops, past>>
  /\ UNCHANGED <<remote, play>>

Ready(op) == op \in Now /\ ~AwaitsCopy(op) /\ op.attempts < MaxAttempts
Goes(op, pc, at, from) ==
  drain' = [drain EXCEPT !.pc = pc, !.op = op, !.at = at, !.sent = at, !.from = from]

\* runUpload: deleted or bound since, there is nothing to send; with no bytes
\* and nothing to copy, the row goes.
BeginUpload ==
  /\ Turn
  /\ \E op \in Now :
       /\ Ready(op) /\ op.kind = "upload"
       /\ LET row == files[op.file]
          IN  IF row = NoRow \/ row.remote # NoFile THEN Settled(Store, op)
              ELSE IF ~row.held /\ op.copyOf = NoFile THEN Settled(ForgetFile(Store, op.file), op)
              ELSE Goes(op, IF row.held THEN "send" ELSE "fetch", row.at, NoFile)
                   /\ UNCHANGED <<files, dirs, ops>>
  /\ UNCHANGED <<remote, outcome, past, play>>

BeginMove ==
  /\ Turn
  /\ \E op \in Now :
       /\ Ready(op) /\ op.kind = "move-file"
       /\ LET row == files[op.file]
          IN  IF row = NoRow \/ row.remote = NoFile THEN Settled(Store, op)
              ELSE /\ Goes(op, "move", op.to, row.remote)
                   /\ UNCHANGED <<files, dirs, ops>>
  /\ UNCHANGED <<remote, outcome, past, play>>

BeginDelete ==
  /\ Turn
  /\ \E op \in Now : Ready(op) /\ op.kind = "delete-file" /\ Goes(op, "remove", op.at, NoFile)
  /\ UNCHANGED <<files, dirs, ops, remote, outcome, past, play>>

\* runRmdir's third gate: a row at the path, or a file's under it.
TheUsersAgain(op) == dirs[op.at.dir] # NoRow \/ FilesIn(Store, op.at.dir) # {}

BeginRmdir ==
  /\ Turn
  /\ \E op \in Now :
       /\ Ready(op) /\ op.kind = "rmdir"
       /\ IF TheUsersAgain(op) THEN Settled(Store, op)
          ELSE Goes(op, "look", op.at, NoFile) /\ UNCHANGED <<files, dirs, ops>>
  /\ UNCHANGED <<remote, outcome, past, play>>

BeginMkdir ==
  /\ Turn
  /\ \E op \in Now : Ready(op) /\ op.kind = "mkdir" /\ Goes(op, "mkdir", op.at, NoFile)
  /\ UNCHANGED <<files, dirs, ops, remote, outcome, past, play>>

-----------------------------------------------------------------------------
(* The answers.                                                              *)

\* bytesToSend: nothing held, and the original is read; gone, so is the copy.
Fetched ==
  /\ drain.pc = "fetch"
  /\ IF remote.files[drain.op.copyOf] # NoFile
     THEN drain' = [drain EXCEPT !.pc = "send"] /\ UNCHANGED <<files, dirs, ops>>
     ELSE Settled(ForgetFile(Store, drain.op.file), drain.op)
  /\ UNCHANGED <<remote, outcome, past, play>>

Entry(w) == LET i == CHOOSE i \in AtName(w, drain.at) : TRUE
            IN  [id |-> i, at |-> drain.at, ours |-> w.files[i].ours]

\* Sent, or met by what is at the name.
SentTo ==
  /\ drain.pc = "send"
  /\ AtName(remote, drain.at) = {} => remote.made < MaxRemote
  /\ remote' = Done(remote)
  /\ drain' = [drain EXCEPT !.entry = Entry(remote'),
                            !.pc = IF AtName(remote, drain.at) # {} THEN "met" ELSE "settle"]
  /\ UNCHANGED <<files, dirs, ops, outcome, past, play>>

\* Gone from where it was, the move is done: the pull will tell.
MoveLanded ==
  /\ drain.pc = "move"
  /\ remote' = Done(remote)
  /\ IF remote.files[Moving] = NoFile THEN Settled(Store, drain.op)
     ELSE /\ drain' = [drain EXCEPT !.entry = Entry(remote'),
                         !.pc = IF AtName(remote, drain.at) \subseteq {Moving} THEN "settle" ELSE "met"]
          /\ UNCHANGED <<files, dirs, ops>>
  /\ UNCHANGED <<outcome, past, play>>

BoundElsewhere(id) == \E f \in FileIds : f # drain.op.file /\ files[f] # NoRow /\ files[f].remote = id

\* Mutant: a file that is to be deleted is taken for this one all the same.
NobodyElses(e) == e.ours /\ ~BoundElsewhere(e.id)
\* The same picture, and nothing here has a claim on it.
Adoptable(e) ==
  /\ e.ours /\ ~BoundElsewhere(e.id)
  /\ \A o \in Queued(Store) : o.kind = "delete-file" => o.remote # e.id

\* Adopted, or gone beside, under a name nothing there or here has.
Met ==
  /\ drain.pc = "met"
  /\ LET d == drain.at.dir
         free == FreeName({remote.files[i].at.k : i \in FilesThere(remote, d)} \cup NamesHere(Store, d))
         again == IF drain.op.kind = "upload" THEN "send" ELSE "move"
     IN  drain' = IF Adoptable(drain.entry) THEN [drain EXCEPT !.pc = "settle"]
                  ELSE [drain EXCEPT !.pc = again, !.at = Path(d, free), !.entry = NoFile]
  /\ UNCHANGED <<files, dirs, ops, remote, outcome, past, play>>

\* The file an op takes out of where it is, if any.
Takes(o, rows) == IF o.kind = "delete-file" THEN o.remote
                  ELSE IF o.kind = "move-file" THEN rows[o.file].remote ELSE NoFile

\* A file is sent to a name ahead of the op that takes another out of it.
Crossed(q, rows) ==
  \E i, j \in DOMAIN q : \E r \in Ids :
    /\ i < j /\ q[i].kind \in {"upload", "move-file"}
    /\ r = Takes(q[j], rows) /\ remote.files[r] # NoFile /\ remote.files[r].at = q[i].to

\* Files an op takes out of a directory behind its rmdir.
Behind(q, rows) ==
  {Takes(q[j], rows) : j \in {j \in DOMAIN q :
     \E i \in 1..(j - 1) : q[i].kind = "rmdir" /\ q[i].at.dir = q[j].at.dir}}

Settle ==
  /\ drain.pc = "settle"
  /\ LET op == drain.op
     IN  Settled(IF op.kind = "upload" THEN Uploaded(Store, op.file, drain.entry, drain.sent)
                 ELSE MovedFile(Store, op.file, drain.entry, ByTag(Store, op.tag) = {}), op)
  /\ past' = [past EXCEPT !.crossed = @ \/ Crossed(ops', files'),
                !.behind = IF drain.op.kind = "upload" THEN @ ELSE @ \cup Behind(ops', files')]
  /\ UNCHANGED <<remote, outcome, play>>

Removed ==
  /\ drain.pc = "remove"
  /\ remote' = Done(remote) /\ Settled(Store, drain.op)
  /\ UNCHANGED <<outcome, past, play>>

\* Mutant: the folder is removed whatever is in it.
SameFolder(op) == remote.dirs[op.at.dir] = [here |-> TRUE, id |-> op.remote]
\* The last two gates: the folder the op is about, still there, and no file in
\* it.
Removable(op) ==
  /\ remote.dirs[op.at.dir] = [here |-> TRUE, id |-> op.remote]
  /\ FilesThere(remote, op.at.dir) = {}

Look ==
  /\ drain.pc = "look"
  /\ IF Removable(drain.op) THEN drain' = [drain EXCEPT !.pc = "rmdir"] /\ UNCHANGED <<files, dirs, ops>>
     ELSE Settled(Store, drain.op)
  /\ past' = [past EXCEPT !.strays = {},
                !.overtaken = IF FilesThere(remote, drain.op.at.dir) \cap (past.behind \cup Astray) = {} THEN @
                              ELSE @ \cup {drain.op.at.dir}]
  /\ UNCHANGED <<remote, outcome, play>>

RemovedDir ==
  /\ drain.pc = "rmdir"
  /\ remote' = Done(remote) /\ Settled(Store, drain.op)
  /\ UNCHANGED <<outcome, past, play>>

MadeDir ==
  /\ drain.pc = "mkdir"
  /\ remote' = Done(remote)
  /\ LET d == drain.op.at.dir IN Settled(MadeFolder(Store, d, remote'.dirs[d].id), drain.op)
  /\ UNCHANGED <<outcome, past, play>>

-----------------------------------------------------------------------------
(* What goes wrong.                                                          *)

Trouble(what) ==
  /\ what \in play.happens /\ play.troubles > 0
  /\ play' = [play EXCEPT !.troubles = @ - 1]

InCall == drain.pc \in Calls

\* handleOpError: counted; an upload is stepped over, anything else ends it.
Failed ==
  /\ StoreIs(FailOp(Store, drain.op.tag))
  /\ IF drain.op.kind = "upload"
     THEN drain' = [StepOver(drain.op, NextTurn) EXCEPT !.failed = TRUE] /\ UNCHANGED outcome
     ELSE Ends("retry")

Failure ==
  /\ InCall /\ Trouble("failure") /\ Failed
  /\ UNCHANGED <<remote, past>>

\* The request was carried out, and its answer never came.
LostAnswer ==
  /\ drain.pc \in {"send", "move", "remove", "rmdir", "mkdir"} /\ Trouble("lostAnswer")
  /\ drain.pc = "send" => remote.made < MaxRemote
  /\ remote' = Done(remote)
  /\ past' = [past EXCEPT !.unheard = @ \cup {drain.op.kind}]
  /\ \/ Failed
     \/ Ends("stopped") /\ UNCHANGED <<files, dirs, ops>>

\* A rate limit, a token that is refused, a tab that goes: nothing is counted.
Stopped ==
  /\ InCall /\ Trouble("throttle")
  /\ Ends("stopped")
  /\ UNCHANGED <<files, dirs, ops, remote, past>>

Crash ==
  /\ drain.pc = "settle" /\ Trouble("crash")
  /\ Ends("stopped")
  /\ past' = [past EXCEPT !.unheard = @ \cup {drain.op.kind}]
  /\ UNCHANGED <<files, dirs, ops, remote>>

\* The scheduler, some time after a run that ended blocked.
GiveBack ==
  /\ drain.pc = "idle" /\ outcome = "blocked"
  /\ \E o \in Queued(Store) : o.attempts >= MaxAttempts
  /\ StoreIs(ResetAttempts(Store))
  /\ UNCHANGED <<remote, drain, outcome, past, play>>

-----------------------------------------------------------------------------
(* The user, and the other devices.                                          *)

Act(what) ==
  /\ what \in play.acts /\ play.left > 0
  /\ play' = [play EXCEPT !.left = @ - 1]
  /\ UNCHANGED <<remote, drain, outcome>>

Left(l) == past' = [past EXCEPT !.left = l, !.behind = @ \cup Behind(ops', files'),
                                !.crossed = @ \/ Crossed(ops', files')]

\* The notebook let go and the directory its row named.  One that is being made
\* just then is nobody's to remove (docs/ARCHITECTURE.md, known gaps).
LetsGo(d) == IF drain.pc = "mkdir" /\ drain.op.at.dir = d THEN {} ELSE {<<d, dirs[d]>>}

There(d) == d \in {e \in Notebooks : dirs[e] # NoRow} \cup {Top}
NameFree(d, k) == k \notin NamesHere(Store, d)
\* A row's id is not used again: not while an op is about it.
NewFile == {f \in FileIds : /\ files[f] = NoRow
                            /\ drain.op # NoRow => drain.op.file # f
                            /\ \A o \in Queued(Store) : o.file # f
                            /\ \A g \in FileIds : files[g] = NoRow => f <= g}

UserAdds(d) ==
  /\ Act("add") /\ There(d) /\ NameFree(d, 0)
  /\ \E f \in NewFile : StoreIs(AddFile(Store, f, d))
  /\ Left(past.left)

\* A note moves to another folder, and the picture it links goes too.
UserCopies(f, d) ==
  /\ Act("copy") /\ files[f] # NoRow /\ There(d) /\ NameFree(d, files[f].at.k)
  /\ files[f].held \/ files[f].remote # NoFile
  /\ \E g \in NewFile : StoreIs(CopyFileTo(Store, f, g, d))
  /\ Left(past.left)

UserMoves(f, d) ==
  /\ Act("move") /\ files[f] # NoRow /\ There(d) /\ NameFree(d, files[f].at.k)
  /\ StoreIs(MoveFileTo(Store, f, d))
  /\ Left(past.left)

\* No note links it any more (deleteUnnamed).
UserDrops(f) ==
  /\ Act("drop") /\ files[f] # NoRow
  /\ StoreIs(DropFile(Store, f))
  /\ Left(past.left)

UserCreates(d) ==
  /\ Act("create") /\ dirs[d] = NoRow
  /\ StoreIs(CreateFolder(Store, d))
  /\ Left({l \in past.left : l[1] # d})

UserDeletes(d) ==
  /\ Act("delete") /\ dirs[d] # NoRow
  /\ StoreIs(DeleteFolder(Store, d))
  /\ Left(past.left \cup LetsGo(d))

UserRenames(d, e) ==
  /\ Act("rename") /\ dirs[d] # NoRow /\ dirs[e] = NoRow /\ FilesIn(Store, e) = {}
  /\ StoreIs(RenameFolder(Store, d, e))
  /\ Left({l \in past.left : l[1] # e} \cup LetsGo(d))

\* Another device puts a file there: this picture, or another of its name.
OtherAdds(p, ours) ==
  /\ Trouble("adds") /\ Here(remote, p.dir) /\ AtName(remote, p) = {} /\ remote.made < MaxRemote
  /\ remote' = Created(remote, p, ours)
  /\ past' = [past EXCEPT !.meddled = TRUE, !.strays = @ \cup {remote'.made}]
  /\ UNCHANGED <<files, dirs, ops, drain, outcome>>

OtherDeletes(i) ==
  /\ Trouble("deletes") /\ remote.files[i] # NoFile
  /\ remote' = [remote EXCEPT !.files[i] = NoFile]
  /\ past' = [past EXCEPT !.meddled = TRUE, !.taken = @ \cup {i}]
  /\ UNCHANGED <<files, dirs, ops, drain, outcome>>

-----------------------------------------------------------------------------

Drain == DrainEnds \/ PassOver \/ HoldBack \/ OutOfAttempts
         \/ BeginUpload \/ BeginMove \/ BeginDelete \/ BeginRmdir \/ BeginMkdir
         \/ Fetched \/ SentTo \/ MoveLanded \/ Met \/ Settle \/ Removed \/ Look
         \/ RemovedDir \/ MadeDir

User == \/ \E d \in Folders : UserAdds(d)
        \/ \E f \in FileIds, d \in Folders : UserCopies(f, d) \/ UserMoves(f, d)
        \/ \E f \in FileIds : UserDrops(f)
        \/ \E d \in Notebooks : UserCreates(d) \/ UserDeletes(d)
        \/ \E d, e \in Notebooks : UserRenames(d, e)

Others == \/ \E d \in Folders, ours \in BOOLEAN : OtherAdds(Path(d, 0), ours)
          \/ \E i \in Ids : OtherDeletes(i)

Next == Start \/ Drain \/ GiveBack \/ User \/ Others
        \/ Failure \/ LostAnswer \/ Stopped \/ Crash

Spec == Init /\ [][Next]_vars
FairSpec == Spec /\ WF_vars(Start) /\ WF_vars(Drain) /\ SF_vars(GiveBack)

-----------------------------------------------------------------------------
(* What is checked.                                                          *)

AtRest == drain.pc = "idle" /\ ops = <<>>

About == IF Turn THEN Now ELSE {drain.op}

\* A row that has lost its file is not one the push made: a copy still to be
\* sent goes only where another device deleted what it was to copy.
\* awaitsCopy, holdBack, later (push/drain.ts); handOverToCopies.
CopiesSurvive ==
  [][\A f \in FileIds : files[f] # NoRow /\ files'[f] = NoRow /\ Drain
       => \E op \in About : op.copyOf \in past.taken]_vars

\* With nothing owed and no other device about, every file here is on the
\* remote where it is here, and unless an answer was lost the remote has no
\* other; and every notebook here has its directory.
QuietAgree ==
  AtRest /\ ~past.meddled /\ "move-file" \notin past.unheard =>
    /\ \A d \in Notebooks : dirs[d] # NoRow => remote.dirs[d].here
    /\ \A f \in FileIds : files[f] # NoRow =>
         /\ files[f].remote # NoFile
         /\ remote.files[files[f].remote] # NoFile
         /\ remote.files[files[f].remote].at = files[f].at
    /\ "upload" \in past.unheard \/ \A i \in Ids : remote.files[i] # NoFile =>
         \E f \in FileIds : files[f] # NoRow /\ files[f].remote = i

\* A notebook the user let go of, whose directory the remote had told us of,
\* is gone from the remote once nothing is owed.
FolderGone ==
  AtRest /\ ~past.meddled /\ past.unheard \cap {"upload", "move-file"} = {} /\ ~past.gaveUp =>
    \A l \in past.left : l[2] # NoDir /\ l[1] \notin past.overtaken =>
      ~(remote.dirs[l[1]].here /\ remote.dirs[l[1]].id = l[2])

\* A directory is removed with nothing in it but what was put there since it
\* was found empty.
NothingOfOthersGoes ==
  [][\A d \in Notebooks : remote.dirs[d].here /\ ~remote'.dirs[d].here =>
       FilesThere(remote, d) \subseteq past.strays]_vars

\* With no other device about, a file keeps the name the notes link it by:
\* the queue never sends one to a name that another of this device's files is
\* still at, unless it was sent there ahead of the op that takes that out.
KeepsItsName ==
  \/ past.meddled \/ past.crossed \/ "move-file" \in past.unheard
  \/ \A f \in FileIds : files[f] # NoRow => files[f].at.k = 0

\* A run that ends well has sent everything it read.
OkMeansSent ==
  [][drain.pc # "idle" /\ drain'.pc = "idle" /\ outcome' = "ok" =>
       \A i \in DOMAIN ops' : ops'[i].tag \notin drain.read]_vars

\* Everything owed is sent in the end, though uploads fail and run out of
\* attempts, and deletes and directories wait behind them.
SentInTheEnd == <>[](ops = <<>>)
=============================================================================

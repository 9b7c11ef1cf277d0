------------------------------ MODULE Scheduler ------------------------------
(* When one tab syncs: its sessions, their runs, the timers, the triggers,   *)
(* and the pause.  The engine is its outcomes; the remote is not here.       *)
(*                                                                           *)
(* The tab is one record, and each function of scheduler.ts an operator from *)
(* a tab to a tab, so a trigger is one action as it is one task of the       *)
(* browser.  An action ends where the code waits: for the lock, the network, *)
(* the database.  What is simplified:                                        *)
(*   - time is the order timers fire in, and how long a backoff lasts is     *)
(*     left open; the quarter hour of a blocked queue may pass at any moment;*)
(*   - a queue is how many edits were made and how many are sent;            *)
(*   - a provider this version has, and no error in taking an answer;         *)
(*   - the clipboard, the key file, the relay's own link, progress, and the  *)
(*     words about waiting are left out.                                     *)
EXTENDS Naturals

CONSTANTS Conns, NoConn,
          Sessions, NoSession,   \* names a session goes by; one is used again
          Gone,                  \* no session goes by this name
          MaxEdits,              \* edits made to each source, at most
          MaxAttempts,           \* failures before an op is left alone
          Plays                  \* which sources, edits and happenings there are

Happenings == {"syncNow", "resync", "notice", "cancel", "pause", "reload", "sources",
               "otherTab", "offline", "hidden", "failure", "refusal"}

\* What may happen in a behaviour, and how much of it: the bounds.
Play == [happens : SUBSET Happenings, conns : SUBSET Conns, edits : 0..MaxEdits,
         left : Nat]   \* steps of Disturb

VARIABLES
  tab,      \* what the tab holds in memory, gone at a reload
  live,     \* the sources this device is connected to
  row,      \* the source the database says is shown
  made,     \* Conn -> edits made: the queue's highest number
  sent,     \* Conn -> edits sent
  tries,    \* Conn -> attempts counted against the first op not sent
  cursor,   \* Conn -> whether a cursor is stored
  lock,     \* Conn -> who holds its sync lock
  online, visible,
  play,     \* bound: what may happen here, and how many disturbances are left
  quiet,    \* history: Conn -> whether it is paused, and not asked for since
  spent,    \* history: sources whose push failed, with nothing to retry it since
  owed      \* history: sources whose re-scan is owed

\* A pause is over once it is asked for again; a cancelled import may end it too.
Pauses == {"no", "paused", "cancelled"}

db   == <<live, row, made, sent, tries, cursor>>
window == <<online, visible>>
env  == <<window, play>>
hist == <<quiet, spent, owed>>
vars == <<tab, live, row, made, sent, tries, cursor, lock, online, visible, play,
          quiet, spent, owed>>

Unheard == MaxEdits + 1
NewSession(c) ==
  [conn |-> c, flags |-> {}, run |-> "none", full |-> FALSE, upto |-> 0,
   rebound |-> FALSE, result |-> "none", blocked |-> "no", stuck |-> FALSE,
   heard |-> Unheard, asking |-> FALSE, rescan |-> FALSE, after |-> NoSession]

Results == {"none", "offline", "superseded", "ok", "retry", "refused", "blocked"}
Session ==
  [conn : Conns, flags : SUBSET {"again", "nudged", "backingOff"},
   run : {"none", "lock", "resume", "pull", "push", "answer", "release", "name"},
   full : BOOLEAN, upto : 0..MaxEdits, rebound : BOOLEAN, result : Results,
   blocked : {"no", "since", "long"}, stuck : BOOLEAN, heard : 0..Unheard,
   asking : BOOLEAN, rescan : BOOLEAN, after : Sessions \cup {NoSession}]
Tab ==
  [bound : Sessions \cup {NoSession}, at : [Sessions -> Session \cup {Gone}],
   next : {"none", "interval", "retry"}, debounce : BOOLEAN, notice : 0..2,
   paused : Conns \cup {NoConn}, shown : Conns \cup {NoConn}, halted : SUBSET Conns,
   phase : {"local", "idle", "syncing", "offline", "retrying", "refused", "blocked", "paused"}]

ASSUME SchedulerAssumption ==
  /\ NoConn \notin Conns /\ NoSession \notin Sessions /\ Gone \notin Session
  /\ \A s \in Sessions : s \notin {"free", "round", "scan"}
  /\ MaxEdits \in Nat /\ MaxAttempts \in Nat \ {0} /\ Plays \subseteq Play

NewTab == [bound |-> NoSession, at |-> [s \in Sessions |-> Gone], next |-> "none",
           debounce |-> FALSE, notice |-> 0, paused |-> NoConn, shown |-> NoConn,
           halted |-> {}, phase |-> "local"]

-----------------------------------------------------------------------------
(* One run at a time.                                                        *)

IsCurrent(t, s) == t.bound = s
Busy(t, s) == t.at[s] # Gone /\ t.at[s].run # "none"
BackingOff(t, s) == "backingOff" \in t.at[s].flags /\ t.next # "none"

\* Mutant: a trigger asks nothing about a pause.
RunPausedToo(t, s) == IsCurrent(t, s)

\* Every trigger comes through here, so a pause holds against all of them.
MayRun(t, s) == IsCurrent(t, s) /\ t.paused # t.at[s].conn

RunOnce(t, s) ==
  [t EXCEPT !.next = "none", !.debounce = FALSE, !.phase = "syncing",
            !.at[s].flags = @ \ {"backingOff"}, !.at[s].run = "lock"]

Run(t, s, asked) ==
  IF ~MayRun(t, s) THEN t
  ELSE IF Busy(t, s) THEN [t EXCEPT !.at[s].flags = @ \cup {asked}]
  ELSE RunOnce(t, s)

\* A trigger that is not the user asking defers to a backoff in progress.
Nudge(t, s) == IF BackingOff(t, s) THEN t ELSE Run(t, s, "nudged")

\* Mutant: a nudge that came during a failing run follows it straight away.
NudgedAnyway(t, s) ==
  LET again == {"again", "nudged"} \cap t.at[s].flags # {}
      done  == [t EXCEPT !.at[s].flags = @ \ {"again", "nudged"}, !.at[s].run = "none",
                         !.at[s].result = "none"]
  IN  IF again /\ IsCurrent(t, s) THEN RunOnce(done, s) ELSE done

\* The run has ended; another follows if one was asked for during it, unless
\* it was only a nudge and the run ended backing off.
Finish(t, s) ==
  LET again == \/ "again" \in t.at[s].flags
               \/ "nudged" \in t.at[s].flags /\ ~BackingOff(t, s)
      done  == [t EXCEPT !.at[s].flags = @ \ {"again", "nudged"}, !.at[s].run = "none",
                         !.at[s].result = "none"]
  IN  IF again /\ IsCurrent(t, s) THEN RunOnce(done, s) ELSE done

\* Mutant: a failed run arms nothing.
FailedUnarmed(t, s) == [t EXCEPT !.phase = IF online THEN "retrying" ELSE "offline"]

\* Time may fix it: tried again with a backoff, or when there is a network.
Failed(t, s) ==
  IF online
  THEN [t EXCEPT !.phase = "retrying", !.next = "retry",
                 !.at[s].flags = @ \cup {"backingOff"}]
  ELSE [t EXCEPT !.phase = "offline"]

\* Mutant: an op out of attempts is left alone for good.
BlockedForGood(t, s) == [t EXCEPT !.at[s].blocked = "since", !.at[s].run = "name"]

\* A queue found blocked: the first time is noted, and once it has been long
\* enough the op gets its attempts back.
FoundBlocked(t, s) ==
  IF t.at[s].blocked = "long"
  THEN [t EXCEPT !.at[s].blocked = "no", !.at[s].run = "release"]
  ELSE [t EXCEPT !.at[s].blocked = "since", !.at[s].run = "name"]

Synced(t, s) ==
  Finish([t EXCEPT !.at[s].blocked = "no", !.at[s].stuck = FALSE,
                   !.phase = "idle", !.next = "interval"], s)

\* What a run came to, for the session that is bound.
Settle(t, s) ==
  CASE t.at[s].result = "offline" -> Finish([t EXCEPT !.phase = "offline"], s)
    [] t.at[s].result = "superseded" -> Finish([t EXCEPT !.at[s].flags = @ \cup {"again"}], s)
    [] t.at[s].result = "retry" -> Finish(Failed(t, s), s)
    [] t.at[s].result = "refused" -> Finish([t EXCEPT !.phase = "refused"], s)
    [] t.at[s].result = "blocked" -> FoundBlocked(t, s)
    [] t.at[s].result = "ok" -> Synced(t, s)

-----------------------------------------------------------------------------
(* Following the source the app shows.                                       *)

\* A session that ended and has nothing under way is forgotten.
Tidy(t) ==
  [t EXCEPT !.at = [s \in Sessions |->
     IF @[s] = Gone \/ IsCurrent(t, s) \/ Busy(t, s) \/ @[s].asking \/ @[s].rescan
     THEN @[s] ELSE Gone]]

Unused(t) ==
  {s \in Sessions : /\ t.at[s] = Gone
                    /\ \A r \in Sessions : t.at[r] # Gone => t.at[r].after # s}

\* Mutant: an ended session leaves its timers.
TimersKept(t) == Tidy([t EXCEPT !.bound = NoSession])

EndSession(t) ==
  Tidy([t EXCEPT !.next = "none", !.debounce = FALSE, !.notice = 0, !.bound = NoSession])

\* The source of another tab's choosing, of a cancel's, or of this one's user.
Follow(t, showing) ==
  LET c == IF showing \in t.halted THEN NoConn ELSE showing
      p == IF c = NoConn \/ t.paused # c THEN [t EXCEPT !.paused = NoConn] ELSE t
      ended == EndSession(p)
      s == CHOOSE s \in Sessions : s \in Unused(ended)
      begun == [ended EXCEPT !.bound = s, !.at[s] = NewSession(c),
                             !.phase = IF p.paused = c THEN "paused" ELSE "idle"]
  IN  IF p.bound # NoSession /\ p.at[p.bound].conn = c THEN p
      ELSE IF c = NoConn THEN [ended EXCEPT !.phase = "local"]
      ELSE Run(begun, s, "again")

Resume(t, s) == IF t.paused = t.at[s].conn THEN [t EXCEPT !.paused = NoConn] ELSE t

\* A session of its own takes the place of the one whose run is let go.
Paused(t) ==
  LET was == t.bound
      now == Follow(EndSession([t EXCEPT !.paused = t.at[was].conn]), t.shown)
  IN  IF Busy(t, was) THEN [now EXCEPT !.at[now.bound].after = was] ELSE now

-----------------------------------------------------------------------------
Init ==
  /\ tab = NewTab
  /\ play \in Plays
  /\ live = play.conns
  /\ row \in live
  /\ made = [c \in Conns |-> 0] /\ sent = made /\ tries = made
  /\ cursor = [c \in Conns |-> FALSE]
  /\ lock = [c \in Conns |-> "free"]
  /\ online = TRUE /\ visible = TRUE
  /\ quiet = [c \in Conns |-> "no"] /\ spent = {} /\ owed = {}

Pending(c) == sent[c] < made[c]
Out(c) == tries[c] >= MaxAttempts
Bound == tab.bound # NoSession
Mine == tab.at[tab.bound]

\* A trigger of the tab: nothing but the tab changes.
Trigger(t) == tab' = t /\ UNCHANGED <<db, lock, env, hist>>

-----------------------------------------------------------------------------
(* A run, from the lock to what it came to.                                  *)

\* No result and no lock: the session ended while it waited.
TakeLock(s) ==
  LET c == tab.at[s].conn
  IN  /\ Busy(tab, s) /\ tab.at[s].run = "lock" /\ lock[c] = "free"
      /\ IF IsCurrent(tab, s) /\ online
         THEN /\ tab' = [tab EXCEPT !.at[s].run = "resume"]
              /\ lock' = [lock EXCEPT ![c] = s]
         ELSE /\ tab' = IF IsCurrent(tab, s)
                        THEN [tab EXCEPT !.at[s].run = "answer", !.at[s].result = "offline"]
                        ELSE Tidy(Finish(tab, s))
              /\ UNCHANGED lock
      /\ UNCHANGED <<db, env, hist>>

\* The lock is let go, and the answer is on its way to the tab.
Answer(s, result) ==
  /\ tab' = [tab EXCEPT !.at[s].run = "answer", !.at[s].full = FALSE, !.at[s].upto = 0,
                        !.at[s].rebound = FALSE, !.at[s].result =
               IF result # "ok" /\ tab.at[s].rebound THEN "superseded" ELSE result]
  /\ lock' = [lock EXCEPT ![tab.at[s].conn] = "free"]

\* Failures of the run the user is watching are what a behaviour has few of.
Failing(s) ==
  IF IsCurrent(tab, s) /\ ~tab.at[s].rebound
  THEN /\ play.left > 0 /\ play' = [play EXCEPT !.left = @ - 1]
       /\ (IF tab'.at[s].result = "refused" THEN "refusal" ELSE "failure") \in play.happens
  ELSE UNCHANGED play

At(s, run) == tab.at[s] # Gone /\ tab.at[s].run = run

\* Before anything that writes: is this the folder the notes came from?
Resumed(s) ==
  /\ At(s, "resume")
  /\ tab' = [tab EXCEPT !.at[s].run = "pull", !.at[s].rebound = FALSE,
                        !.at[s].full = ~cursor[tab.at[s].conn]]
  /\ UNCHANGED <<db, lock, env, hist>>

Pull(s) ==
  LET c == tab.at[s].conn
  IN  /\ At(s, "pull")
      /\ c \in live
      /\ cursor' = [cursor EXCEPT ![c] = TRUE]
      /\ owed' = IF tab.at[s].full THEN owed \ {c} ELSE owed
      /\ tab' = [tab EXCEPT !.at[s].run = "push", !.at[s].full = FALSE,
                            !.at[s].upto = made[c]]
      /\ UNCHANGED <<live, row, made, sent, tries, lock, env, quiet, spent>>

Push(s) ==
  LET c == tab.at[s].conn
  IN  /\ At(s, "push")
      /\ c \in live
      /\ tab.at[s].upto > sent[c] => ~Out(c)
      /\ sent' = [sent EXCEPT ![c] = IF tab.at[s].upto > @ THEN tab.at[s].upto ELSE @]
      /\ tries' = IF tab.at[s].upto > sent[c] THEN [tries EXCEPT ![c] = 0] ELSE tries
      /\ spent' = spent \ {c}
      /\ Answer(s, "ok")
      /\ UNCHANGED <<live, row, made, cursor, env, quiet, owed>>

\* Whatever fails before the push, and a source let go of, whose store refuses.
RunFails(s, result) ==
  /\ At(s, "resume") \/ At(s, "pull") \/ At(s, "push")
  /\ Answer(s, result)
  /\ Failing(s)
  /\ UNCHANGED <<db, window, hist>>

\* An op that fails is an attempt against it.  The sources having changed, the
\* run is done over at once, and that is no retry of a nudge's.
PushFails(s) ==
  LET c == tab.at[s].conn
  IN  /\ At(s, "push")
      /\ c \in live /\ tab.at[s].upto > sent[c] /\ ~Out(c)
      /\ tries' = [tries EXCEPT ![c] = @ + 1]
      /\ spent' = IF IsCurrent(tab, s) /\ ~tab.at[s].rebound THEN spent \cup {c} ELSE spent
      /\ Answer(s, "retry")
      /\ Failing(s)
      /\ UNCHANGED <<live, row, made, sent, cursor, window, quiet, owed>>

\* The first op is out of attempts, and nothing behind it goes.
PushBlocked(s) ==
  LET c == tab.at[s].conn
  IN  /\ At(s, "push")
      /\ c \in live /\ tab.at[s].upto > sent[c] /\ Out(c)
      /\ Answer(s, "blocked")
      /\ UNCHANGED <<db, env, hist>>

\* Only the session that is bound takes its answer.
Answered(s) ==
  /\ At(s, "answer")
  /\ tab' = IF IsCurrent(tab, s) THEN Settle(tab, s) ELSE Tidy(Finish(tab, s))
  /\ spent' = IF "again" \in tab.at[s].flags THEN spent \ {tab.at[s].conn} ELSE spent
  /\ UNCHANGED <<db, lock, env, quiet, owed>>

\* A blocked queue, after long enough: attempts given back, and run again.
GiveBackAttempts(s) ==
  /\ At(s, "release")
  /\ tries' = [tries EXCEPT ![tab.at[s].conn] = 0]
  /\ spent' = spent \ {tab.at[s].conn}
  /\ tab' = [tab EXCEPT !.at[s].run = "name", !.at[s].stuck = FALSE,
                        !.at[s].flags = @ \cup {"again"}]
  /\ UNCHANGED <<live, row, made, sent, cursor, lock, env, quiet, owed>>

\* The op that is stuck is named, if one still is.
NameStuck(s) ==
  /\ At(s, "name")
  /\ tab' = IF IsCurrent(tab, s)
            THEN Finish([tab EXCEPT !.at[s].stuck = Out(tab.at[s].conn),
                                    !.phase = "blocked", !.next = "interval"], s)
            ELSE Tidy(Finish(tab, s))
  /\ UNCHANGED <<db, lock, env, hist>>

BlockedForLong(s) ==
  /\ tab.at[s] # Gone /\ tab.at[s].blocked = "since"
  /\ Trigger([tab EXCEPT !.at[s].blocked = "long"])

-----------------------------------------------------------------------------
(* Triggers.                                                                 *)

RetryFires ==
  /\ tab.next = "retry"
  /\ tab' = Run([tab EXCEPT !.next = "none"], tab.bound, "again")
  /\ spent' = spent \ {Mine.conn}
  /\ UNCHANGED <<db, lock, env, quiet, owed>>

\* A hidden tab lets the minute go by, and looks on coming forward.
IntervalFires ==
  LET fired == [tab EXCEPT !.next = "none"]
  IN  /\ tab.next = "interval"
      /\ Trigger(IF visible THEN Run(fired, tab.bound, "again") ELSE fired)

DebounceFires ==
  /\ tab.debounce
  /\ Trigger(Nudge([tab EXCEPT !.debounce = FALSE], tab.bound))

Focus == Bound /\ Trigger(Nudge(tab, tab.bound))

\* Another device has pushed: a round now, and two looks after it.
Noticed == Bound /\ "notice" \in play.happens /\ Trigger([Nudge(tab, tab.bound) EXCEPT !.notice = 1])

LookAgain ==
  LET next == [tab EXCEPT !.notice = IF @ = 1 THEN 2 ELSE 0]
  IN  /\ tab.notice > 0
      /\ Trigger(IF visible THEN Nudge(next, tab.bound) ELSE next)

\* The queue's keys change.  The first answer is what was queued already.
EditHeard ==
  LET seen == Mine.heard
      highest == IF Pending(Mine.conn) THEN made[Mine.conn] ELSE 0
      heard == [tab EXCEPT !.at[tab.bound].heard =
                  IF seen = Unheard \/ highest > seen THEN highest ELSE seen]
  IN  /\ Bound
      /\ heard # tab
      /\ Trigger(IF seen = Unheard THEN heard ELSE [heard EXCEPT !.debounce = TRUE])

\* Attempts are given back first, in a transaction of their own.
Asked(s) ==
  LET c == tab.at[s].conn
  IN  /\ tab.at[s] # Gone /\ tab.at[s].asking
      /\ tries' = [tries EXCEPT ![c] = 0]
      /\ spent' = spent \ {c}
      /\ tab' = Tidy(Run([tab EXCEPT !.at[s].asking = FALSE, !.at[s].stuck = FALSE], s, "again"))
      /\ UNCHANGED <<live, row, made, sent, cursor, lock, env, quiet, owed>>

SyncNow ==
  /\ Bound /\ "syncNow" \in play.happens
  /\ tab' = [Resume(tab, tab.bound) EXCEPT !.at[tab.bound].asking = TRUE]
  /\ quiet' = [quiet EXCEPT ![Mine.conn] = "no"]
  /\ UNCHANGED <<db, lock, env, spent, owed>>

Resync ==
  /\ Bound /\ "resync" \in play.happens
  /\ tab' = [Resume(tab, tab.bound) EXCEPT !.at[tab.bound].rescan = TRUE]
  /\ quiet' = [quiet EXCEPT ![Mine.conn] = "no"]
  /\ UNCHANGED <<db, lock, env, spent, owed>>

\* Mutant: the cursor cleared with a run of the source at the network.
ClearUnlocked(c) == TRUE

\* A run holds a cursor of its own and writes it back when its round lands.
MayClear(c) == lock[c] = "free"

Rescan(s) ==
  LET c == tab.at[s].conn
      cleared == [tab EXCEPT !.at[s].rescan = FALSE, !.at[s].blocked = "no",
                             !.at[s].stuck = FALSE]
  IN  /\ tab.at[s] # Gone /\ tab.at[s].rescan
      /\ MayClear(c)
      /\ IF c \in live
         THEN /\ cursor' = [cursor EXCEPT ![c] = FALSE]
              /\ tries' = [tries EXCEPT ![c] = 0]
              /\ spent' = spent \ {c}
              /\ owed' = owed \cup {c}
         ELSE UNCHANGED <<cursor, tries, spent, owed>>
      /\ tab' = Tidy(Run(cleared, s, "again"))
      /\ UNCHANGED <<live, row, made, sent, lock, env, quiet>>

\* What the aborted send was counted is given back once its run has let go.
GiveBackAfterPause(s) ==
  LET was == tab.at[s].after
  IN  /\ tab.at[s] # Gone /\ was # NoSession /\ ~Busy(tab, was)
      /\ IF IsCurrent(tab, s)
         THEN /\ tab' = [tab EXCEPT !.at[s].after = NoSession, !.at[s].stuck = FALSE]
              /\ tries' = [tries EXCEPT ![tab.at[s].conn] = 0]
         ELSE tab' = [tab EXCEPT !.at[s].after = NoSession] /\ UNCHANGED tries
      /\ UNCHANGED <<live, row, made, sent, cursor, lock, env, hist>>

\* The database answers with the source that is shown.
RowHeard ==
  /\ tab.shown # row
  /\ Unused(EndSession(tab)) # {}
  /\ tab' = Follow([tab EXCEPT !.shown = row], row)
  /\ quiet' = [c \in Conns |-> IF c = row THEN quiet[c] ELSE "no"]
  /\ spent' = spent \cap {row}
  /\ UNCHANGED <<db, lock, env, owed>>

Release(c) ==
  /\ c \in tab.halted
  /\ \A s \in Sessions : Busy(tab, s) => tab.at[s].conn # c
  /\ Unused(EndSession(tab)) # {}
  /\ tab' = Follow([tab EXCEPT !.halted = @ \ {c}], tab.shown)
  /\ UNCHANGED <<db, lock, env, hist>>

-----------------------------------------------------------------------------
(* Disturbances, of which a behaviour has few.                               *)

Edit(c) ==
  /\ c \in live /\ made[c] < play.edits
  /\ made' = [made EXCEPT ![c] = @ + 1]
  /\ UNCHANGED <<tab, live, row, sent, tries, cursor, lock, env, hist>>

\* Mutant: a run goes on sending for a source that was let go of.
SentRegardless ==
  /\ tab' = [tab EXCEPT !.at = [s \in Sessions |->
       IF At(s, "resume") \/ At(s, "pull") \/ At(s, "push")
       THEN [@[s] EXCEPT !.rebound = TRUE] ELSE @[s]]]
  /\ spent' = {}
  /\ UNCHANGED <<lock, window, quiet>>

\* Every change of the device's sources is seen by the runs in progress; what
\* a run of a source let go of was sending is owed no more.
SourcesChange ==
  /\ tab' = [tab EXCEPT !.at = [s \in Sessions |->
       IF At(s, "resume") \/ At(s, "pull") \/ At(s, "push")
       THEN [tab.at[s] EXCEPT !.rebound = TRUE,
                              !.upto = IF tab.at[s].conn \in live' THEN @ ELSE 0]
       ELSE tab.at[s]]]
  /\ spent' = {}
  /\ UNCHANGED <<lock, window, quiet>>

Show(c) ==
  /\ c \in live /\ row # c
  /\ row' = c
  /\ UNCHANGED <<live, made, sent, tries, cursor, owed>>
  /\ SourcesChange

\* Disconnected, here or in another tab: its queue goes, or waits with what
\* the remote was never sent for the account to be connected again.
LetGo(c) ==
  /\ c \in live
  /\ live' = live \ {c}
  /\ row' \in (IF row # c THEN {row} ELSE IF live' = {} THEN {NoConn} ELSE live')
  /\ \/ /\ made' = [made EXCEPT ![c] = 0] /\ sent' = [sent EXCEPT ![c] = 0]
        /\ tries' = [tries EXCEPT ![c] = 0]
     \/ Pending(c) /\ UNCHANGED <<made, sent, tries>>
  /\ cursor' = [cursor EXCEPT ![c] = FALSE]
  /\ owed' = owed \ {c}
  /\ SourcesChange

Bind(c) ==
  /\ c \notin live
  /\ live' = live \cup {c}
  /\ row' = c
  /\ UNCHANGED <<made, sent, tries, cursor, owed>>
  /\ SourcesChange

\* Mutant: offline is said over a pause.
OfflineAnyway ==
  /\ online
  /\ online' = FALSE
  /\ tab' = IF ~Bound \/ Busy(tab, tab.bound) THEN tab
            ELSE [tab EXCEPT !.next = "none", !.phase = "offline"]
  /\ UNCHANGED <<db, lock, visible, hist>>

GoOffline ==
  /\ online
  /\ online' = FALSE
  /\ tab' = IF ~Bound \/ Busy(tab, tab.bound) \/ tab.paused = Mine.conn THEN tab
            ELSE [tab EXCEPT !.next = "none", !.phase = "offline"]
  /\ UNCHANGED <<db, lock, visible, hist>>

Hide == visible /\ visible' = FALSE /\ UNCHANGED <<tab, db, lock, online, hist>>

Pause ==
  /\ Bound
  /\ Unused(EndSession(tab)) # {}
  /\ tab' = Paused(tab)
  /\ quiet' = [quiet EXCEPT ![Mine.conn] = "paused"]
  /\ spent' = spent \ {Mine.conn}
  /\ UNCHANGED <<db, lock, window, owed>>

\* A first import is being cancelled: nothing is started for it meanwhile.
Halt(c) ==
  /\ c \notin tab.halted /\ tab.shown = c
  /\ tab' = Follow([tab EXCEPT !.halted = @ \cup {c}], tab.shown)
  /\ spent' = spent \ {c}
  /\ quiet' = [quiet EXCEPT ![c] = IF @ = "paused" THEN "cancelled" ELSE @]
  /\ UNCHANGED <<db, lock, window, owed>>

\* The tab is closed or reloaded; a lock goes with the tab that held it.
Reload ==
  /\ tab # NewTab
  /\ tab' = NewTab
  /\ lock' = [c \in Conns |-> IF lock[c] \in Sessions THEN "free" ELSE lock[c]]
  /\ quiet' = [c \in Conns |-> "no"] /\ spent' = {}
  /\ UNCHANGED <<db, window, owed>>

OtherTabSyncs(c) ==
  /\ c \in live /\ lock[c] = "free"
  /\ lock' = [lock EXCEPT ![c] = IF cursor[c] THEN "round" ELSE "scan"]
  /\ UNCHANGED <<tab, db, window, hist>>

Disturb ==
  /\ play.left > 0 /\ play' = [play EXCEPT !.left = @ - 1]
  /\ \/ "sources" \in play.happens /\ \E c \in play.conns : Show(c) \/ LetGo(c) \/ Bind(c)
     \/ "cancel" \in play.happens /\ \E c \in play.conns : Halt(c)
     \/ "otherTab" \in play.happens /\ \E c \in play.conns : OtherTabSyncs(c)
     \/ "offline" \in play.happens /\ GoOffline
     \/ "hidden" \in play.happens /\ Hide
     \/ "pause" \in play.happens /\ Pause
     \/ "reload" \in play.happens /\ Reload

\* Another tab's run ends, having sent what it could.
OtherTabEnds(c) ==
  /\ lock[c] \in {"round", "scan"}
  /\ lock' = [lock EXCEPT ![c] = "free"]
  /\ IF c \in live
     THEN /\ cursor' = [cursor EXCEPT ![c] = TRUE]
          /\ owed' = IF lock[c] = "scan" THEN owed \ {c} ELSE owed
          /\ sent' = IF Out(c) THEN sent ELSE [sent EXCEPT ![c] = made[c]]
          /\ tries' = IF Out(c) THEN tries ELSE [tries EXCEPT ![c] = 0]
     ELSE UNCHANGED <<cursor, owed, sent, tries>>
  /\ UNCHANGED <<tab, live, row, made, env, quiet, spent>>

\* What failed while the network was going is no evidence against an op.
GoOnline ==
  /\ ~online
  /\ online' = TRUE
  /\ tab' = IF Bound THEN [tab EXCEPT !.at[tab.bound].asking = TRUE] ELSE tab
  /\ spent' = IF Bound THEN spent \ {Mine.conn} ELSE spent
  /\ UNCHANGED <<db, lock, visible, play, quiet, owed>>

ComeForward ==
  /\ ~visible
  /\ visible' = TRUE
  /\ tab' = IF Bound THEN Nudge(tab, tab.bound) ELSE tab
  /\ UNCHANGED <<db, lock, online, play, hist>>

-----------------------------------------------------------------------------
RunStep(s) ==
  \/ Resumed(s) \/ Pull(s) \/ Push(s) \/ PushFails(s) \/ PushBlocked(s)
  \/ Answered(s) \/ GiveBackAttempts(s) \/ NameStuck(s)
  \/ \E r \in {"retry", "refused"} : RunFails(s, r)
Continues(s) == Asked(s) \/ Rescan(s) \/ GiveBackAfterPause(s)
Timers == RetryFires \/ IntervalFires \/ DebounceFires \/ LookAgain
Hears == RowHeard \/ EditHeard
User == Focus \/ Noticed \/ SyncNow \/ Resync \/ GoOnline \/ ComeForward

Next ==
  \/ \E s \in Sessions : TakeLock(s) \/ RunStep(s) \/ Continues(s) \/ BlockedForLong(s)
  \/ Timers \/ Hears \/ User \/ Disturb
  \/ \E c \in Conns : Edit(c) \/ Release(c) \/ OtherTabEnds(c)

\* The code's own steps, its timers and its database queries happen; the lock
\* is granted in the order it was asked for.  Nothing is asked of the user, the
\* network's coming back or another device.
Fairness ==
  /\ \A s \in Sessions : /\ WF_vars(RunStep(s)) /\ SF_vars(TakeLock(s))
                         /\ WF_vars(Asked(s)) /\ SF_vars(Rescan(s))
                         /\ WF_vars(GiveBackAfterPause(s)) /\ WF_vars(BlockedForLong(s))
  /\ WF_vars(RetryFires) /\ WF_vars(IntervalFires) /\ WF_vars(DebounceFires)
  /\ WF_vars(RowHeard) /\ WF_vars(EditHeard)
  /\ \A c \in Conns : WF_vars(OtherTabEnds(c))

Spec == Init /\ [][Next]_vars
FairSpec == Spec /\ Fairness

-----------------------------------------------------------------------------
(* Properties.                                                               *)

TypeOK ==
  /\ tab \in Tab
  /\ live \subseteq Conns /\ row \in live \cup {NoConn}
  /\ made \in [Conns -> 0..MaxEdits] /\ sent \in [Conns -> 0..MaxEdits]
  /\ tries \in [Conns -> 0..MaxAttempts] /\ cursor \in [Conns -> BOOLEAN]
  /\ lock \in [Conns -> {"free", "round", "scan"} \cup Sessions]
  /\ online \in BOOLEAN /\ visible \in BOOLEAN /\ play \in Play
  /\ quiet \in [Conns -> Pauses] /\ spent \subseteq Conns /\ owed \subseteq Conns
  /\ \A c \in Conns : sent[c] <= made[c]

\* While a source is paused its session runs nothing, has nothing armed to run
\* it, and says so, whichever trigger, answer or timer came after the pause
\* (pause, run, follow, the offline handler); and none runs until the user asks,
\* the source is shown again after another, the app is opened again or a cancel of
\* the source's first import has ended the pause, through sessions that end and
\* start (SyncScheduler.pause, halt).  The last is not in the contract of pause, which
\* names the others only: halt follows no source, that clears the pause, and a
\* release after the server's refusal starts a run.
PausedIsStill ==
  /\ Bound /\ tab.paused = Mine.conn => /\ Mine.run = "none" /\ tab.next = "none"
                                        /\ tab.phase = "paused"
  /\ Bound /\ quiet[Mine.conn] = "paused" => Mine.run = "none"

\* A bound session is never left with nothing to wake it: unless it is paused,
\* or was refused by the server, it is running, about to, waiting on a timer,
\* or waiting for the network or the window to come back (failed, armInterval,
\* the offline and visibilitychange handlers).
SomethingWillWakeIt ==
  Bound /\ tab.paused # Mine.conn =>
    \/ Mine.run # "none" \/ Mine.asking \/ Mine.rescan
    \/ tab.next # "none"
    \/ tab.phase = "refused"
    \/ tab.phase = "offline" /\ ~online
    \/ ~visible

\* A re-scan the user asked for is not undone by a run that was at the network
\* with a cursor of its own: no cursor is stored until a scan has ended
\* (resync, underSyncLock).
RescanIsKept == \A c \in owed : ~cursor[c]

\* No attempt is counted twice against an op on the strength of a nudge: after a
\* failed push the next comes from the backoff's timer, the user, the network, or
\* a change of the device's sources (nudge, backingOff, runOnce's end).
AttemptsAreSpaced ==
  [][\A s \in Sessions : PushFails(s) /\ IsCurrent(tab, s) => tab.at[s].conn \notin spent]_vars

\* With the source shown, the network there and the window in front, and the
\* server not refusing, an edit is sent at last: through failures, a blocked
\* queue, sessions that end, pauses and other tabs.
Able(c) ==
  /\ Bound /\ Mine.conn = c /\ row = c /\ tab.paused # c
  /\ online /\ visible /\ tab.phase # "refused"
EditsGetThrough == \A c \in Conns : []<>(~Pending(c) \/ ~Able(c))
=============================================================================

--------------------------- MODULE Scheduler_proofs ---------------------------
(* What Scheduler's properties rest on, for every set of sources and names,  *)
(* and every play.  The tab is a record that operators turn into another, so *)
(* there is one lemma for each operator: what it keeps of the invariant, and *)
(* that it puts no run to the network.                                       *)
EXTENDS Scheduler, TLAPS

AtNetwork == {"resume", "pull", "push"}
Started == AtNetwork \cup {"answer"}

-----------------------------------------------------------------------------
(* The invariant: a tab in itself.                                           *)

\* What a session's own fields owe one another.
SessionOK(x) ==
  /\ x.run # "push" => x.upto = 0
  /\ x.run = "answer" => x.result # "none"

\* Timers belong to the session that is bound.
WellFormed(t) ==
  /\ t \in Tab
  /\ \A s \in Sessions : t.at[s] # Gone => SessionOK(t.at[s])
  /\ t.bound # NoSession => t.at[t.bound] # Gone
  /\ t.bound = NoSession => t.next = "none" /\ t.debounce = FALSE /\ t.notice = 0

\* The session that is bound is of the source shown, and a pause holds it still.
BoundOK(t) ==
  LET x == t.at[t.bound]
  IN  /\ x.conn = t.shown /\ t.shown \notin t.halted /\ t.paused \in {NoConn, x.conn}
      /\ t.paused = x.conn => x.run = "none" /\ t.next = "none" /\ t.phase = "paused"

TabOK(t) ==
  /\ WellFormed(t)
  /\ t.bound = NoSession => t.paused = NoConn
  /\ t.bound # NoSession => BoundOK(t)

\* No timer runs beside a run.
TimerOK(t) == t.bound # NoSession /\ t.at[t.bound].run # "none" => t.next = "none"

\* From t to u no run is started but up to the lock, and none is changed.
Calm(t, u) ==
  \A s \in Sessions : u.at[s] # Gone =>
    \/ u.at[s].run \notin Started
    \/ /\ t.at[s] # Gone
       /\ u.at[s].conn = t.at[s].conn /\ u.at[s].run = t.at[s].run
       /\ u.at[s].upto = t.at[s].upto /\ u.at[s].full = t.at[s].full

\* A session that runs nothing has something to come, the network there (on) or
\* not and the window in front (seen) or not.
Awake(t, on, seen) ==
  LET x == t.at[t.bound]
  IN  t.bound # NoSession /\ t.paused # x.conn /\ x.run = "none" =>
        \/ x.asking \/ x.rescan \/ t.next # "none" \/ t.phase = "refused"
        \/ t.phase = "offline" /\ ~on
        \/ ~seen

\* A run that found no network is taken up by what the network's return asks.
Recalled(t, on) ==
  LET x == t.at[t.bound]
  IN  t.bound # NoSession /\ x.run = "answer" /\ x.result = "offline" =>
        ~on \/ x.asking \/ "again" \in x.flags

\* A push that failed is followed by a backoff, or the network is away.
Spaced(t, on, failed) ==
  failed # {} =>
    LET x == t.at[t.bound]
    IN  /\ t.bound # NoSession /\ failed = {x.conn}
        /\ \/ x.run = "answer" /\ x.result = "retry"
           \/ x.run = "none" /\ "backingOff" \in x.flags /\ t.next = "retry"
           \/ ~on /\ x.run \in {"none", "lock"}
           \/ ~on /\ x.run = "answer" /\ x.result = "offline"

-----------------------------------------------------------------------------
(* The invariant: the tab and what is outside it.                            *)

\* A run at the network holds its source's lock, sends no more than was made,
\* and a round goes on a cursor only when no re-scan is owed.
RunOK(s) ==
  LET x == tab.at[s]
      c == x.conn
  IN  /\ x.run \in AtNetwork => lock[c] = s
      /\ x.run = "pull" /\ ~x.full => c \notin owed
      /\ x.upto <= made[c]

RunsOK == \A s \in Sessions : tab.at[s] # Gone => RunOK(s)

OwedOK == \A c \in owed : ~cursor[c] /\ lock[c] # "round"

IInv ==
  /\ TypeOK /\ TabOK(tab) /\ TimerOK(tab) /\ RunsOK /\ OwedOK
  /\ Awake(tab, online, visible) /\ Recalled(tab, online)
  /\ Spaced(tab, online, spent) /\ spent \subseteq live

\* A source that is paused, and not asked for since, is the one the tab holds.
QuietOK == \A c \in Conns : quiet[c] = "paused" => tab.paused = c

-----------------------------------------------------------------------------
(* A session revised: what it takes for the tab to stay as it should be.     *)

\* What most of a tab's operators keep, and leave as it is.
SameSource(t, u) ==
  u.bound = t.bound /\ u.shown = t.shown /\ u.halted = t.halted /\ u.paused = t.paused

Kept(t, u) == TabOK(u) /\ Calm(t, u) /\ TimerOK(u) /\ SameSource(t, u)

LEMMA CalmSelf == ASSUME NEW t PROVE Calm(t, t)
BY DEF Calm

LEMMA CalmTrans == ASSUME NEW t, NEW u, NEW v, Calm(t, u), Calm(u, v) PROVE Calm(t, v)
<1> SUFFICES ASSUME NEW s \in Sessions, v.at[s] # Gone, v.at[s].run \in Started
             PROVE  /\ t.at[s] # Gone
                    /\ v.at[s].conn = t.at[s].conn /\ v.at[s].run = t.at[s].run
                    /\ v.at[s].upto = t.at[s].upto /\ v.at[s].full = t.at[s].full
  BY DEF Calm
<1>1. /\ u.at[s] # Gone
      /\ v.at[s].conn = u.at[s].conn /\ v.at[s].run = u.at[s].run
      /\ v.at[s].upto = u.at[s].upto /\ v.at[s].full = u.at[s].full
  BY DEF Calm
<1> QED BY <1>1 DEF Calm

\* A session is a session, and not the name for none.
LEMMA SessionFacts ==
  ASSUME NEW t, WellFormed(t), NEW s \in Sessions, t.at[s] # Gone
  PROVE  /\ t \in Tab /\ t.at[s] \in Session /\ SessionOK(t.at[s]) /\ t.at[s].conn \in Conns
         /\ t.at[s].conn # NoConn /\ s # NoSession
<1>1. t.at[s] \in Session BY DEF WellFormed, Tab
<1> QED BY <1>1, SchedulerAssumption DEF WellFormed, Session

LEMMA BoundFacts ==
  ASSUME NEW t, WellFormed(t), t.bound # NoSession
  PROVE  /\ t.bound \in Sessions /\ t.at[t.bound] # Gone /\ t.at[t.bound] \in Session
         /\ t.at[t.bound].conn # NoConn
<1>1. t.bound \in Sessions /\ t.at[t.bound] # Gone BY DEF WellFormed, Tab
<1> QED BY <1>1, SessionFacts

LEMMA IsThere == ASSUME NEW x \in Session PROVE x # Gone
BY SchedulerAssumption

\* u is t but for the session s, and the timers and the phase of a tab s is bound in.
Revised(t, u, s) ==
  /\ u \in Tab /\ u.bound = t.bound /\ u.shown = t.shown /\ u.halted = t.halted
  /\ u.paused = t.paused
  /\ u.at[s] \in Session /\ u.at[s].conn = t.at[s].conn
  /\ \A r \in Sessions \ {s} : u.at[r] = t.at[r]
  /\ \/ t.bound = s
     \/ u.next = t.next /\ u.debounce = t.debounce /\ u.notice = t.notice /\ u.phase = t.phase

LEMMA RevisedTab ==
  ASSUME NEW t, NEW u, NEW s \in Sessions, TabOK(t), t.at[s] # Gone, Revised(t, u, s),
         SessionOK(u.at[s]),
         t.bound = s /\ t.paused = t.at[s].conn =>
           u.at[s].run = "none" /\ u.next = "none" /\ u.phase = "paused"
  PROVE  TabOK(u) /\ u.at[s] # Gone
<1>1. t \in Tab /\ s # NoSession /\ u.at[s] # Gone
  BY SessionFacts, IsThere DEF TabOK, Revised
<1>2. WellFormed(u)
  <2>1. u \in Tab /\ WellFormed(t) BY DEF TabOK, Revised
  <2>2. ASSUME NEW r \in Sessions, u.at[r] # Gone PROVE SessionOK(u.at[r])
    BY <2>1, <2>2 DEF WellFormed, Revised
  <2>3. u.bound # NoSession => u.at[u.bound] # Gone
    <3>1. u.bound \in Sessions \cup {NoSession} BY <2>1 DEF Tab
    <3> QED BY <2>1, <3>1, <1>1 DEF WellFormed, Revised
  <2>4. u.bound = NoSession => u.next = "none" /\ u.debounce = FALSE /\ u.notice = 0
    BY <2>1, <1>1 DEF WellFormed, Revised
  <2> QED BY <2>1, <2>2, <2>3, <2>4 DEF WellFormed
<1>3. u.bound = NoSession => u.paused = NoConn
  BY DEF TabOK, Revised
<1>4. ASSUME u.bound # NoSession PROVE BoundOK(u)
  <2>1. BoundOK(t) /\ t.bound \in Sessions BY <1>4, BoundFacts DEF Revised, TabOK
  <2>2. CASE t.bound = s BY <2>1, <2>2 DEF BoundOK, Revised
  <2>3. CASE t.bound # s
    <3>1. u.at[t.bound] = t.at[t.bound] BY <2>1, <2>3 DEF Revised
    <3> QED BY <2>1, <2>3, <3>1 DEF BoundOK, Revised
  <2> QED BY <2>2, <2>3
<1> QED BY <1>1, <1>2, <1>3, <1>4 DEF TabOK

LEMMA RevisedOK ==
  ASSUME NEW t, NEW u, NEW s \in Sessions, TabOK(t), t.at[s] # Gone, Revised(t, u, s),
         SessionOK(u.at[s]),
         u.at[s].run \notin Started \/ /\ u.at[s].run = t.at[s].run
                                       /\ u.at[s].upto = t.at[s].upto
                                       /\ u.at[s].full = t.at[s].full,
         t.bound = s /\ t.paused = t.at[s].conn =>
           u.at[s].run = "none" /\ u.next = "none" /\ u.phase = "paused"
  PROVE  TabOK(u) /\ Calm(t, u)
<1>1. TabOK(u) BY RevisedTab
<1>2. Calm(t, u) BY DEF Calm, Revised
<1> QED BY <1>1, <1>2

\* Most operators revise one session, and set the timers and the phase.
With(t, s, x, next, debounce, notice, phase) ==
  [t EXCEPT !.next = next, !.debounce = debounce, !.notice = notice, !.phase = phase,
            !.at = [@ EXCEPT ![s] = x]]

Becomes(t, u, s, x, next, debounce, notice, phase) ==
  /\ u \in Tab /\ u.bound = t.bound /\ u.shown = t.shown /\ u.halted = t.halted
  /\ u.paused = t.paused
  /\ x \in Session /\ u.at[s] = x /\ \A r \in Sessions \ {s} : u.at[r] = t.at[r]
  /\ u.next = next /\ u.debounce = debounce /\ u.notice = notice /\ u.phase = phase

Nexts == {"none", "interval", "retry"}
Phases == {"local", "idle", "syncing", "offline", "retrying", "refused", "blocked", "paused"}

LEMMA WithBecomes ==
  ASSUME NEW t \in Tab, NEW s \in Sessions, NEW x \in Session, NEW n \in Nexts,
         NEW d \in BOOLEAN, NEW k \in 0..2, NEW p \in Phases
  PROVE  Becomes(t, With(t, s, x, n, d, k, p), s, x, n, d, k, p)
<1> DEFINE w == [t.at EXCEPT ![s] = x]
           u == With(t, s, x, n, d, k, p)
<1>1. /\ w \in [Sessions -> Session \cup {Gone}] /\ w[s] = x
      /\ \A r \in Sessions \ {s} : w[r] = t.at[r]
  BY DEF Tab
<1>2. u = [t EXCEPT !.next = n, !.debounce = d, !.notice = k, !.phase = p, !.at = w]
  BY DEF With
<1> HIDE DEF w, u
<1>3. u \in Tab BY <1>1, <1>2 DEF Tab, Nexts, Phases
<1>4. /\ u.bound = t.bound /\ u.shown = t.shown /\ u.halted = t.halted
      /\ u.paused = t.paused /\ u.at = w
      /\ u.next = n /\ u.debounce = d /\ u.notice = k /\ u.phase = p
  BY <1>2 DEF Tab
<1> QED BY <1>1, <1>3, <1>4 DEF u, Becomes

\* The timers and the phase of a tab are timers and a phase.
LEMMA TimersIn ==
  ASSUME NEW t \in Tab
  PROVE  t.next \in Nexts /\ t.debounce \in BOOLEAN /\ t.notice \in 0..2 /\ t.phase \in Phases
BY DEF Tab, Nexts, Phases

LEMMA Constants ==
  /\ \A n \in {"none", "interval", "retry"} : n \in Nexts
  /\ \A p \in {"idle", "syncing", "offline", "retrying", "refused", "blocked", "paused"} :
       p \in Phases
BY DEF Nexts, Phases

\* RevisedOK, of a tab that is With.
LEMMA BecomesOK ==
  ASSUME NEW t, NEW u, NEW s \in Sessions, TabOK(t), t.at[s] # Gone,
         NEW x, NEW n, NEW d, NEW k, NEW p, Becomes(t, u, s, x, n, d, k, p),
         x.conn = t.at[s].conn, SessionOK(x),
         x.run \notin Started \/ /\ x.run = t.at[s].run
                                 /\ x.upto = t.at[s].upto /\ x.full = t.at[s].full,
         \/ t.bound = s
         \/ n = t.next /\ d = t.debounce /\ k = t.notice /\ p = t.phase,
         t.bound = s /\ t.paused = t.at[s].conn => x.run = "none" /\ n = "none" /\ p = "paused"
  PROVE  TabOK(u) /\ Calm(t, u) /\ u.at[s] # Gone
<1>1. Revised(t, u, s) BY DEF Becomes, Revised
<1>2. TabOK(u) /\ Calm(t, u) BY <1>1, RevisedOK DEF Becomes
<1> QED BY <1>2, IsThere DEF Becomes

-----------------------------------------------------------------------------
(* The operators on a tab: a run that starts.                                *)

LEMMA RunOnceBecomes ==
  ASSUME NEW t \in Tab, NEW s \in Sessions, t.at[s] \in Session
  PROVE  LET x == [t.at[s] EXCEPT !.flags = @ \ {"backingOff"}, !.run = "lock"]
         IN  Becomes(t, RunOnce(t, s), s, x, "none", FALSE, t.notice, "syncing")
<1> DEFINE x == [t.at[s] EXCEPT !.flags = @ \ {"backingOff"}, !.run = "lock"]
           u == RunOnce(t, s)
<1>1. x \in Session BY DEF Session
<1>2. u.at = [t.at EXCEPT ![s] = x] BY DEF RunOnce, Tab, Session
<1>3. u = [t EXCEPT !.next = "none", !.debounce = FALSE, !.notice = t.notice,
                    !.phase = "syncing", !.at = u.at]
  BY DEF RunOnce, Tab
<1> HIDE DEF u, x
<1>4. u = With(t, s, x, "none", FALSE, t.notice, "syncing") BY <1>2, <1>3 DEF With
<1>5. Becomes(t, u, s, x, "none", FALSE, t.notice, "syncing")
  BY <1>1, <1>4, WithBecomes, TimersIn, Constants
<1> QED BY <1>5 DEF u, x

LEMMA RunOnceOK ==
  ASSUME NEW t, NEW s \in Sessions, TabOK(t), t.bound = s, t.at[s].run = "none",
         t.paused # t.at[s].conn
  PROVE  LET u == RunOnce(t, s)
         IN  /\ Kept(t, u)
             /\ u.bound = s /\ u.at[s] # Gone /\ u.at[s].conn = t.at[s].conn /\ u.at[s].run = "lock"
<1> DEFINE x == [t.at[s] EXCEPT !.flags = @ \ {"backingOff"}, !.run = "lock"]
           u == RunOnce(t, s)
<1>1. t \in Tab /\ t.at[s] \in Session /\ t.at[s] # Gone /\ SessionOK(t.at[s])
  BY SessionFacts, SchedulerAssumption DEF TabOK, WellFormed, Tab
<1>2. Becomes(t, u, s, x, "none", FALSE, t.notice, "syncing")
  BY <1>1, RunOnceBecomes
<1>3. x.run = "lock" /\ x.conn = t.at[s].conn /\ x.upto = 0
  BY <1>1 DEF Session, SessionOK
<1> HIDE DEF u, x
<1>4. SessionOK(x) BY <1>3 DEF SessionOK
<1>5. TabOK(u) /\ Calm(t, u) /\ u.at[s] # Gone
  BY <1>1, <1>2, <1>3, <1>4, BecomesOK DEF Started, AtNetwork
<1> QED BY <1>2, <1>3, <1>5 DEF Becomes, TimerOK, Kept, SameSource, u

\* A run that is asked for: not now, later, or at once.
LEMMA RunCases ==
  ASSUME NEW t, NEW s \in Sessions, TabOK(t), t.at[s] # Gone, NEW asked \in {"again", "nudged"}
  PROVE  LET u == Run(t, s, asked)
             x == [t.at[s] EXCEPT !.flags = @ \cup {asked}]
         IN  \/ ~MayRun(t, s) /\ u = t
             \/ /\ MayRun(t, s) /\ t.at[s].run # "none"
                /\ Becomes(t, u, s, x, t.next, t.debounce, t.notice, t.phase)
             \/ MayRun(t, s) /\ t.at[s].run = "none" /\ u = RunOnce(t, s)
<1> DEFINE x == [t.at[s] EXCEPT !.flags = @ \cup {asked}]
           u == [t EXCEPT !.at[s].flags = @ \cup {asked}]
<1>1. t \in Tab /\ t.at[s] \in Session BY SessionFacts DEF TabOK
<1>2. x \in Session BY <1>1 DEF Session
<1>3. u.at = [t.at EXCEPT ![s] = x] BY <1>1 DEF Tab, Session
<1>4. u = [t EXCEPT !.next = t.next, !.debounce = t.debounce, !.notice = t.notice,
                    !.phase = t.phase, !.at = u.at]
  BY <1>1 DEF Tab
<1> HIDE DEF u, x
<1>5. u = With(t, s, x, t.next, t.debounce, t.notice, t.phase) BY <1>3, <1>4 DEF With
<1>6. Becomes(t, u, s, x, t.next, t.debounce, t.notice, t.phase)
  BY <1>1, <1>2, <1>5, WithBecomes, TimersIn
<1>7. Run(t, s, asked) = IF ~MayRun(t, s) THEN t ELSE IF t.at[s].run # "none" THEN u
                         ELSE RunOnce(t, s)
  BY DEF Run, Busy, u
<1> QED BY <1>6, <1>7 DEF x

LEMMA FlagsFacts ==
  ASSUME NEW x \in Session, NEW more
  PROVE  LET y == [x EXCEPT !.flags = @ \cup more]
         IN  /\ y.flags = x.flags \cup more /\ y.conn = x.conn /\ y.run = x.run
             /\ y.upto = x.upto /\ y.full = x.full /\ y.result = x.result
             /\ y.asking = x.asking /\ y.rescan = x.rescan
             /\ SessionOK(x) => SessionOK(y)
BY DEF Session, SessionOK

LEMMA RunKept ==
  ASSUME NEW t, NEW s \in Sessions, TabOK(t), TimerOK(t), t.at[s] # Gone,
         NEW asked \in {"again", "nudged"}
  PROVE  Kept(t, Run(t, s, asked))
<1> DEFINE x == [t.at[s] EXCEPT !.flags = @ \cup {asked}]
           u == Run(t, s, asked)
<1>1. t \in Tab /\ t.at[s] \in Session /\ SessionOK(t.at[s]) BY SessionFacts DEF TabOK
<1>2. CASE u = t BY <1>2, CalmSelf DEF Kept, SameSource
<1>3. CASE MayRun(t, s) /\ t.at[s].run = "none" /\ u = RunOnce(t, s)
  BY <1>3, RunOnceOK DEF MayRun, IsCurrent, Kept
<1>4. CASE /\ MayRun(t, s) /\ t.at[s].run # "none"
           /\ Becomes(t, u, s, x, t.next, t.debounce, t.notice, t.phase)
  <2>1. /\ x.conn = t.at[s].conn /\ x.run = t.at[s].run
        /\ x.upto = t.at[s].upto /\ x.full = t.at[s].full /\ SessionOK(x)
    BY <1>1, FlagsFacts
  <2> HIDE DEF u, x
  <2>2. TabOK(u) /\ Calm(t, u)
    BY <1>4, <2>1, BecomesOK DEF MayRun, IsCurrent
  <2>3. TimerOK(u) BY <1>4, <2>1 DEF Becomes, TimerOK, MayRun, IsCurrent
  <2> QED BY <1>4, <2>2, <2>3 DEF Becomes, Kept, SameSource, u
<1> QED BY <1>2, <1>3, <1>4, RunCases

LEMMA RunWakes ==
  ASSUME NEW t, NEW s \in Sessions, TabOK(t), t.at[s] # Gone,
         NEW asked \in {"again", "nudged"}, NEW on \in BOOLEAN, NEW seen \in BOOLEAN,
         t.bound # s => Awake(t, on, seen)
  PROVE  Awake(Run(t, s, asked), on, seen)
<1> DEFINE x == [t.at[s] EXCEPT !.flags = @ \cup {asked}]
           u == Run(t, s, asked)
<1>1. t \in Tab /\ t.at[s] \in Session BY SessionFacts DEF TabOK
<1>2. CASE ~MayRun(t, s) /\ u = t
  BY <1>2 DEF MayRun, IsCurrent, Awake
<1>3. CASE MayRun(t, s) /\ t.at[s].run = "none" /\ u = RunOnce(t, s)
  BY <1>3, RunOnceOK DEF MayRun, IsCurrent, Awake
<1>4. CASE /\ MayRun(t, s) /\ t.at[s].run # "none"
           /\ Becomes(t, u, s, x, t.next, t.debounce, t.notice, t.phase)
  <2>1. x.run = t.at[s].run BY <1>1, FlagsFacts
  <2> HIDE DEF u, x
  <2> QED BY <1>4, <2>1 DEF Becomes, MayRun, IsCurrent, Awake, u
<1> QED BY <1>2, <1>3, <1>4, RunCases

LEMMA RunRecalled ==
  ASSUME NEW t, NEW s \in Sessions, TabOK(t), t.at[s] # Gone,
         NEW asked \in {"again", "nudged"}, NEW on \in BOOLEAN,
         Recalled(t, on) \/ (t.bound = s /\ asked = "again")
  PROVE  Recalled(Run(t, s, asked), on)
<1> DEFINE x == [t.at[s] EXCEPT !.flags = @ \cup {asked}]
           u == Run(t, s, asked)
<1>1. t \in Tab /\ t.at[s] \in Session BY SessionFacts DEF TabOK
<1>2. CASE ~MayRun(t, s) /\ u = t
  <2>1. t.bound = s => BoundOK(t) BY SessionFacts DEF TabOK
  <2> QED BY <1>2, <2>1 DEF MayRun, IsCurrent, Recalled, BoundOK
<1>3. CASE MayRun(t, s) /\ t.at[s].run = "none" /\ u = RunOnce(t, s)
  BY <1>3, RunOnceOK DEF MayRun, IsCurrent, Recalled
<1>4. CASE /\ MayRun(t, s) /\ t.at[s].run # "none"
           /\ Becomes(t, u, s, x, t.next, t.debounce, t.notice, t.phase)
  <2>1. /\ x.flags = t.at[s].flags \cup {asked} /\ x.run = t.at[s].run
        /\ x.result = t.at[s].result /\ x.asking = t.at[s].asking
    BY <1>1, FlagsFacts
  <2> HIDE DEF u, x
  <2> QED BY <1>4, <2>1 DEF Becomes, MayRun, IsCurrent, Recalled, u
<1> QED BY <1>2, <1>3, <1>4, RunCases

LEMMA RunSpaced ==
  ASSUME NEW t, NEW s \in Sessions, TabOK(t), t.at[s] # Gone,
         NEW asked \in {"again", "nudged"}, NEW on \in BOOLEAN, NEW f, Spaced(t, on, f),
         t.bound = s /\ t.at[s].run = "none" => f = {} \/ ~on
  PROVE  Spaced(Run(t, s, asked), on, f)
<1> DEFINE x == [t.at[s] EXCEPT !.flags = @ \cup {asked}]
           u == Run(t, s, asked)
<1>1. t \in Tab /\ t.at[s] \in Session BY SessionFacts DEF TabOK
<1>2. CASE u = t BY <1>2
<1>3. CASE MayRun(t, s) /\ t.at[s].run = "none" /\ u = RunOnce(t, s)
  BY <1>3, RunOnceOK DEF MayRun, IsCurrent, Spaced
<1>4. CASE /\ MayRun(t, s) /\ t.at[s].run # "none"
           /\ Becomes(t, u, s, x, t.next, t.debounce, t.notice, t.phase)
  <2>1. /\ x.run = t.at[s].run /\ x.conn = t.at[s].conn /\ x.result = t.at[s].result
    BY <1>1, FlagsFacts
  <2> HIDE DEF u, x
  <2> QED BY <1>4, <2>1 DEF Becomes, MayRun, IsCurrent, Spaced, u
<1> QED BY <1>2, <1>3, <1>4, RunCases

\* A nudge of the session that is bound.
LEMMA NudgeKept ==
  ASSUME NEW t, NEW s \in Sessions, TabOK(t), TimerOK(t), t.at[s] # Gone
  PROVE  Kept(t, Nudge(t, s))
<1>1. Kept(t, t) BY CalmSelf DEF Kept, SameSource
<1>2. Kept(t, Run(t, s, "nudged")) BY RunKept
<1> QED BY <1>1, <1>2 DEF Nudge

\* What a tab is owed, the failed pushes being f.
Sound(t, on, seen, f) == Awake(t, on, seen) /\ Recalled(t, on) /\ Spaced(t, on, f)

LEMMA NudgeSound ==
  ASSUME NEW t, NEW s \in Sessions, TabOK(t), t.bound = s,
         NEW on \in BOOLEAN, NEW seen \in BOOLEAN, NEW f, Recalled(t, on), Spaced(t, on, f)
  PROVE  Sound(Nudge(t, s), on, seen, f)
<1>0. t.at[s] # Gone BY SessionFacts, SchedulerAssumption DEF TabOK, WellFormed
<1>1. CASE BackingOff(t, s)
  BY <1>1 DEF Nudge, BackingOff, Sound, Awake
<1>2. CASE ~BackingOff(t, s)
  <2>1. Awake(Run(t, s, "nudged"), on, seen) BY <1>0, RunWakes
  <2>2. Recalled(Run(t, s, "nudged"), on) BY <1>0, RunRecalled
  <2>3. t.at[s].run = "none" => f = {} \/ ~on BY <1>2 DEF BackingOff, Spaced
  <2>4. Spaced(Run(t, s, "nudged"), on, f) BY <1>0, <2>3, RunSpaced
  <2> QED BY <1>2, <2>1, <2>2, <2>4 DEF Nudge, Sound
<1> QED BY <1>1, <1>2

-----------------------------------------------------------------------------
(* The operators on a tab: a run that ends.                                  *)

Ended(t, s) ==
  [t EXCEPT !.at[s].flags = @ \ {"again", "nudged"}, !.at[s].run = "none",
            !.at[s].result = "none"]

LEMMA EndedBecomes ==
  ASSUME NEW t \in Tab, NEW s \in Sessions, t.at[s] \in Session
  PROVE  LET x == [t.at[s] EXCEPT !.flags = @ \ {"again", "nudged"}, !.run = "none",
                                  !.result = "none"]
         IN  Becomes(t, Ended(t, s), s, x, t.next, t.debounce, t.notice, t.phase)
<1> DEFINE x == [t.at[s] EXCEPT !.flags = @ \ {"again", "nudged"}, !.run = "none",
                                !.result = "none"]
           u == Ended(t, s)
<1>1. x \in Session BY DEF Session, Results
<1>2. u.at = [t.at EXCEPT ![s] = x] BY DEF Ended, Tab, Session
<1>3. u = [t EXCEPT !.next = t.next, !.debounce = t.debounce, !.notice = t.notice,
                    !.phase = t.phase, !.at = u.at]
  BY DEF Ended, Tab
<1> HIDE DEF u, x
<1>4. u = With(t, s, x, t.next, t.debounce, t.notice, t.phase) BY <1>2, <1>3 DEF With
<1>5. Becomes(t, u, s, x, t.next, t.debounce, t.notice, t.phase)
  BY <1>1, <1>4, WithBecomes, TimersIn
<1> QED BY <1>5 DEF u, x

LEMMA EndedFacts ==
  ASSUME NEW t, NEW s \in Sessions, TabOK(t), t.at[s] # Gone, t.at[s].run \notin AtNetwork
  PROVE  LET u == Ended(t, s)
         IN  /\ t \in Tab /\ t.at[s] \in Session
             /\ u \in Tab /\ SameSource(t, u) /\ \A r \in Sessions \ {s} : u.at[r] = t.at[r]
             /\ u.next = t.next /\ u.debounce = t.debounce /\ u.notice = t.notice
             /\ u.phase = t.phase
             /\ u.at[s].conn = t.at[s].conn /\ u.at[s].run = "none"
             /\ u.at[s].flags = t.at[s].flags \ {"again", "nudged"}
             /\ u.at[s].asking = t.at[s].asking /\ u.at[s].rescan = t.at[s].rescan
             /\ u.at[s] \in Session /\ SessionOK(u.at[s])
<1> DEFINE x == [t.at[s] EXCEPT !.flags = @ \ {"again", "nudged"}, !.run = "none",
                                !.result = "none"]
           u == Ended(t, s)
<1>1. t \in Tab /\ t.at[s] \in Session /\ SessionOK(t.at[s]) BY SessionFacts DEF TabOK
<1>2. Becomes(t, u, s, x, t.next, t.debounce, t.notice, t.phase) BY <1>1, EndedBecomes
<1>3. /\ x.conn = t.at[s].conn /\ x.run = "none" /\ x.upto = 0
      /\ x.flags = t.at[s].flags \ {"again", "nudged"}
      /\ x.asking = t.at[s].asking /\ x.rescan = t.at[s].rescan
  BY <1>1 DEF Session, SessionOK, AtNetwork
<1> HIDE DEF u, x
<1>4. SessionOK(x) BY <1>3 DEF SessionOK
<1> QED BY <1>1, <1>2, <1>3, <1>4 DEF Becomes, SameSource, u

LEMMA EndedKept ==
  ASSUME NEW t, NEW s \in Sessions, TabOK(t), t.at[s] # Gone,
         t.at[s].run \notin AtNetwork \cup {"none"}, t.bound # s => TimerOK(t)
  PROVE  Kept(t, Ended(t, s))
<1> DEFINE u == Ended(t, s)
<1>1. /\ t \in Tab /\ t.at[s] \in Session
      /\ u \in Tab /\ SameSource(t, u) /\ \A r \in Sessions \ {s} : u.at[r] = t.at[r]
      /\ u.next = t.next /\ u.debounce = t.debounce /\ u.notice = t.notice
      /\ u.phase = t.phase /\ u.at[s].conn = t.at[s].conn /\ u.at[s].run = "none"
      /\ u.at[s] \in Session /\ SessionOK(u.at[s])
  BY EndedFacts
<1> HIDE DEF u
<1>2. Revised(t, u, s) BY <1>1 DEF Revised, SameSource
<1>3. t.bound = s => t.paused # t.at[s].conn
  BY SessionFacts DEF TabOK, BoundOK
<1>4. TabOK(u) /\ Calm(t, u) BY <1>1, <1>2, <1>3, RevisedOK DEF Started, AtNetwork
<1>5. TimerOK(u)
  <2>1. CASE t.bound = s BY <1>1, <2>1 DEF TimerOK, SameSource
  <2>2. CASE t.bound # s
    <3>1. u.bound # NoSession => u.bound \in Sessions \ {s}
      BY <1>1, <2>2 DEF SameSource, Tab
    <3> QED BY <1>1, <2>2, <3>1 DEF TimerOK, SameSource
  <2> QED BY <2>1, <2>2
<1> QED BY <1>1, <1>4, <1>5 DEF Kept, u

\* A run asked for while this one went is asked for again.
AskedAgain(t, s) ==
  \/ "again" \in t.at[s].flags
  \/ "nudged" \in t.at[s].flags /\ ~BackingOff(t, s)

LEMMA FinishIs ==
  ASSUME NEW t, NEW s
  PROVE  Finish(t, s) = IF AskedAgain(t, s) /\ t.bound = s THEN RunOnce(Ended(t, s), s)
                        ELSE Ended(t, s)
BY DEF Finish, AskedAgain, Ended, IsCurrent

LEMMA FinishKept ==
  ASSUME NEW t, NEW s \in Sessions, TabOK(t), t.at[s] # Gone,
         t.at[s].run \notin AtNetwork \cup {"none"}, t.bound # s => TimerOK(t)
  PROVE  /\ Kept(t, Finish(t, s))
         /\ t.bound = s => Finish(t, s).at[s].run \in {"none", "lock"}
<1> DEFINE u == Ended(t, s)
<1>1. Kept(t, u) BY EndedKept
<1>2. u.at[s].run = "none" /\ u.at[s].conn = t.at[s].conn /\ SameSource(t, u)
  BY EndedFacts
<1>3. t.bound = s => t.paused # t.at[s].conn
  BY SessionFacts DEF TabOK, BoundOK
<1> HIDE DEF u
<1>4. ASSUME t.bound = s
      PROVE  Kept(t, RunOnce(u, s)) /\ RunOnce(u, s).at[s].run = "lock"
  <2>1. Kept(u, RunOnce(u, s)) /\ RunOnce(u, s).at[s].run = "lock"
    BY <1>1, <1>2, <1>3, <1>4, RunOnceOK DEF Kept, SameSource
  <2>2. Calm(t, RunOnce(u, s)) BY <1>1, <2>1, CalmTrans DEF Kept
  <2> QED BY <1>1, <2>1, <2>2 DEF Kept, SameSource
<1> QED BY <1>1, <1>2, <1>4, FinishIs DEF u

\* Something comes after the run of a session that is bound.
Follows(t, s, on, seen) ==
  \/ "again" \in t.at[s].flags \/ t.at[s].asking \/ t.at[s].rescan
  \/ t.next # "none" \/ t.phase = "refused" \/ (t.phase = "offline" /\ ~on)
  \/ ~seen

\* A push that failed has a backoff after it, or no network.
Backs(t, s, on, f) ==
  \/ f = {}
  \/ /\ f = {t.at[s].conn}
     /\ \/ ~on
        \/ "backingOff" \in t.at[s].flags /\ t.next = "retry" /\ "again" \notin t.at[s].flags

LEMMA FinishSound ==
  ASSUME NEW t, NEW s \in Sessions, TabOK(t), t.bound = s,
         t.at[s].run \notin AtNetwork \cup {"none"},
         NEW on \in BOOLEAN, NEW seen \in BOOLEAN, NEW f,
         Follows(t, s, on, seen), Backs(t, s, on, f)
  PROVE  Sound(Finish(t, s), on, seen, f)
<1> DEFINE u == Ended(t, s)
<1>0. t.at[s] # Gone /\ s # NoSession BY SessionFacts, SchedulerAssumption DEF TabOK, WellFormed
<1>1. Kept(t, u) BY <1>0, EndedKept
<1>2. /\ SameSource(t, u) /\ u.next = t.next /\ u.phase = t.phase
      /\ u.at[s].conn = t.at[s].conn /\ u.at[s].run = "none"
      /\ u.at[s].flags = t.at[s].flags \ {"again", "nudged"}
      /\ u.at[s].asking = t.at[s].asking /\ u.at[s].rescan = t.at[s].rescan
  BY <1>0, EndedFacts
<1>3. t.paused # t.at[s].conn
  BY <1>0, SessionFacts DEF TabOK, BoundOK
<1> HIDE DEF u
<1>4. CASE AskedAgain(t, s)
  <2> DEFINE v == RunOnce(u, s)
  <2>1. /\ Kept(u, v) /\ v.bound = s /\ v.at[s].run = "lock"
        /\ v.at[s].conn = t.at[s].conn
    BY <1>1, <1>2, <1>3, RunOnceOK DEF Kept, SameSource
  <2>2. Finish(t, s) = v BY <1>4, FinishIs DEF u
  <2> HIDE DEF v
  <2>3. f = {} \/ (f = {v.at[s].conn} /\ ~on)
    BY <1>4, <2>1 DEF Backs, AskedAgain, BackingOff
  <2>4. Spaced(v, on, f) BY <1>0, <2>1, <2>3 DEF Spaced
  <2> QED BY <2>1, <2>2, <2>4 DEF Sound, Awake, Recalled
<1>5. CASE ~AskedAgain(t, s)
  <2>1. Finish(t, s) = u BY <1>5, FinishIs DEF u
  <2>2. Awake(u, on, seen) /\ Recalled(u, on)
    BY <1>2, <1>5 DEF Awake, Recalled, Follows, AskedAgain, SameSource
  <2>3. Spaced(u, on, f) BY <1>0, <1>2 DEF Spaced, Backs, SameSource
  <2> QED BY <2>1, <2>2, <2>3 DEF Sound
<1> QED BY <1>4, <1>5

\* The end of a run of a session that is not bound leaves the one that is alone.
LEMMA FinishElsewhere ==
  ASSUME NEW t, NEW s \in Sessions, TabOK(t), t.at[s] # Gone, t.bound # s,
         t.at[s].run \notin AtNetwork,
         NEW on \in BOOLEAN, NEW seen \in BOOLEAN, NEW f, Sound(t, on, seen, f)
  PROVE  Sound(Finish(t, s), on, seen, f)
<1> DEFINE u == Ended(t, s)
<1>1. /\ t \in Tab /\ SameSource(t, u) /\ u.next = t.next /\ u.phase = t.phase
      /\ \A r \in Sessions \ {s} : u.at[r] = t.at[r]
  BY EndedFacts
<1>2. Finish(t, s) = u BY FinishIs
<1> HIDE DEF u
<1>3. t.bound # NoSession => u.at[u.bound] = t.at[t.bound]
  <2>1. t.bound # NoSession => t.bound \in Sessions \ {s} BY <1>1 DEF Tab
  <2> QED BY <1>1, <2>1 DEF SameSource
<1>4. Awake(u, on, seen) /\ Recalled(u, on)
  BY <1>1, <1>3 DEF Sound, Awake, Recalled, SameSource
<1>5. Spaced(u, on, f) BY <1>1, <1>3 DEF Sound, Spaced, SameSource
<1> QED BY <1>2, <1>4, <1>5 DEF Sound

-----------------------------------------------------------------------------
(* The operators on a tab: sessions forgotten, ended and begun.              *)

\* A session with something under way is not forgotten.
Needed(t, s) == t.at[s].run # "none" \/ t.at[s].asking \/ t.at[s].rescan

LEMMA TidyFields ==
  ASSUME NEW t \in Tab
  PROVE  LET u == Tidy(t)
         IN  /\ u \in Tab /\ SameSource(t, u)
             /\ u.next = t.next /\ u.debounce = t.debounce /\ u.notice = t.notice
             /\ u.phase = t.phase
             /\ u.at = [s \in Sessions |-> IF t.at[s] = Gone \/ t.bound = s \/ Needed(t, s)
                                           THEN t.at[s] ELSE Gone]
<1> DEFINE w == [s \in Sessions |-> IF t.at[s] = Gone \/ t.bound = s \/ Needed(t, s)
                                    THEN t.at[s] ELSE Gone]
           u == Tidy(t)
<1>1. w \in [Sessions -> Session \cup {Gone}] BY DEF Tab
<1>2. \A s \in Sessions : w[s] = IF \/ t.at[s] = Gone \/ IsCurrent(t, s) \/ Busy(t, s)
                                    \/ t.at[s].asking \/ t.at[s].rescan
                                 THEN t.at[s] ELSE Gone
  BY DEF IsCurrent, Busy, Needed
<1>3. w = [s \in Sessions |-> IF \/ t.at[s] = Gone \/ IsCurrent(t, s) \/ Busy(t, s)
                                 \/ t.at[s].asking \/ t.at[s].rescan
                              THEN t.at[s] ELSE Gone]
  BY <1>2
<1> HIDE DEF w
<1>4. u = [t EXCEPT !.at = w] BY <1>3 DEF Tidy
<1> HIDE DEF u
<1>5. /\ u \in Tab /\ SameSource(t, u)
      /\ u.next = t.next /\ u.debounce = t.debounce /\ u.notice = t.notice
      /\ u.phase = t.phase /\ u.at = w
  BY <1>1, <1>4 DEF Tab, SameSource
<1> QED BY <1>5 DEF u, w

LEMMA TidyWell ==
  ASSUME NEW t, WellFormed(t)
  PROVE  LET u == Tidy(t)
         IN  /\ WellFormed(u) /\ Calm(t, u) /\ SameSource(t, u)
             /\ u.next = t.next /\ u.phase = t.phase
             /\ t.bound # NoSession => u.at[u.bound] = t.at[t.bound]
<1> DEFINE u == Tidy(t)
<1>1. /\ u \in Tab /\ SameSource(t, u)
      /\ u.next = t.next /\ u.debounce = t.debounce /\ u.notice = t.notice
      /\ u.phase = t.phase
      /\ u.at = [s \in Sessions |-> IF t.at[s] = Gone \/ t.bound = s \/ Needed(t, s)
                                    THEN t.at[s] ELSE Gone]
  BY TidyFields DEF WellFormed
<1> HIDE DEF u
<1>2. \A s \in Sessions : u.at[s] = t.at[s] \/ u.at[s] = Gone BY <1>1
<1>3. t.bound # NoSession => u.at[u.bound] = t.at[t.bound]
  <2>1. t.bound # NoSession => t.bound \in Sessions BY DEF WellFormed, Tab
  <2> QED BY <1>1, <2>1 DEF SameSource
<1>4. WellFormed(u)
  <2>1. \A s \in Sessions : u.at[s] # Gone => SessionOK(u.at[s]) BY <1>2 DEF WellFormed
  <2>2. u.bound # NoSession => u.at[u.bound] # Gone BY <1>1, <1>3 DEF WellFormed, SameSource
  <2> QED BY <1>1, <2>1, <2>2 DEF WellFormed, SameSource
<1>5. Calm(t, u) BY <1>2 DEF Calm
<1> QED BY <1>1, <1>3, <1>4, <1>5 DEF u

LEMMA TidyKept ==
  ASSUME NEW t, TabOK(t), TimerOK(t)
  PROVE  Kept(t, Tidy(t))
<1> DEFINE u == Tidy(t)
<1>1. /\ WellFormed(u) /\ Calm(t, u) /\ SameSource(t, u)
      /\ u.next = t.next /\ u.phase = t.phase
      /\ t.bound # NoSession => u.at[u.bound] = t.at[t.bound]
  BY TidyWell DEF TabOK
<1> HIDE DEF u
<1>2. TabOK(u) /\ TimerOK(u) BY <1>1 DEF TabOK, BoundOK, TimerOK, SameSource
<1> QED BY <1>1, <1>2 DEF Kept, u

LEMMA TidySound ==
  ASSUME NEW t, WellFormed(t), NEW on \in BOOLEAN, NEW seen \in BOOLEAN, NEW f,
         Sound(t, on, seen, f)
  PROVE  Sound(Tidy(t), on, seen, f)
<1> DEFINE u == Tidy(t)
<1>1. /\ SameSource(t, u) /\ u.next = t.next /\ u.phase = t.phase
      /\ t.bound # NoSession => u.at[u.bound] = t.at[t.bound]
  BY TidyWell
<1> HIDE DEF u
<1>2. Awake(u, on, seen) /\ Recalled(u, on) BY <1>1 DEF Sound, Awake, Recalled, SameSource
<1>3. Spaced(u, on, f) BY <1>1 DEF Sound, Spaced, SameSource
<1> QED BY <1>2, <1>3 DEF Sound, u

\* With no session bound, what is needed is all that is kept.
Left(t, s) == IF t.at[s] = Gone \/ Needed(t, s) THEN t.at[s] ELSE Gone

LEMMA EndSessionOK ==
  ASSUME NEW t, WellFormed(t)
  PROVE  LET u == EndSession(t)
         IN  /\ WellFormed(u) /\ Calm(t, u)
             /\ u.bound = NoSession /\ u.shown = t.shown /\ u.halted = t.halted
             /\ u.paused = t.paused /\ u.next = "none"
             /\ u.at = [s \in Sessions |-> Left(t, s)]
<1> DEFINE v == [t EXCEPT !.next = "none", !.debounce = FALSE, !.notice = 0,
                          !.bound = NoSession]
           u == Tidy(v)
<1>1. /\ v \in Tab /\ v.at = t.at /\ v.bound = NoSession /\ v.shown = t.shown
      /\ v.halted = t.halted /\ v.paused = t.paused
      /\ v.next = "none" /\ v.debounce = FALSE /\ v.notice = 0
  <2> DEFINE d == FALSE
             k == 0
  <2>1. t \in Tab /\ d \in BOOLEAN /\ k \in 0..2 BY DEF WellFormed
  <2>2. v = [t EXCEPT !.next = "none", !.debounce = d, !.notice = k, !.bound = NoSession]
    OBVIOUS
  <2> HIDE DEF v, d, k
  <2>3. v \in Tab BY <2>1, <2>2 DEF Tab
  <2>4. /\ v.at = t.at /\ v.bound = NoSession /\ v.shown = t.shown
        /\ v.halted = t.halted /\ v.paused = t.paused
        /\ v.next = "none" /\ v.debounce = FALSE /\ v.notice = 0
    BY <2>1, <2>2 DEF Tab, d, k
  <2> QED BY <2>3, <2>4
<1> HIDE DEF v
<1>2. WellFormed(v) BY <1>1 DEF WellFormed
<1>3. Calm(t, v) BY <1>1 DEF Calm
<1>4. /\ WellFormed(u) /\ Calm(v, u) /\ SameSource(v, u) /\ u.next = v.next
  BY <1>2, TidyWell
<1>5. u.at = [s \in Sessions |-> IF v.at[s] = Gone \/ v.bound = s \/ Needed(v, s)
                                 THEN v.at[s] ELSE Gone]
  BY <1>1, TidyFields
<1>6. u = EndSession(t) BY DEF EndSession, v
<1> HIDE DEF u
<1>7. u.at = [s \in Sessions |-> Left(t, s)]
  <2>1. \A s \in Sessions : s # NoSession BY SchedulerAssumption
  <2> QED BY <1>1, <1>5, <2>1 DEF Left, Needed
<1>8. Calm(t, u) BY <1>3, <1>4, CalmTrans
<1> QED BY <1>1, <1>4, <1>6, <1>7, <1>8 DEF SameSource

LEMMA UnusedSame ==
  ASSUME NEW t, NEW v, WellFormed(t), WellFormed(v), v.at = t.at
  PROVE  Unused(EndSession(v)) = Unused(EndSession(t))
<1>1. /\ EndSession(v).at = [s \in Sessions |-> Left(v, s)]
      /\ EndSession(t).at = [s \in Sessions |-> Left(t, s)]
  BY EndSessionOK
<1>2. \A s \in Sessions : Left(v, s) = Left(t, s) BY DEF Left, Needed
<1>3. EndSession(v).at = EndSession(t).at BY <1>1, <1>2
<1> QED BY <1>3 DEF Unused

\* To end a session is all there is to do once.
LEMMA UnusedTwice ==
  ASSUME NEW t, WellFormed(t)
  PROVE  Unused(EndSession(EndSession(t))) = Unused(EndSession(t))
<1> DEFINE u == EndSession(t)
<1>1. WellFormed(u) /\ u.at = [s \in Sessions |-> Left(t, s)] BY EndSessionOK
<1>2. EndSession(u).at = [s \in Sessions |-> Left(u, s)] BY <1>1, EndSessionOK
<1>3. \A s \in Sessions : Left(u, s) = u.at[s] BY <1>1 DEF Left, Needed
<1>4. EndSession(u).at = u.at BY <1>1, <1>2, <1>3
<1> QED BY <1>4 DEF Unused

LEMMA NewSessionOK ==
  ASSUME NEW c \in Conns
  PROVE  LET x == NewSession(c)
         IN  /\ x \in Session /\ SessionOK(x) /\ x.conn = c /\ x.run = "none"
             /\ x.flags = {} /\ ~x.asking /\ ~x.rescan
<1>1. 0 \in 0..MaxEdits /\ Unheard \in 0..Unheard BY SchedulerAssumption DEF Unheard
<1> QED BY <1>1 DEF NewSession, Session, SessionOK, Results

-----------------------------------------------------------------------------
(* The operators on a tab: following the source that is shown.               *)

\* A tab that may follow: a pause holds, whatever is shown or halted now.
Ready(t) ==
  /\ WellFormed(t) /\ TimerOK(t)
  /\ t.bound # NoSession /\ t.paused = t.at[t.bound].conn =>
       t.at[t.bound].run = "none" /\ t.next = "none" /\ t.phase = "paused"

\* The source there is to sync.
Source(t) == IF t.shown \in t.halted THEN NoConn ELSE t.shown
Stays(t) == t.bound # NoSession /\ t.at[t.bound].conn = Source(t)

\* A pause of another source is forgotten.
Forgets(t) ==
  IF Source(t) = NoConn \/ t.paused # Source(t) THEN [t EXCEPT !.paused = NoConn] ELSE t

LEMMA ForgetsOK ==
  ASSUME NEW t, Ready(t)
  PROVE  LET p == Forgets(t)
         IN  /\ Ready(p) /\ p.bound = t.bound /\ p.at = t.at /\ p.shown = t.shown
             /\ p.halted = t.halted /\ p.next = t.next /\ p.phase = t.phase
             /\ p.paused = IF Source(t) # NoConn /\ t.paused = Source(t) THEN t.paused ELSE NoConn
<1> DEFINE p == Forgets(t)
<1>1. t \in Tab BY DEF Ready, WellFormed
<1>2. /\ p \in Tab /\ p.bound = t.bound /\ p.at = t.at /\ p.shown = t.shown
      /\ p.halted = t.halted /\ p.next = t.next /\ p.phase = t.phase
      /\ p.debounce = t.debounce /\ p.notice = t.notice
      /\ p.paused = IF Source(t) # NoConn /\ t.paused = Source(t) THEN t.paused ELSE NoConn
  BY <1>1 DEF Forgets, Tab
<1> HIDE DEF p
<1>3. WellFormed(p) BY <1>2 DEF Ready, WellFormed
<1>4. p.bound # NoSession => p.at[p.bound].conn # NoConn BY <1>3, BoundFacts
<1>5. Ready(p) BY <1>2, <1>3, <1>4 DEF Ready, TimerOK
<1> QED BY <1>2, <1>5 DEF p

\* A session begun for the source c.
Begun(t, s, c) ==
  [EndSession(t) EXCEPT !.bound = s, !.at[s] = NewSession(c),
                        !.phase = IF t.paused = c THEN "paused" ELSE "idle"]

LEMMA FollowIs ==
  ASSUME NEW t, Ready(t)
  PROVE  LET p == Forgets(t)
             s == CHOOSE s \in Sessions : s \in Unused(EndSession(p))
         IN  Follow(t, t.shown) =
               IF Stays(t) THEN p
               ELSE IF Source(t) = NoConn THEN [EndSession(p) EXCEPT !.phase = "local"]
               ELSE Run(Begun(p, s, Source(t)), s, "again")
<1>1. Forgets(t).bound = t.bound /\ Forgets(t).at = t.at BY ForgetsOK
<1> QED BY <1>1 DEF Follow, Source, Stays, Forgets, Begun

LEMMA BegunOK ==
  ASSUME NEW t, Ready(t), NEW s \in Sessions, NEW c \in Conns, c = t.shown,
         c \notin t.halted, t.paused \in {NoConn, c}
  PROVE  LET u == Begun(t, s, c)
         IN  /\ TabOK(u) /\ TimerOK(u) /\ Calm(t, u)
             /\ u.bound = s /\ u.shown = t.shown /\ u.halted = t.halted /\ u.paused = t.paused
             /\ u.at[s] # Gone /\ u.at[s].conn = c /\ u.at[s].run = "none"
<1> DEFINE e == EndSession(t)
           x == NewSession(c)
           q == IF t.paused = c THEN "paused" ELSE "idle"
           u == Begun(t, s, c)
<1>1. /\ WellFormed(e) /\ Calm(t, e) /\ e.bound = NoSession /\ e.shown = t.shown
      /\ e.halted = t.halted /\ e.paused = t.paused /\ e.next = "none"
  BY EndSessionOK DEF Ready
<1>2. x \in Session /\ SessionOK(x) /\ x.conn = c /\ x.run = "none" BY NewSessionOK
<1>3. u = [e EXCEPT !.bound = s, !.at[s] = x, !.phase = q] BY DEF Begun
<1>4. q \in Phases BY Constants
<1>5. q = "paused" \/ t.paused # c OBVIOUS
<1> HIDE DEF e, x, u, q
<1>6. e \in Tab BY <1>1 DEF WellFormed
<1>7. /\ u.bound = s /\ u.shown = t.shown /\ u.halted = t.halted /\ u.paused = t.paused
      /\ u.next = "none" /\ u.phase = q /\ u.debounce = e.debounce /\ u.notice = e.notice
      /\ u.at = [e.at EXCEPT ![s] = x]
  BY <1>1, <1>3, <1>6 DEF Tab
<1>8. u \in Tab
  <2>1. u.at \in [Sessions -> Session \cup {Gone}] BY <1>2, <1>6, <1>7 DEF Tab
  <2>2. u = [e EXCEPT !.bound = s, !.at = u.at, !.phase = q] BY <1>3, <1>6, <1>7 DEF Tab
  <2> QED BY <1>4, <1>6, <2>1, <2>2 DEF Tab, Phases
<1>9. u.at[s] = x /\ \A r \in Sessions \ {s} : u.at[r] = e.at[r] BY <1>6, <1>7 DEF Tab
<1>10. x # Gone /\ s # NoSession BY <1>2, SchedulerAssumption
<1>11. WellFormed(u)
  <2>1. \A r \in Sessions : u.at[r] # Gone => SessionOK(u.at[r])
    BY <1>1, <1>2, <1>9 DEF WellFormed
  <2> QED BY <1>7, <1>8, <1>9, <1>10, <2>1 DEF WellFormed
<1>12. BoundOK(u) BY <1>2, <1>5, <1>7, <1>9 DEF BoundOK
<1>13. TimerOK(u) BY <1>7 DEF TimerOK
<1>14. Calm(t, u)
  <2>1. Calm(e, u) BY <1>2, <1>9 DEF Calm, Started, AtNetwork
  <2> QED BY <1>1, <2>1, CalmTrans
<1> QED BY <1>2, <1>7, <1>9, <1>10, <1>11, <1>12, <1>13, <1>14 DEF TabOK, u

\* What a tab follows, and the pause that is left.
Followed(t, u) ==
  /\ TabOK(u) /\ TimerOK(u) /\ Calm(t, u) /\ u.shown = t.shown /\ u.halted = t.halted
  /\ u.paused = IF Source(t) # NoConn /\ t.paused = Source(t) THEN t.paused ELSE NoConn
  /\ Source(t) # NoConn => u.bound # NoSession

LEMMA FollowOK ==
  ASSUME NEW t, Ready(t), NEW on \in BOOLEAN, NEW seen \in BOOLEAN, NEW f,
         Source(t) = NoConn \/ Stays(t) \/ Unused(EndSession(t)) # {}
  PROVE  /\ Followed(t, Follow(t, t.shown))
         /\ /\ Stays(t) => Sound(t, on, seen, f)
            /\ ~Stays(t) => f = {}
            => Sound(Follow(t, t.shown), on, seen, f)
<1> DEFINE p == Forgets(t)
           s == CHOOSE s \in Sessions : s \in Unused(EndSession(p))
           c == Source(t)
           b == Begun(p, s, c)
           u == Follow(t, t.shown)
<1>1. /\ Ready(p) /\ p.bound = t.bound /\ p.at = t.at /\ p.shown = t.shown
      /\ p.halted = t.halted /\ p.next = t.next /\ p.phase = t.phase
      /\ p.paused = IF c # NoConn /\ t.paused = c THEN t.paused ELSE NoConn
  BY ForgetsOK
<1>2. u = IF Stays(t) THEN p ELSE IF c = NoConn THEN [EndSession(p) EXCEPT !.phase = "local"]
          ELSE Run(b, s, "again")
  BY FollowIs
<1>3. Calm(t, p) BY <1>1 DEF Calm
<1>4. c # NoConn => c \in Conns /\ c = t.shown /\ c \notin t.halted
  BY DEF Source, Ready, WellFormed, Tab
<1>5. CASE Stays(t)
  <2>1. u = p BY <1>2, <1>5
  <2>2. t.bound # NoSession /\ t.at[t.bound].conn = c BY <1>5 DEF Stays
  <2>3. c # NoConn BY <2>2, BoundFacts DEF Ready
  <2> HIDE DEF p, u, c
  <2>4. BoundOK(p) BY <1>1, <1>4, <2>2, <2>3 DEF BoundOK, Ready
  <2>5. TabOK(p) BY <1>1, <2>2, <2>4 DEF TabOK, Ready
  <2>6. Followed(t, p) BY <1>1, <1>3, <2>2, <2>5 DEF Followed, Ready, c
  <2>7. ASSUME Sound(t, on, seen, f) PROVE Sound(p, on, seen, f)
    <3>1. Awake(p, on, seen) /\ Recalled(p, on)
      BY <1>1, <2>2, <2>7 DEF Sound, Awake, Recalled
    <3>2. Spaced(p, on, f) BY <1>1, <2>7 DEF Sound, Spaced
    <3> QED BY <3>1, <3>2 DEF Sound
  <2> QED BY <1>5, <2>1, <2>6, <2>7 DEF u
<1>6. CASE ~Stays(t) /\ c = NoConn
  <2> DEFINE e == EndSession(p)
             v == [e EXCEPT !.phase = "local"]
  <2>1. /\ WellFormed(e) /\ Calm(p, e) /\ e.bound = NoSession /\ e.shown = p.shown
        /\ e.halted = p.halted /\ e.paused = p.paused
    BY <1>1, EndSessionOK DEF Ready
  <2>2. u = v BY <1>2, <1>6
  <2> HIDE DEF e, c, p, u
  <2>3. e \in Tab BY <2>1 DEF WellFormed
  <2>4. /\ v \in Tab /\ v.bound = e.bound /\ v.shown = e.shown /\ v.halted = e.halted
        /\ v.paused = e.paused /\ v.at = e.at /\ v.next = e.next
        /\ v.debounce = e.debounce /\ v.notice = e.notice
    BY <2>3 DEF Tab
  <2> HIDE DEF v
  <2>5. TabOK(v) /\ TimerOK(v)
    <3>1. WellFormed(v) BY <2>1, <2>4 DEF WellFormed
    <3> QED BY <1>1, <1>6, <2>1, <2>4, <3>1 DEF TabOK, TimerOK
  <2>6. Calm(t, v)
    <3>1. Calm(e, v) BY <2>4 DEF Calm
    <3> QED BY <1>3, <2>1, <3>1, CalmTrans
  <2>7. Followed(t, v) BY <1>1, <1>6, <2>1, <2>4, <2>5, <2>6 DEF Followed, c
  <2>8. Awake(v, on, seen) /\ Recalled(v, on) BY <2>1, <2>4 DEF Awake, Recalled
  <2>9. f = {} => Spaced(v, on, f) BY DEF Spaced
  <2> QED BY <1>6, <2>2, <2>7, <2>8, <2>9 DEF Sound, u
<1>7. CASE ~Stays(t) /\ c # NoConn
  <2>1. s \in Sessions
    <3>1. Unused(EndSession(p)) = Unused(EndSession(t)) BY <1>1, UnusedSame DEF Ready
    <3>2. Unused(EndSession(t)) # {} BY <1>7
    <3>3. \E r \in Sessions : r \in Unused(EndSession(p)) BY <3>1, <3>2 DEF Unused
    <3> QED BY <3>3
  <2>2. u = Run(b, s, "again") BY <1>2, <1>7
  <2> HIDE DEF s, p, c, u
  <2>3. p.paused \in {NoConn, c} BY <1>1
  <2>4. /\ TabOK(b) /\ TimerOK(b) /\ Calm(p, b)
        /\ b.bound = s /\ b.shown = p.shown /\ b.halted = p.halted /\ b.paused = p.paused
        /\ b.at[s] # Gone /\ b.at[s].conn = c /\ b.at[s].run = "none"
    BY <1>1, <1>4, <1>7, <2>1, <2>3, BegunOK
  <2> HIDE DEF b
  <2>5. Kept(b, u) BY <2>1, <2>2, <2>4, RunKept
  <2>6. Calm(t, u)
    <3>1. Calm(t, b) BY <1>3, <2>4, CalmTrans
    <3> QED BY <2>5, <3>1, CalmTrans DEF Kept
  <2>7. s # NoSession BY <2>1, SchedulerAssumption
  <2>8. Followed(t, u) BY <1>1, <2>4, <2>5, <2>6, <2>7 DEF Followed, Kept, SameSource, c
  <2>9. Awake(u, on, seen) BY <2>1, <2>2, <2>4, RunWakes
  <2>10. Recalled(u, on) BY <2>1, <2>2, <2>4, RunRecalled
  <2>11. f = {} => Spaced(u, on, f) BY DEF Spaced
  <2> QED BY <1>7, <2>8, <2>9, <2>10, <2>11 DEF Sound, u
<1> QED BY <1>5, <1>6, <1>7

-----------------------------------------------------------------------------
(* The operators on a tab: a pause.                                          *)

\* The session that takes the place of a paused one says which it comes after.
LEMMA AfterBecomes ==
  ASSUME NEW t \in Tab, NEW s \in Sessions, t.at[s] \in Session, NEW r \in Sessions
  PROVE  LET x == [t.at[s] EXCEPT !.after = r]
         IN  Becomes(t, [t EXCEPT !.at[s].after = r], s, x, t.next, t.debounce, t.notice, t.phase)
<1> DEFINE x == [t.at[s] EXCEPT !.after = r]
           u == [t EXCEPT !.at[s].after = r]
<1>1. x \in Session BY DEF Session
<1>2. u.at = [t.at EXCEPT ![s] = x] BY DEF Tab, Session
<1>3. u = [t EXCEPT !.next = t.next, !.debounce = t.debounce, !.notice = t.notice,
                    !.phase = t.phase, !.at = u.at]
  BY DEF Tab
<1> HIDE DEF u, x
<1>4. u = With(t, s, x, t.next, t.debounce, t.notice, t.phase) BY <1>2, <1>3 DEF With
<1>5. Becomes(t, u, s, x, t.next, t.debounce, t.notice, t.phase)
  BY <1>1, <1>4, WithBecomes, TimersIn
<1> QED BY <1>5 DEF u, x

\* A revision that leaves a session's run and timers is one the tab keeps by.
LEMMA SameRunKept ==
  ASSUME NEW t, NEW u, NEW s \in Sessions, TabOK(t), TimerOK(t), t.at[s] # Gone,
         NEW x, Becomes(t, u, s, x, t.next, t.debounce, t.notice, t.phase),
         x.conn = t.at[s].conn, x.run = t.at[s].run, x.upto = t.at[s].upto,
         x.full = t.at[s].full, x.result = t.at[s].result
  PROVE  Kept(t, u)
<1>1. SessionOK(x) BY SessionFacts DEF SessionOK, TabOK
<1>2. t.bound = s /\ t.paused = t.at[s].conn => x.run = "none" /\ t.next = "none" /\ t.phase = "paused"
  BY SessionFacts DEF TabOK, BoundOK
<1>3. TabOK(u) /\ Calm(t, u) BY <1>1, <1>2, BecomesOK
<1>4. TimerOK(u)
  <2>1. t.bound # NoSession => t.bound \in Sessions BY DEF TabOK, WellFormed, Tab
  <2> QED BY <2>1 DEF TimerOK, Becomes
<1> QED BY <1>3, <1>4 DEF Kept, SameSource, Becomes

\* A session whose run is as it was, and what is to come of it too.
SameRun(y, x) ==
  /\ x.conn = y.conn /\ x.run = y.run /\ x.upto = y.upto /\ x.full = y.full
  /\ x.result = y.result /\ x.flags = y.flags
  /\ y.asking => x.asking
  /\ y.rescan => x.rescan

\* All that t is owed, u is.
SoundToo(t, u) ==
  \A on \in BOOLEAN, seen \in BOOLEAN, f \in SUBSET Conns :
    Sound(t, on, seen, f) => Sound(u, on, seen, f)

LEMMA SameRunSound ==
  ASSUME NEW t \in Tab, NEW u, NEW s \in Sessions, NEW x,
         Becomes(t, u, s, x, t.next, t.debounce, t.notice, t.phase), SameRun(t.at[s], x)
  PROVE  SoundToo(t, u)
<1> SUFFICES ASSUME NEW on \in BOOLEAN, NEW seen \in BOOLEAN, NEW f \in SUBSET Conns,
                    Sound(t, on, seen, f)
             PROVE  Sound(u, on, seen, f)
  BY DEF SoundToo
<1>1. t.bound # NoSession => t.bound \in Sessions BY DEF Tab
<1>2. Awake(u, on, seen) /\ Recalled(u, on)
  BY <1>1 DEF Sound, Awake, Recalled, Becomes, SameRun
<1>3. Spaced(u, on, f) BY <1>1 DEF Sound, Spaced, Becomes, SameRun
<1> QED BY <1>2, <1>3 DEF Sound

LEMMA PausedOK ==
  ASSUME NEW t, TabOK(t), TimerOK(t), t.bound # NoSession, Unused(EndSession(t)) # {},
         NEW on \in BOOLEAN, NEW seen \in BOOLEAN
  PROVE  LET u == Paused(t)
         IN  /\ TabOK(u) /\ TimerOK(u) /\ Calm(t, u)
             /\ u.shown = t.shown /\ u.halted = t.halted /\ u.paused = t.at[t.bound].conn
             /\ u.bound # NoSession /\ Sound(u, on, seen, {})
<1> DEFINE was == t.bound
           c == t.at[was].conn
           q == [t EXCEPT !.paused = c]
           e == EndSession(q)
           now == Follow(e, e.shown)
           u == Paused(t)
<1>1. /\ t \in Tab /\ was \in Sessions /\ t.at[was] # Gone /\ c \in Conns /\ c # NoConn
      /\ BoundOK(t)
  BY BoundFacts, SessionFacts DEF TabOK
<1>2. /\ q \in Tab /\ q.bound = was /\ q.at = t.at /\ q.shown = t.shown /\ q.halted = t.halted
      /\ q.paused = c /\ q.next = t.next /\ q.debounce = t.debounce /\ q.notice = t.notice
  BY <1>1 DEF Tab
<1>3. c = t.shown /\ c \notin t.halted BY <1>1 DEF BoundOK
<1> HIDE DEF q, c
<1>4. WellFormed(q) BY <1>2 DEF TabOK, WellFormed
<1>5. /\ WellFormed(e) /\ Calm(q, e) /\ e.bound = NoSession /\ e.shown = t.shown
      /\ e.halted = t.halted /\ e.paused = c
  BY <1>2, <1>4, EndSessionOK
<1>6. Unused(EndSession(e)) # {}
  <2>1. Unused(EndSession(q)) = Unused(EndSession(t)) BY <1>2, <1>4, UnusedSame DEF TabOK
  <2> QED BY <1>4, <2>1, UnusedTwice
<1>7. u = IF Busy(t, was) THEN [now EXCEPT !.at[now.bound].after = was] ELSE now
  BY <1>2, <1>5 DEF Paused, q, c
<1> HIDE DEF e, u
<1>8. Ready(e) /\ ~Stays(e) /\ Source(e) = c
  BY <1>3, <1>5 DEF Ready, TimerOK, Stays, Source
<1>9. Followed(e, now) /\ Sound(now, on, seen, {})
  <2> DEFINE f == {}
  <2>1. f = {} OBVIOUS
  <2> HIDE DEF f
  <2>2. Followed(e, now) /\ Sound(now, on, seen, f) BY <1>6, <1>8, <2>1, FollowOK
  <2> QED BY <2>1, <2>2
<1> HIDE DEF now
<1>10. /\ TabOK(now) /\ TimerOK(now) /\ now.shown = t.shown /\ now.halted = t.halted
       /\ now.paused = c /\ now.bound # NoSession
  BY <1>1, <1>5, <1>8, <1>9 DEF Followed
<1>11. Calm(t, now)
  <2>1. Calm(t, q) BY <1>2 DEF Calm
  <2>2. Calm(t, e) BY <1>5, <2>1, CalmTrans
  <2> QED BY <1>9, <2>2, CalmTrans DEF Followed
<1>12. CASE u = now BY <1>9, <1>10, <1>11, <1>12 DEF u, c
<1>13. CASE u = [now EXCEPT !.at[now.bound].after = was]
  <2> DEFINE s == now.bound
             x == [now.at[s] EXCEPT !.after = was]
  <2>1. /\ now \in Tab /\ s \in Sessions /\ now.at[s] \in Session /\ now.at[s] # Gone
    BY <1>10, BoundFacts DEF TabOK, WellFormed
  <2>2. Becomes(now, u, s, x, now.next, now.debounce, now.notice, now.phase)
    BY <1>1, <1>13, <2>1, AfterBecomes
  <2>3. /\ x.conn = now.at[s].conn /\ x.run = now.at[s].run /\ x.upto = now.at[s].upto
        /\ x.full = now.at[s].full /\ x.result = now.at[s].result
        /\ SameRun(now.at[s], x)
    BY <2>1 DEF Session, SameRun
  <2> HIDE DEF x, s
  <2>4. Kept(now, u) BY <1>10, <2>1, <2>2, <2>3, SameRunKept
  <2>5. Sound(u, on, seen, {})
    <3>1. SoundToo(now, u) BY <2>1, <2>2, <2>3, SameRunSound
    <3> QED BY <1>9, <3>1 DEF SoundToo
  <2>6. Calm(t, u) BY <1>11, <2>4, CalmTrans DEF Kept
  <2> QED BY <1>10, <2>4, <2>5, <2>6 DEF Kept, SameSource, u, c
<1> QED BY <1>7, <1>12, <1>13

-----------------------------------------------------------------------------
(* The operators on a tab: what a run came to.                               *)

\* What an answer makes of the tab, before its run is ended.
LEMMA AnswerOK ==
  ASSUME NEW t, NEW u, NEW s \in Sessions, TabOK(t), TimerOK(t), t.bound = s,
         t.at[s].run = "answer", NEW x, NEW n, NEW p,
         Becomes(t, u, s, x, n, t.debounce, t.notice, p),
         x.conn = t.at[s].conn, x.upto = t.at[s].upto, x.full = t.at[s].full,
         \/ x.run = "answer" /\ x.result = t.at[s].result
         \/ x.run \in {"name", "release"}
  PROVE  TabOK(u) /\ Calm(t, u) /\ SameSource(t, u) /\ u.at[s] # Gone /\ u.bound = s
<1>1. t.at[s] # Gone BY SessionFacts, SchedulerAssumption DEF TabOK, WellFormed
<1>2. SessionOK(t.at[s]) /\ BoundOK(t) /\ s # NoSession
  BY <1>1, SessionFacts, SchedulerAssumption DEF TabOK
<1>3. SessionOK(x) BY <1>2 DEF SessionOK
<1>4. t.paused # t.at[s].conn BY <1>2 DEF BoundOK
<1>5. x.run \notin Started \/ /\ x.run = t.at[s].run
                              /\ x.upto = t.at[s].upto /\ x.full = t.at[s].full
  BY DEF Started, AtNetwork
<1>6. TabOK(u) /\ Calm(t, u) /\ u.at[s] # Gone BY <1>1, <1>3, <1>4, <1>5, BecomesOK
<1> QED BY <1>6 DEF SameSource, Becomes

LEMMA OfflineBecomes ==
  ASSUME NEW t \in Tab, NEW s \in Sessions, t.at[s] \in Session, NEW p \in Phases
  PROVE  Becomes(t, [t EXCEPT !.phase = p], s, t.at[s], t.next, t.debounce, t.notice, p)
<1> DEFINE x == t.at[s]
           u == [t EXCEPT !.phase = p]
<1>1. u.at = [t.at EXCEPT ![s] = x] BY DEF Tab
<1>2. u = [t EXCEPT !.next = t.next, !.debounce = t.debounce, !.notice = t.notice,
                    !.phase = p, !.at = u.at]
  BY DEF Tab
<1> HIDE DEF u
<1>3. u = With(t, s, x, t.next, t.debounce, t.notice, p) BY <1>1, <1>2 DEF With
<1>4. Becomes(t, u, s, x, t.next, t.debounce, t.notice, p)
  BY <1>3, WithBecomes, TimersIn
<1> QED BY <1>4 DEF u

LEMMA AgainBecomes ==
  ASSUME NEW t \in Tab, NEW s \in Sessions, t.at[s] \in Session
  PROVE  LET x == [t.at[s] EXCEPT !.flags = @ \cup {"again"}]
         IN  Becomes(t, [t EXCEPT !.at[s].flags = @ \cup {"again"}], s, x,
                     t.next, t.debounce, t.notice, t.phase)
<1> DEFINE x == [t.at[s] EXCEPT !.flags = @ \cup {"again"}]
           u == [t EXCEPT !.at[s].flags = @ \cup {"again"}]
<1>1. x \in Session BY DEF Session
<1>2. u.at = [t.at EXCEPT ![s] = x] BY DEF Tab, Session
<1>3. u = [t EXCEPT !.next = t.next, !.debounce = t.debounce, !.notice = t.notice,
                    !.phase = t.phase, !.at = u.at]
  BY DEF Tab
<1> HIDE DEF u, x
<1>4. u = With(t, s, x, t.next, t.debounce, t.notice, t.phase) BY <1>2, <1>3 DEF With
<1>5. Becomes(t, u, s, x, t.next, t.debounce, t.notice, t.phase)
  BY <1>1, <1>4, WithBecomes, TimersIn
<1> QED BY <1>5 DEF u, x

LEMMA FailedBecomes ==
  ASSUME NEW t \in Tab, NEW s \in Sessions, t.at[s] \in Session, online
  PROVE  LET x == [t.at[s] EXCEPT !.flags = @ \cup {"backingOff"}]
         IN  Becomes(t, Failed(t, s), s, x, "retry", t.debounce, t.notice, "retrying")
<1> DEFINE x == [t.at[s] EXCEPT !.flags = @ \cup {"backingOff"}]
           u == [t EXCEPT !.phase = "retrying", !.next = "retry",
                          !.at[s].flags = @ \cup {"backingOff"}]
<1>1. x \in Session BY DEF Session
<1>2. u.at = [t.at EXCEPT ![s] = x] BY DEF Tab, Session
<1>3. u = [t EXCEPT !.next = "retry", !.debounce = t.debounce, !.notice = t.notice,
                    !.phase = "retrying", !.at = u.at]
  BY DEF Tab
<1>0. Failed(t, s) = u BY DEF Failed
<1> HIDE DEF u, x
<1>4. u = With(t, s, x, "retry", t.debounce, t.notice, "retrying") BY <1>2, <1>3 DEF With
<1>5. Becomes(t, u, s, x, "retry", t.debounce, t.notice, "retrying")
  BY <1>1, <1>4, WithBecomes, TimersIn, Constants
<1> QED BY <1>0, <1>5 DEF x

\* Synced, before its run is ended.
SyncedTab(t, s) == [t EXCEPT !.at[s].blocked = "no", !.at[s].stuck = FALSE,
                             !.phase = "idle", !.next = "interval"]

LEMMA SyncedBecomes ==
  ASSUME NEW t \in Tab, NEW s \in Sessions, t.at[s] \in Session
  PROVE  LET x == [t.at[s] EXCEPT !.blocked = "no", !.stuck = FALSE]
         IN  Becomes(t, SyncedTab(t, s), s, x, "interval", t.debounce, t.notice, "idle")
<1> DEFINE x == [t.at[s] EXCEPT !.blocked = "no", !.stuck = FALSE]
           u == SyncedTab(t, s)
<1>1. x \in Session BY DEF Session
<1>2. u.at = [t.at EXCEPT ![s] = x] BY DEF SyncedTab, Tab, Session
<1>3. u = [t EXCEPT !.next = "interval", !.debounce = t.debounce, !.notice = t.notice,
                    !.phase = "idle", !.at = u.at]
  BY DEF SyncedTab, Tab
<1> HIDE DEF u, x
<1>4. u = With(t, s, x, "interval", t.debounce, t.notice, "idle") BY <1>2, <1>3 DEF With
<1>5. Becomes(t, u, s, x, "interval", t.debounce, t.notice, "idle")
  BY <1>1, <1>4, WithBecomes, TimersIn, Constants
<1> QED BY <1>5 DEF u, x

LEMMA BlockedBecomes ==
  ASSUME NEW t \in Tab, NEW s \in Sessions, t.at[s] \in Session
  PROVE  \E b \in {"no", "since"}, r \in {"release", "name"} :
           LET x == [t.at[s] EXCEPT !.blocked = b, !.run = r]
           IN  Becomes(t, FoundBlocked(t, s), s, x, t.next, t.debounce, t.notice, t.phase)
<1>1. ASSUME NEW b \in {"no", "since"}, NEW r \in {"release", "name"}
      PROVE  LET x == [t.at[s] EXCEPT !.blocked = b, !.run = r]
             IN  Becomes(t, [t EXCEPT !.at[s].blocked = b, !.at[s].run = r], s, x,
                         t.next, t.debounce, t.notice, t.phase)
  <2> DEFINE x == [t.at[s] EXCEPT !.blocked = b, !.run = r]
             u == [t EXCEPT !.at[s].blocked = b, !.at[s].run = r]
  <2>1. x \in Session BY DEF Session
  <2>2. u.at = [t.at EXCEPT ![s] = x] BY DEF Tab, Session
  <2>3. u = [t EXCEPT !.next = t.next, !.debounce = t.debounce, !.notice = t.notice,
                      !.phase = t.phase, !.at = u.at]
    BY DEF Tab
  <2> HIDE DEF u, x
  <2>4. u = With(t, s, x, t.next, t.debounce, t.notice, t.phase) BY <2>2, <2>3 DEF With
  <2>5. Becomes(t, u, s, x, t.next, t.debounce, t.notice, t.phase)
    BY <2>1, <2>4, WithBecomes, TimersIn
  <2> QED BY <2>5 DEF u, x
<1>2. \/ FoundBlocked(t, s) = [t EXCEPT !.at[s].blocked = "no", !.at[s].run = "release"]
      \/ FoundBlocked(t, s) = [t EXCEPT !.at[s].blocked = "since", !.at[s].run = "name"]
  BY DEF FoundBlocked
<1> QED BY <1>1, <1>2

\* What is owed of the failed pushes when a run of s ends.
Repaid(t, s, f) == IF "again" \in t.at[s].flags THEN f \ {t.at[s].conn} ELSE f

LEMMA SettleOK ==
  ASSUME NEW t, NEW s \in Sessions, TabOK(t), TimerOK(t), t.bound = s,
         t.at[s].run = "answer", online \in BOOLEAN, NEW seen \in BOOLEAN, NEW f,
         Sound(t, online, seen, f)
  PROVE  Kept(t, Settle(t, s)) /\ Sound(Settle(t, s), online, seen, Repaid(t, s, f))
<1> DEFINE x == t.at[s]
           g == Repaid(t, s, f)
           v == Settle(t, s)
<1>1. /\ t \in Tab /\ x \in Session /\ x # Gone /\ SessionOK(x) /\ s # NoSession
      /\ x.result \in Results /\ x.result # "none"
  <2>1. x # Gone BY SessionFacts, SchedulerAssumption DEF TabOK, WellFormed
  <2> QED BY <2>1, SessionFacts DEF TabOK, SessionOK, Session
<1>2. t.next = "none" BY <1>1 DEF TimerOK
<1>3. f = {} \/ (f = {x.conn} /\ (x.result = "retry" \/ (~online /\ x.result = "offline")))
  BY DEF Sound, Spaced
<1>4. g = {} \/ (g = {x.conn} /\ "again" \notin x.flags /\ f = g)
  BY <1>3 DEF Repaid
<1>5. x.result = "offline" => ~online \/ x.asking \/ "again" \in x.flags
  BY <1>1 DEF Sound, Recalled
\* Whatever the answer makes of the tab, the run is then ended.
<1>6. ASSUME NEW u, NEW y, NEW n, NEW p, Becomes(t, u, s, y, n, t.debounce, t.notice, p),
             y.conn = x.conn, y.upto = x.upto, y.full = x.full, y.run = x.run,
             y.result = x.result,
             Follows(u, s, online, seen), Backs(u, s, online, g)
      PROVE  Kept(t, Finish(u, s)) /\ Sound(Finish(u, s), online, seen, g)
  <2>1. TabOK(u) /\ Calm(t, u) /\ SameSource(t, u) /\ u.at[s] # Gone /\ u.bound = s
    BY <1>6, AnswerOK
  <2>2. u.at[s].run \notin AtNetwork \cup {"none"} BY <1>6 DEF Becomes, AtNetwork
  <2>3. Kept(u, Finish(u, s)) BY <2>1, <2>2, FinishKept
  <2>4. Sound(Finish(u, s), online, seen, g) BY <1>6, <2>1, <2>2, FinishSound
  <2>5. Calm(t, Finish(u, s)) BY <2>1, <2>3, CalmTrans DEF Kept
  <2> QED BY <2>1, <2>3, <2>4, <2>5 DEF Kept, SameSource
<1>7. ASSUME NEW p \in Phases, v = Finish([t EXCEPT !.phase = p], s), g = {} \/ ~online,
             \/ p = "refused"
             \/ p = "offline" /\ (~online \/ x.asking \/ "again" \in x.flags)
      PROVE  Kept(t, v) /\ Sound(v, online, seen, g)
  <2> DEFINE u == [t EXCEPT !.phase = p]
  <2>1. Becomes(t, u, s, x, t.next, t.debounce, t.notice, p) BY <1>1, <1>7, OfflineBecomes
  <2> HIDE DEF u
  <2>2. Follows(u, s, online, seen) BY <1>7, <2>1 DEF Becomes, Follows
  <2>3. Backs(u, s, online, g) BY <1>4, <1>7, <2>1 DEF Becomes, Backs
  <2>4. Kept(t, Finish(u, s)) /\ Sound(Finish(u, s), online, seen, g)
    BY <1>6, <2>1, <2>2, <2>3
  <2> QED BY <1>7, <2>4 DEF u
<1>8. CASE x.result = "offline"
  <2>1. v = Finish([t EXCEPT !.phase = "offline"], s) BY <1>8 DEF Settle
  <2>2. g = {} \/ ~online BY <1>3, <1>4, <1>8
  <2> QED BY <1>5, <1>7, <1>8, <2>1, <2>2, Constants
<1>9. CASE x.result = "refused"
  <2>1. v = Finish([t EXCEPT !.phase = "refused"], s) BY <1>9 DEF Settle
  <2>2. g = {} BY <1>3, <1>4, <1>9
  <2> QED BY <1>7, <2>1, <2>2, Constants
<1>10. CASE x.result = "superseded"
  <2> DEFINE u == [t EXCEPT !.at[s].flags = @ \cup {"again"}]
             y == [x EXCEPT !.flags = @ \cup {"again"}]
  <2>1. v = Finish(u, s) BY <1>10 DEF Settle
  <2>2. Becomes(t, u, s, y, t.next, t.debounce, t.notice, t.phase) BY <1>1, AgainBecomes
  <2>3. /\ y.conn = x.conn /\ y.upto = x.upto /\ y.full = x.full /\ y.run = x.run
        /\ y.result = x.result /\ "again" \in y.flags
    BY <1>1 DEF Session
  <2> HIDE DEF u, y
  <2>4. Follows(u, s, online, seen) BY <2>2, <2>3 DEF Becomes, Follows
  <2>5. Backs(u, s, online, g) BY <1>3, <1>4, <1>10 DEF Backs
  <2> QED BY <1>6, <2>1, <2>2, <2>3, <2>4, <2>5
<1>11. CASE x.result = "retry" /\ ~online
  <2>1. v = Finish([t EXCEPT !.phase = "offline"], s) BY <1>11 DEF Settle, Failed
  <2> QED BY <1>7, <1>11, <2>1, Constants
<1>12. CASE x.result = "retry" /\ online
  <2> DEFINE u == Failed(t, s)
             y == [x EXCEPT !.flags = @ \cup {"backingOff"}]
  <2>1. v = Finish(u, s) BY <1>12 DEF Settle
  <2>2. Becomes(t, u, s, y, "retry", t.debounce, t.notice, "retrying")
    BY <1>1, <1>12, FailedBecomes
  <2>3. /\ y.conn = x.conn /\ y.upto = x.upto /\ y.full = x.full /\ y.run = x.run
        /\ y.result = x.result /\ y.flags = x.flags \cup {"backingOff"}
    BY <1>1 DEF Session
  <2> HIDE DEF u, y
  <2>4. Follows(u, s, online, seen) BY <2>2 DEF Becomes, Follows
  <2>5. Backs(u, s, online, g) BY <1>4, <2>2, <2>3 DEF Backs, Becomes
  <2> QED BY <1>6, <2>1, <2>2, <2>3, <2>4, <2>5
<1>13. CASE x.result = "ok"
  <2> DEFINE u == SyncedTab(t, s)
             y == [x EXCEPT !.blocked = "no", !.stuck = FALSE]
  <2>1. v = Finish(u, s) BY <1>13 DEF Settle, Synced, SyncedTab
  <2>2. Becomes(t, u, s, y, "interval", t.debounce, t.notice, "idle") BY <1>1, SyncedBecomes
  <2>3. /\ y.conn = x.conn /\ y.upto = x.upto /\ y.full = x.full /\ y.run = x.run
        /\ y.result = x.result
    BY <1>1 DEF Session
  <2> HIDE DEF u, y
  <2>4. Follows(u, s, online, seen) BY <2>2 DEF Becomes, Follows
  <2>5. Backs(u, s, online, g) BY <1>3, <1>4, <1>13 DEF Backs
  <2> QED BY <1>6, <2>1, <2>2, <2>3, <2>4, <2>5
<1>14. CASE x.result = "blocked"
  <2>1. v = FoundBlocked(t, s) BY <1>14 DEF Settle
  <2>2. PICK b \in {"no", "since"}, r \in {"release", "name"} :
          LET y == [x EXCEPT !.blocked = b, !.run = r]
          IN  Becomes(t, FoundBlocked(t, s), s, y, t.next, t.debounce, t.notice, t.phase)
    BY <1>1, BlockedBecomes
  <2> DEFINE y == [x EXCEPT !.blocked = b, !.run = r]
  <2>3. /\ y.conn = x.conn /\ y.upto = x.upto /\ y.full = x.full /\ y.run = r
    BY <1>1 DEF Session
  <2>4. Becomes(t, v, s, y, t.next, t.debounce, t.notice, t.phase) BY <2>1, <2>2
  <2> HIDE DEF y, v
  <2>5. TabOK(v) /\ Calm(t, v) /\ SameSource(t, v) BY <2>3, <2>4, AnswerOK
  <2>6. Kept(t, v) BY <1>2, <2>4, <2>5 DEF Kept, TimerOK, Becomes
  <2>7. Awake(v, online, seen) /\ Recalled(v, online)
    BY <2>3, <2>4 DEF Awake, Recalled, Becomes
  <2>8. Spaced(v, online, g) BY <1>3, <1>4, <1>14 DEF Spaced
  <2> QED BY <2>6, <2>7, <2>8 DEF Sound, v
<1> QED BY <1>1, <1>8, <1>9, <1>10, <1>11, <1>12, <1>13, <1>14 DEF Results

-----------------------------------------------------------------------------
(* The steps of the tab that leave the queue, the cursor and the lock alone. *)

LEMMA IInvFacts ==
  ASSUME IInv
  PROVE  /\ TypeOK /\ TabOK(tab) /\ TimerOK(tab) /\ Sound(tab, online, visible, spent)
         /\ WellFormed(tab) /\ tab \in Tab /\ online \in BOOLEAN /\ visible \in BOOLEAN
         /\ play \in Play /\ quiet \in [Conns -> Pauses] /\ spent \subseteq Conns
         /\ tries \in [Conns -> 0..MaxAttempts]
BY DEF IInv, Sound, TypeOK, TabOK

\* A step that starts no run, and may owe a source a re-scan no run is at.
LEMMA CalmStep ==
  ASSUME IInv, TabOK(tab'), TimerOK(tab'), Calm(tab, tab'),
         Sound(tab', online', visible', spent'),
         UNCHANGED <<live, row, made, sent, lock>>, cursor' \in [Conns -> BOOLEAN],
         owed' \subseteq Conns, OwedOK', \A c \in owed' \ owed : lock[c] = "free",
         tries' \in [Conns -> 0..MaxAttempts], online' \in BOOLEAN, visible' \in BOOLEAN,
         play' \in Play, quiet' \in [Conns -> Pauses], spent' \subseteq spent
  PROVE  IInv'
<1>1. TypeOK'
  <2>1. tab' \in Tab BY DEF TabOK, WellFormed
  <2> QED BY <2>1 DEF TypeOK, IInv
<1>2. RunsOK'
  <2> SUFFICES ASSUME NEW s \in Sessions, tab'.at[s] # Gone PROVE RunOK(s)'
    BY DEF RunsOK
  <2>1. tab'.at[s] \in Session /\ SessionOK(tab'.at[s]) /\ tab'.at[s].conn \in Conns
    BY SessionFacts DEF TabOK
  <2>2. CASE tab'.at[s].run \notin Started
    <3>1. tab'.at[s].upto = 0 BY <2>1, <2>2 DEF SessionOK, Started, AtNetwork
    <3>2. 0 <= made[tab'.at[s].conn] BY <2>1, SchedulerAssumption DEF IInv, TypeOK
    <3> QED BY <2>2, <3>1, <3>2 DEF RunOK, Started, AtNetwork
  <2>3. CASE tab'.at[s].run \in Started
    <3>1. /\ tab.at[s] # Gone
          /\ tab'.at[s].conn = tab.at[s].conn /\ tab'.at[s].run = tab.at[s].run
          /\ tab'.at[s].upto = tab.at[s].upto /\ tab'.at[s].full = tab.at[s].full
      BY <2>3 DEF Calm
    <3>2. RunOK(s) /\ s # "free" BY <3>1, SchedulerAssumption DEF IInv, RunsOK
    <3>3. tab.at[s].run = "pull" => lock[tab.at[s].conn] # "free"
      BY <3>2 DEF RunOK, AtNetwork
    <3>4. tab.at[s].run = "pull" /\ tab.at[s].conn \in owed' => tab.at[s].conn \in owed
      BY <3>3
    <3> QED BY <3>1, <3>2, <3>4 DEF RunOK
  <2> QED BY <2>2, <2>3
<1>3. OwedOK' OBVIOUS
<1>4. (spent \subseteq live)' BY DEF IInv
<1>5. TabOK(tab)' /\ TimerOK(tab)' OBVIOUS
<1>6. Awake(tab, online, visible)' /\ Recalled(tab, online)' /\ Spaced(tab, online, spent)'
  BY DEF Sound
<1> QED BY <1>1, <1>2, <1>3, <1>4, <1>5, <1>6 DEF IInv

LEMMA TabStep ==
  ASSUME IInv, TabOK(tab'), TimerOK(tab'), Calm(tab, tab'),
         Sound(tab', online', visible', spent'),
         UNCHANGED <<live, row, made, sent, cursor, lock, owed>>,
         tries' \in [Conns -> 0..MaxAttempts], online' \in BOOLEAN, visible' \in BOOLEAN,
         play' \in Play, quiet' \in [Conns -> Pauses], spent' \subseteq spent
  PROVE  IInv'
<1>1. OwedOK' /\ cursor' \in [Conns -> BOOLEAN] /\ owed' \subseteq Conns
  BY DEF OwedOK, IInv, TypeOK
<1>2. \A c \in owed' \ owed : lock[c] = "free" OBVIOUS
<1> QED BY <1>1, <1>2, CalmStep

LEMMA TriggerStep ==
  ASSUME IInv, NEW t, Trigger(t), TabOK(t), TimerOK(t), Calm(tab, t),
         Sound(t, online, visible, spent)
  PROVE  IInv'
<1>1. /\ tab' = t /\ UNCHANGED <<live, row, made, sent, cursor, lock, owed, tries>>
      /\ UNCHANGED <<online, visible, play, quiet, spent>>
  BY DEF Trigger, db, env, window, hist
<1> QED BY <1>1, IInvFacts, TabStep

\* The debounce and the notice run no run.
Retimed(t, u) ==
  /\ u \in Tab /\ u.bound = t.bound /\ u.at = t.at /\ u.shown = t.shown
  /\ u.halted = t.halted /\ u.paused = t.paused /\ u.next = t.next /\ u.phase = t.phase

LEMMA RetimedSelf == ASSUME NEW t \in Tab PROVE Retimed(t, t)
BY DEF Retimed

LEMMA RetimedKept ==
  ASSUME NEW t, TabOK(t), TimerOK(t), t.bound # NoSession, NEW u, Retimed(t, u)
  PROVE  Kept(t, u)
<1>1. TabOK(u) BY DEF Retimed, TabOK, WellFormed, BoundOK
<1>2. Calm(t, u) BY DEF Retimed, Calm
<1>3. TimerOK(u) BY DEF Retimed, TimerOK
<1> QED BY <1>1, <1>2, <1>3 DEF Kept, SameSource, Retimed

LEMMA RetimedSound ==
  ASSUME NEW t, NEW u, Retimed(t, u), NEW on \in BOOLEAN, NEW seen \in BOOLEAN, NEW f,
         Sound(t, on, seen, f)
  PROVE  Sound(u, on, seen, f)
<1>1. Awake(u, on, seen) /\ Recalled(u, on) BY DEF Retimed, Sound, Awake, Recalled
<1>2. Spaced(u, on, f) BY DEF Retimed, Sound, Spaced
<1> QED BY <1>1, <1>2 DEF Sound

\* A timer that fires is a timer no more.
LEMMA FiredOK ==
  ASSUME NEW t, TabOK(t), t.next # "none", NEW u, u = [t EXCEPT !.next = "none"]
  PROVE  /\ Kept(t, u) /\ u.at = t.at /\ u.phase = t.phase /\ u.next = "none"
         /\ t.bound \in Sessions /\ t.at[t.bound] # Gone
<1>0. t \in Tab /\ t.bound # NoSession BY DEF TabOK, WellFormed
<1>1. u \in Tab BY <1>0 DEF Tab
<1>2. /\ u.bound = t.bound /\ u.at = t.at /\ u.shown = t.shown /\ u.halted = t.halted
      /\ u.paused = t.paused /\ u.next = "none" /\ u.phase = t.phase
      /\ u.debounce = t.debounce /\ u.notice = t.notice
  BY <1>0 DEF Tab
<1>3. TabOK(u) BY <1>0, <1>1, <1>2 DEF TabOK, WellFormed, BoundOK
<1>4. Calm(t, u) BY <1>2 DEF Calm
<1>5. TimerOK(u) BY <1>2 DEF TimerOK
<1> QED BY <1>0, <1>2, <1>3, <1>4, <1>5, BoundFacts DEF Kept, SameSource, TabOK

LEMMA RetryFiresStep == ASSUME IInv, RetryFires PROVE IInv'
<1> DEFINE s == tab.bound
           t == [tab EXCEPT !.next = "none"]
           u == Run(t, s, "again")
<1>1. /\ TabOK(tab) /\ TimerOK(tab) /\ Sound(tab, online, visible, spent)
      /\ tab.next = "retry"
  BY IInvFacts DEF RetryFires
<1>2. /\ Kept(tab, t) /\ t.at = tab.at /\ s \in Sessions /\ tab.at[s] # Gone
  BY <1>1, FiredOK
<1>3. tab' = u /\ spent' = spent \ {tab.at[s].conn} BY DEF RetryFires, Mine
<1> HIDE DEF t, u
<1>4. TabOK(t) /\ TimerOK(t) /\ t.bound = s /\ t.at[s] # Gone
  BY <1>2 DEF Kept, SameSource
<1>5. Kept(t, u) BY <1>2, <1>4, RunKept DEF u
<1>6. Awake(u, online, visible) BY <1>2, <1>4, IInvFacts, RunWakes DEF u
<1>7. Recalled(u, online) BY <1>2, <1>4, IInvFacts, RunRecalled DEF u
<1>8. spent' = {} BY <1>1, <1>3 DEF Sound, Spaced
<1>9. Sound(u, online, visible, spent') BY <1>6, <1>7, <1>8 DEF Sound, Spaced
<1>10. Calm(tab, u) BY <1>2, <1>5, CalmTrans DEF Kept
<1>11. /\ UNCHANGED <<live, row, made, sent, cursor, lock, owed, tries>>
       /\ UNCHANGED <<online, visible, play, quiet>> /\ spent' \subseteq spent
  BY <1>3 DEF RetryFires, db, env, window
<1> QED BY <1>3, <1>5, <1>9, <1>10, <1>11, IInvFacts, TabStep DEF Kept

LEMMA IntervalFiresStep == ASSUME IInv, IntervalFires PROVE IInv'
<1> DEFINE s == tab.bound
           t == [tab EXCEPT !.next = "none"]
           u == Run(t, s, "again")
<1>1. /\ TabOK(tab) /\ TimerOK(tab) /\ Sound(tab, online, visible, spent)
      /\ tab.next = "interval" /\ online \in BOOLEAN /\ visible \in BOOLEAN
  BY IInvFacts DEF IntervalFires
<1>2. /\ Kept(tab, t) /\ t.at = tab.at /\ t.phase = tab.phase /\ t.next = "none"
      /\ s \in Sessions /\ tab.at[s] # Gone
  BY <1>1, FiredOK
<1>3. Trigger(IF visible THEN u ELSE t) BY DEF IntervalFires
<1> HIDE DEF t, u
<1>4. TabOK(t) /\ TimerOK(t) /\ t.bound = s /\ t.at[s] # Gone
  BY <1>2 DEF Kept, SameSource
<1>5. Spaced(t, online, spent)
  BY <1>1, <1>2 DEF Sound, Spaced, Kept, SameSource
<1>6. Recalled(t, online) BY <1>1, <1>2 DEF Sound, Recalled, Kept, SameSource
<1>7. CASE visible
  <2>1. Kept(t, u) BY <1>2, <1>4, RunKept DEF u
  <2>2. Awake(u, online, visible) BY <1>1, <1>2, <1>4, RunWakes DEF u
  <2>3. Recalled(u, online) BY <1>1, <1>2, <1>4, RunRecalled DEF u
  <2>4. t.at[s].run = "none" => spent = {} \/ ~online
    BY <1>2, <1>4, <1>5 DEF Spaced
  <2>5. Spaced(u, online, spent) BY <1>1, <1>2, <1>4, <1>5, <2>4, RunSpaced DEF u
  <2>6. Calm(tab, u) BY <1>2, <2>1, CalmTrans DEF Kept
  <2> QED BY <1>3, <1>7, <2>1, <2>2, <2>3, <2>5, <2>6, TriggerStep DEF Kept, Sound
<1>8. CASE ~visible
  <2>1. Awake(t, online, visible) BY <1>8 DEF Awake
  <2> QED BY <1>2, <1>3, <1>5, <1>6, <1>8, <2>1, TriggerStep DEF Kept, Sound
<1> QED BY <1>7, <1>8

\* A nudge of the session that is bound, and a change of the debounce or the notice
\* before it or after.
LEMMA NudgedStep ==
  ASSUME IInv, tab.bound # NoSession, NEW t, Retimed(tab, t),
         NEW u, u = Nudge(t, tab.bound), NEW v, Retimed(u, v)
  PROVE  /\ TabOK(t) /\ TimerOK(t) /\ Calm(tab, t) /\ Sound(t, online, visible, spent)
         /\ TabOK(v) /\ TimerOK(v) /\ Calm(tab, v) /\ Sound(v, online, visible, spent)
<1> DEFINE s == tab.bound
<1>1. /\ TabOK(tab) /\ TimerOK(tab) /\ Sound(tab, online, visible, spent)
      /\ online \in BOOLEAN /\ visible \in BOOLEAN
  BY IInvFacts
<1>2. s \in Sessions /\ tab.at[s] # Gone BY <1>1, BoundFacts DEF TabOK
<1>3. Kept(tab, t) /\ Sound(t, online, visible, spent) BY <1>1, RetimedKept, RetimedSound
<1>4. t.bound = s /\ t.at[s] # Gone BY <1>2 DEF Retimed
<1>5. Kept(t, u) BY <1>2, <1>3, <1>4, NudgeKept DEF Kept
<1>6. Sound(u, online, visible, spent)
  BY <1>1, <1>2, <1>3, <1>4, NudgeSound DEF Kept, Sound
<1>7. Kept(u, v) /\ Sound(v, online, visible, spent)
  <2>1. TabOK(u) /\ TimerOK(u) /\ u.bound # NoSession
    BY <1>4, <1>5 DEF Kept, SameSource
  <2> QED BY <1>1, <1>6, <2>1, RetimedKept, RetimedSound
<1>8. Calm(tab, v)
  <2>1. Calm(tab, u) BY <1>3, <1>5, CalmTrans DEF Kept
  <2> QED BY <1>7, <2>1, CalmTrans DEF Kept
<1> QED BY <1>3, <1>7, <1>8 DEF Kept

LEMMA NudgeStays ==
  ASSUME IInv, tab.bound # NoSession, NEW t, Retimed(tab, t)
  PROVE  LET u == Nudge(t, tab.bound)
         IN  /\ TabOK(t) /\ TimerOK(t) /\ Calm(tab, t) /\ Sound(t, online, visible, spent)
             /\ TabOK(u) /\ TimerOK(u) /\ Calm(tab, u) /\ Sound(u, online, visible, spent)
<1> DEFINE u == Nudge(t, tab.bound)
<1>1. TabOK(t) /\ TimerOK(t) /\ t.bound = tab.bound
  BY IInvFacts, RetimedKept DEF Kept, Retimed
<1>2. tab.bound \in Sessions /\ t.at[tab.bound] # Gone
  BY <1>1, BoundFacts DEF TabOK
<1>3. u \in Tab BY <1>1, <1>2, NudgeKept DEF Kept, TabOK, WellFormed
<1>4. Retimed(u, u) BY <1>3, RetimedSelf
<1> QED BY <1>4, NudgedStep

LEMMA DebounceFiresStep == ASSUME IInv, DebounceFires PROVE IInv'
<1> DEFINE t == [tab EXCEPT !.debounce = FALSE]
           u == Nudge(t, tab.bound)
<1>1. tab \in Tab /\ tab.bound # NoSession BY IInvFacts DEF DebounceFires, WellFormed
<1>2. Trigger(u) BY DEF DebounceFires
<1>3. Retimed(tab, t) BY <1>1 DEF Tab, Retimed
<1> HIDE DEF t
<1>4. TabOK(u) /\ TimerOK(u) /\ Calm(tab, u) /\ Sound(u, online, visible, spent)
  BY <1>1, <1>3, NudgeStays
<1> QED BY <1>2, <1>4, TriggerStep

LEMMA FocusStep == ASSUME IInv, Focus PROVE IInv'
<1> DEFINE u == Nudge(tab, tab.bound)
<1>1. tab \in Tab /\ tab.bound # NoSession BY IInvFacts DEF Focus, Bound
<1>2. Trigger(u) BY DEF Focus
<1>3. TabOK(u) /\ TimerOK(u) /\ Calm(tab, u) /\ Sound(u, online, visible, spent)
  BY <1>1, NudgeStays, RetimedSelf
<1> QED BY <1>2, <1>3, TriggerStep

LEMMA NoticedStep == ASSUME IInv, Noticed PROVE IInv'
<1> DEFINE u == Nudge(tab, tab.bound)
           v == [u EXCEPT !.notice = 1]
<1>1. tab \in Tab /\ tab.bound # NoSession BY IInvFacts DEF Noticed, Bound
<1>2. Trigger(v) BY DEF Noticed
<1>3. Retimed(tab, tab) BY <1>1, RetimedSelf
<1>4. u \in Tab BY <1>1, <1>3, NudgeStays DEF TabOK, WellFormed
<1>5. u = Nudge(tab, tab.bound) OBVIOUS
<1> HIDE DEF u
<1>6. Retimed(u, v) BY <1>4 DEF Tab, Retimed
<1> HIDE DEF v
<1>7. TabOK(v) /\ TimerOK(v) /\ Calm(tab, v) /\ Sound(v, online, visible, spent)
  BY <1>1, <1>3, <1>5, <1>6, NudgedStep
<1> QED BY <1>2, <1>7, TriggerStep

LEMMA LookAgainStep == ASSUME IInv, LookAgain PROVE IInv'
<1> DEFINE k == IF tab.notice = 1 THEN 2 ELSE 0
           t == [tab EXCEPT !.notice = k]
           u == Nudge(t, tab.bound)
<1>1. tab \in Tab /\ tab.bound # NoSession
  <2>1. tab.notice # 0 BY IInvFacts DEF LookAgain, Tab
  <2> QED BY <2>1, IInvFacts DEF WellFormed
<1>2. k \in 0..2 OBVIOUS
<1>3. Trigger(IF visible THEN u ELSE t) BY DEF LookAgain
<1> HIDE DEF k
<1>4. Retimed(tab, t) BY <1>1, <1>2 DEF Tab, Retimed
<1> HIDE DEF t
<1>5. /\ TabOK(t) /\ TimerOK(t) /\ Calm(tab, t) /\ Sound(t, online, visible, spent)
      /\ TabOK(u) /\ TimerOK(u) /\ Calm(tab, u) /\ Sound(u, online, visible, spent)
  BY <1>1, <1>4, NudgeStays
<1>6. CASE visible BY <1>3, <1>5, <1>6, TriggerStep
<1>7. CASE ~visible BY <1>3, <1>5, <1>7, TriggerStep
<1> QED BY <1>6, <1>7

-----------------------------------------------------------------------------
(* The steps of one session that run no run.                                 *)

LEMMA SetBecomes ==
  ASSUME NEW t \in Tab, NEW s \in Sessions, NEW x \in Session, NEW u,
         u.at = [t.at EXCEPT ![s] = x], u = [t EXCEPT !.at = u.at]
  PROVE  Becomes(t, u, s, x, t.next, t.debounce, t.notice, t.phase)
<1>1. u = [t EXCEPT !.next = t.next, !.debounce = t.debounce, !.notice = t.notice,
                    !.phase = t.phase, !.at = u.at]
  BY DEF Tab
<1>2. u = With(t, s, x, t.next, t.debounce, t.notice, t.phase) BY <1>1 DEF With
<1> QED BY <1>2, WithBecomes, TimersIn

LEMMA SameRunSet ==
  ASSUME IInv, NEW s \in Sessions, tab.at[s] # Gone, NEW x \in Session,
         SameRun(tab.at[s], x), NEW u,
         u.at = [tab.at EXCEPT ![s] = x], u = [tab EXCEPT !.at = u.at]
  PROVE  Kept(tab, u) /\ Sound(u, online, visible, spent)
<1>1. /\ tab \in Tab /\ TabOK(tab) /\ TimerOK(tab) /\ Sound(tab, online, visible, spent)
      /\ online \in BOOLEAN /\ visible \in BOOLEAN /\ spent \in SUBSET Conns
  BY IInvFacts
<1>2. Becomes(tab, u, s, x, tab.next, tab.debounce, tab.notice, tab.phase)
  BY <1>1, SetBecomes
<1>3. Kept(tab, u) BY <1>1, <1>2, SameRunKept DEF SameRun
<1>4. SoundToo(tab, u) BY <1>1, <1>2, SameRunSound
<1> QED BY <1>1, <1>3, <1>4 DEF SoundToo

LEMMA EditHeardStep == ASSUME IInv, EditHeard PROVE IInv'
<1> DEFINE s == tab.bound
           seen == tab.at[s].heard
           highest == IF Pending(tab.at[s].conn) THEN made[tab.at[s].conn] ELSE 0
           h == IF seen = Unheard \/ highest > seen THEN highest ELSE seen
           x == [tab.at[s] EXCEPT !.heard = h]
           t == [tab EXCEPT !.at[s].heard = h]
           v == [t EXCEPT !.debounce = TRUE]
<1>1. /\ tab \in Tab /\ s \in Sessions /\ tab.at[s] # Gone /\ tab.at[s] \in Session
      /\ TabOK(tab) /\ TimerOK(tab) /\ s # NoSession
  BY IInvFacts, BoundFacts DEF EditHeard, Bound
<1>2. Trigger(IF seen = Unheard THEN t ELSE v) BY DEF EditHeard, Mine
<1>3. h \in 0..Unheard
  <2>1. seen \in 0..Unheard /\ tab.at[s].conn \in Conns BY <1>1 DEF Session
  <2>2. highest \in 0..MaxEdits BY <2>1, SchedulerAssumption, IInvFacts DEF TypeOK
  <2> QED BY <2>1, <2>2, SchedulerAssumption DEF Unheard
<1> HIDE DEF h
<1>4. x \in Session BY <1>1, <1>3 DEF Session
<1>5. t.at = [tab.at EXCEPT ![s] = x] BY <1>1 DEF Tab, Session
<1>6. t = [tab EXCEPT !.at = t.at] BY <1>1 DEF Tab
<1>7. SameRun(tab.at[s], x)
  BY <1>1 DEF Session, SameRun
<1> HIDE DEF t, x
<1>9. Kept(tab, t) /\ Sound(t, online, visible, spent)
  BY <1>1, <1>4, <1>5, <1>6, <1>7, SameRunSet
<1>11. Retimed(t, v)
  <2>1. t \in Tab BY <1>9 DEF Kept, TabOK, WellFormed
  <2> QED BY <2>1 DEF Tab, Retimed
<1> HIDE DEF v
<1>12. Kept(t, v) /\ Sound(v, online, visible, spent)
  <2>1. t.bound # NoSession BY <1>1, <1>9 DEF Kept, SameSource
  <2> QED BY <1>9, <1>11, <2>1, IInvFacts, RetimedKept, RetimedSound DEF Kept
<1>13. Calm(tab, v) BY <1>9, <1>12, CalmTrans DEF Kept
<1>14. CASE seen = Unheard BY <1>2, <1>9, <1>14, TriggerStep DEF Kept
<1>15. CASE seen # Unheard BY <1>2, <1>12, <1>13, <1>15, TriggerStep DEF Kept
<1> QED BY <1>14, <1>15

LEMMA BlockedForLongStep ==
  ASSUME IInv, NEW s \in Sessions, BlockedForLong(s) PROVE IInv'
<1> DEFINE x == [tab.at[s] EXCEPT !.blocked = "long"]
           t == [tab EXCEPT !.at[s].blocked = "long"]
<1>1. /\ tab \in Tab /\ tab.at[s] # Gone /\ tab.at[s] \in Session
      /\ TabOK(tab) /\ TimerOK(tab)
  BY IInvFacts, SessionFacts DEF BlockedForLong
<1>2. Trigger(t) BY DEF BlockedForLong
<1>4. x \in Session BY <1>1 DEF Session
<1>5. t.at = [tab.at EXCEPT ![s] = x] BY <1>1 DEF Tab, Session
<1>6. t = [tab EXCEPT !.at = t.at] BY <1>1 DEF Tab
<1>7. SameRun(tab.at[s], x)
  BY <1>1 DEF Session, SameRun
<1> HIDE DEF t, x
<1>9. Kept(tab, t) /\ Sound(t, online, visible, spent)
  BY <1>1, <1>4, <1>5, <1>6, <1>7, SameRunSet
<1> QED BY <1>2, <1>9, TriggerStep DEF Kept

LEMMA GiveBackAfterPauseStep ==
  ASSUME IInv, NEW s \in Sessions, GiveBackAfterPause(s) PROVE IInv'
<1>1. /\ tab \in Tab /\ tab.at[s] # Gone /\ tab.at[s] \in Session
      /\ TabOK(tab) /\ TimerOK(tab)
  BY IInvFacts, SessionFacts DEF GiveBackAfterPause
<1>2. ASSUME NEW x \in Session, SameRun(tab.at[s], x),
             tab'.at = [tab.at EXCEPT ![s] = x], tab' = [tab EXCEPT !.at = tab'.at],
             tries' \in [Conns -> 0..MaxAttempts]
      PROVE  IInv'
  <2>1. Kept(tab, tab') /\ Sound(tab', online, visible, spent)
    BY <1>1, <1>2, SameRunSet
  <2>2. /\ UNCHANGED <<live, row, made, sent, cursor, lock, owed>>
        /\ UNCHANGED <<online, visible, play, quiet, spent>>
    BY DEF GiveBackAfterPause, env, window, hist
  <2> QED BY <1>2, <2>1, <2>2, IInvFacts, TabStep DEF Kept
<1>3. CASE IsCurrent(tab, s)
  <2> DEFINE x == [tab.at[s] EXCEPT !.after = NoSession, !.stuck = FALSE]
             t == [tab EXCEPT !.at[s].after = NoSession, !.at[s].stuck = FALSE]
  <2>1. tab' = t /\ tries' \in [Conns -> 0..MaxAttempts]
    BY <1>3, IInvFacts, SchedulerAssumption DEF GiveBackAfterPause
  <2>2. x \in Session BY <1>1 DEF Session
  <2>3. t.at = [tab.at EXCEPT ![s] = x] BY <1>1 DEF Tab, Session
  <2>4. t = [tab EXCEPT !.at = t.at] BY <1>1 DEF Tab
  <2>5. SameRun(tab.at[s], x)
    BY <1>1 DEF Session, SameRun
  <2> HIDE DEF t, x
  <2> QED BY <1>2, <2>1, <2>2, <2>3, <2>4, <2>5
<1>4. CASE ~IsCurrent(tab, s)
  <2> DEFINE x == [tab.at[s] EXCEPT !.after = NoSession]
             t == [tab EXCEPT !.at[s].after = NoSession]
  <2>1. tab' = t /\ tries' \in [Conns -> 0..MaxAttempts]
    BY <1>4, IInvFacts DEF GiveBackAfterPause
  <2>2. x \in Session BY <1>1 DEF Session
  <2>3. t.at = [tab.at EXCEPT ![s] = x] BY <1>1 DEF Tab, Session
  <2>4. t = [tab EXCEPT !.at = t.at] BY <1>1 DEF Tab
  <2>5. SameRun(tab.at[s], x)
    BY <1>1 DEF Session, SameRun
  <2> HIDE DEF t, x
  <2> QED BY <1>2, <2>1, <2>2, <2>3, <2>4, <2>5
<1> QED BY <1>3, <1>4

LEMMA SoundLess ==
  ASSUME NEW t, NEW on \in BOOLEAN, NEW seen \in BOOLEAN, NEW f, NEW c,
         Sound(t, on, seen, f)
  PROVE  Sound(t, on, seen, f \ {c})
<1>1. f \ {c} = {} \/ f \ {c} = f BY DEF Sound, Spaced
<1>2. Spaced(t, on, f \ {c})
  <2>1. CASE f \ {c} = {} BY <2>1 DEF Spaced
  <2>2. CASE f \ {c} = f BY <2>2 DEF Sound
  <2> QED BY <1>1, <2>1, <2>2
<1> QED BY <1>2 DEF Sound

\* The user asks: a pause is over, and something is to come.
LEMMA ResumeOK ==
  ASSUME IInv, NEW s, s = tab.bound, s # NoSession, NEW x \in Session,
         SameRun(tab.at[s], x), x.asking \/ x.rescan,
         NEW u, u.at = [tab.at EXCEPT ![s] = x], u = [Resume(tab, s) EXCEPT !.at = u.at]
  PROVE  TabOK(u) /\ TimerOK(u) /\ Calm(tab, u) /\ Sound(u, online, visible, spent)
<1> DEFINE r == Resume(tab, s)
<1>1. /\ tab \in Tab /\ TabOK(tab) /\ TimerOK(tab) /\ Sound(tab, online, visible, spent)
      /\ s \in Sessions /\ tab.at[s] # Gone /\ BoundOK(tab) /\ tab.at[s].conn # NoConn
  BY IInvFacts, BoundFacts DEF TabOK
<1>2. /\ r \in Tab /\ r.at = tab.at /\ r.bound = s /\ r.shown = tab.shown
      /\ r.halted = tab.halted /\ r.next = tab.next /\ r.phase = tab.phase
      /\ r.debounce = tab.debounce /\ r.notice = tab.notice /\ r.paused = NoConn
  BY <1>1 DEF Resume, Tab, BoundOK
<1>3. u = [r EXCEPT !.at = u.at] /\ u.at = [r.at EXCEPT ![s] = x] BY <1>2
<1> HIDE DEF r
<1>4. TabOK(r) /\ TimerOK(r)
  BY <1>1, <1>2 DEF TabOK, WellFormed, BoundOK, TimerOK
<1>5. Becomes(r, u, s, x, r.next, r.debounce, r.notice, r.phase)
  BY <1>1, <1>2, <1>3, SetBecomes
<1>6. Kept(r, u)
  <2>1. /\ x.conn = r.at[s].conn /\ x.run = r.at[s].run /\ x.upto = r.at[s].upto
        /\ x.full = r.at[s].full /\ x.result = r.at[s].result /\ r.at[s] # Gone
    BY <1>1, <1>2 DEF SameRun
  <2> QED BY <1>1, <1>4, <1>5, <2>1, SameRunKept
<1>7. Calm(tab, u)
  <2>1. Calm(tab, r) BY <1>2 DEF Calm
  <2> QED BY <1>6, <2>1, CalmTrans DEF Kept
<1>8. Awake(u, online, visible) BY <1>2, <1>5 DEF Awake, Becomes
<1>9. Recalled(u, online) BY <1>1, <1>2, <1>5 DEF Sound, Recalled, Becomes, SameRun
<1>10. Spaced(u, online, spent) BY <1>1, <1>2, <1>5 DEF Sound, Spaced, Becomes, SameRun
<1> QED BY <1>6, <1>7, <1>8, <1>9, <1>10 DEF Kept, Sound

LEMMA SyncNowStep == ASSUME IInv, SyncNow PROVE IInv'
<1> DEFINE s == tab.bound
           x == [tab.at[s] EXCEPT !.asking = TRUE]
<1>1. /\ tab \in Tab /\ s # NoSession /\ s \in Sessions /\ tab.at[s] \in Session
      /\ Resume(tab, s).at = tab.at /\ Resume(tab, s) \in Tab
  <2>1. tab \in Tab /\ s # NoSession BY IInvFacts DEF SyncNow, Bound
  <2>2. s \in Sessions /\ tab.at[s] \in Session BY <2>1, IInvFacts, BoundFacts
  <2> QED BY <2>1, <2>2 DEF Resume, Tab
<1>2. tab' = [Resume(tab, s) EXCEPT !.at[s].asking = TRUE] BY DEF SyncNow
<1>3. x \in Session BY <1>1 DEF Session
<1>4. tab'.at = [tab.at EXCEPT ![s] = x] BY <1>1, <1>2 DEF Tab, Session
<1>5. tab' = [Resume(tab, s) EXCEPT !.at = tab'.at] BY <1>1, <1>2 DEF Tab
<1>6. SameRun(tab.at[s], x) /\ x.asking BY <1>1 DEF Session, SameRun
<1> HIDE DEF x, s
<1>7. TabOK(tab') /\ TimerOK(tab') /\ Calm(tab, tab') /\ Sound(tab', online, visible, spent)
  BY <1>1, <1>3, <1>4, <1>5, <1>6, ResumeOK DEF s
<1>8. /\ UNCHANGED <<live, row, made, sent, cursor, lock, owed, tries>>
      /\ UNCHANGED <<online, visible, play, spent>> /\ quiet' \in [Conns -> Pauses]
  BY IInvFacts DEF SyncNow, db, env, window, Pauses
<1> QED BY <1>7, <1>8, IInvFacts, TabStep

LEMMA ResyncStep == ASSUME IInv, Resync PROVE IInv'
<1> DEFINE s == tab.bound
           x == [tab.at[s] EXCEPT !.rescan = TRUE]
<1>1. /\ tab \in Tab /\ s # NoSession /\ s \in Sessions /\ tab.at[s] \in Session
      /\ Resume(tab, s).at = tab.at /\ Resume(tab, s) \in Tab
  <2>1. tab \in Tab /\ s # NoSession BY IInvFacts DEF Resync, Bound
  <2>2. s \in Sessions /\ tab.at[s] \in Session BY <2>1, IInvFacts, BoundFacts
  <2> QED BY <2>1, <2>2 DEF Resume, Tab
<1>2. tab' = [Resume(tab, s) EXCEPT !.at[s].rescan = TRUE] BY DEF Resync
<1>3. x \in Session BY <1>1 DEF Session
<1>4. tab'.at = [tab.at EXCEPT ![s] = x] BY <1>1, <1>2 DEF Tab, Session
<1>5. tab' = [Resume(tab, s) EXCEPT !.at = tab'.at] BY <1>1, <1>2 DEF Tab
<1>6. SameRun(tab.at[s], x) /\ x.rescan BY <1>1 DEF Session, SameRun
<1> HIDE DEF x, s
<1>7. TabOK(tab') /\ TimerOK(tab') /\ Calm(tab, tab') /\ Sound(tab', online, visible, spent)
  BY <1>1, <1>3, <1>4, <1>5, <1>6, ResumeOK DEF s
<1>8. /\ UNCHANGED <<live, row, made, sent, cursor, lock, owed, tries>>
      /\ UNCHANGED <<online, visible, play, spent>> /\ quiet' \in [Conns -> Pauses]
  BY IInvFacts DEF Resync, db, env, window, Pauses
<1> QED BY <1>7, <1>8, IInvFacts, TabStep

LEMMA GoOnlineStep == ASSUME IInv, GoOnline PROVE IInv'
<1>0. /\ tab \in Tab /\ TabOK(tab) /\ TimerOK(tab) /\ Sound(tab, online, visible, spent)
      /\ online' = TRUE
  BY IInvFacts DEF GoOnline
<1>1. /\ UNCHANGED <<live, row, made, sent, cursor, lock, owed, tries>>
      /\ UNCHANGED <<visible, play, quiet>> /\ spent' \subseteq spent
  BY DEF GoOnline, db
<1>2. CASE ~Bound
  <2>1. tab' = tab /\ spent' = spent /\ tab.bound = NoSession BY <1>2 DEF GoOnline, Bound
  <2>2. Sound(tab', online', visible', spent')
    BY <1>0, <2>1 DEF Sound, Awake, Recalled, Spaced
  <2>3. Calm(tab, tab') BY <2>1, CalmSelf
  <2> QED BY <1>0, <1>1, <2>1, <2>2, <2>3, IInvFacts, TabStep
<1>3. CASE Bound
  <2> DEFINE s == tab.bound
             x == [tab.at[s] EXCEPT !.asking = TRUE]
  <2>1. s # NoSession /\ s \in Sessions /\ tab.at[s] \in Session /\ tab.at[s] # Gone
    BY <1>0, <1>3, BoundFacts DEF Bound, TabOK
  <2>2. tab' = [tab EXCEPT !.at[s].asking = TRUE] /\ spent' = spent \ {tab.at[s].conn}
    BY <1>3 DEF GoOnline, Mine
  <2>3. x \in Session BY <2>1 DEF Session
  <2>4. tab'.at = [tab.at EXCEPT ![s] = x] BY <1>0, <2>1, <2>2 DEF Tab, Session
  <2>5. tab' = [tab EXCEPT !.at = tab'.at] BY <1>0, <2>1, <2>2 DEF Tab
  <2>6. SameRun(tab.at[s], x) /\ x.asking BY <2>1 DEF Session, SameRun
  <2> HIDE DEF x
  <2>7. Kept(tab, tab') BY <2>1, <2>3, <2>4, <2>5, <2>6, SameRunSet
  <2>8. tab'.bound = s /\ tab'.at[s] = x
    BY <1>0, <2>1, <2>4, <2>7 DEF Kept, SameSource, Tab
  <2>9. Awake(tab', online', visible') /\ Recalled(tab', online')
    BY <2>6, <2>8 DEF Awake, Recalled
  <2>10. spent' = {} BY <1>0, <2>2 DEF Sound, Spaced
  <2>11. Sound(tab', online', visible', spent') BY <2>9, <2>10 DEF Sound, Spaced
  <2> QED BY <1>0, <1>1, <2>7, <2>11, IInvFacts, TabStep DEF Kept
<1> QED BY <1>2, <1>3

LEMMA ComeForwardStep == ASSUME IInv, ComeForward PROVE IInv'
<1>0. /\ tab \in Tab /\ TabOK(tab) /\ TimerOK(tab) /\ Sound(tab, online, visible, spent)
      /\ visible' = TRUE /\ online \in BOOLEAN
  BY IInvFacts DEF ComeForward
<1>1. /\ UNCHANGED <<live, row, made, sent, cursor, lock, owed, tries>>
      /\ UNCHANGED <<online, play, quiet, spent>>
  BY DEF ComeForward, db, hist
<1>2. CASE ~Bound
  <2>1. tab' = tab /\ tab.bound = NoSession BY <1>2 DEF ComeForward, Bound
  <2>2. Sound(tab', online', visible', spent')
    BY <1>0, <1>1, <2>1 DEF Sound, Awake, Recalled, Spaced
  <2>3. Calm(tab, tab') BY <2>1, CalmSelf
  <2> QED BY <1>0, <1>1, <2>1, <2>2, <2>3, IInvFacts, TabStep
<1>3. CASE Bound
  <2> DEFINE s == tab.bound
             u == Nudge(tab, s)
  <2>1. s \in Sessions /\ tab.at[s] # Gone BY <1>0, <1>3, BoundFacts DEF Bound, TabOK
  <2>2. tab' = u BY <1>3 DEF ComeForward
  <2> HIDE DEF u
  <2>3. Kept(tab, u) BY <1>0, <2>1, NudgeKept DEF u
  <2>4. Sound(u, online, visible', spent) BY <1>0, <2>1, NudgeSound DEF Sound, u
  <2> QED BY <1>0, <1>1, <2>2, <2>3, <2>4, IInvFacts, TabStep DEF Kept
<1> QED BY <1>2, <1>3

\* A run asked for of a session, bound or not, that has set down what it waited for.
LEMMA AskedTab ==
  ASSUME IInv, NEW s \in Sessions, tab.at[s] # Gone, NEW x \in Session,
         x.conn = tab.at[s].conn, x.run = tab.at[s].run, x.upto = tab.at[s].upto,
         x.full = tab.at[s].full, x.result = tab.at[s].result,
         NEW t, Becomes(tab, t, s, x, tab.next, tab.debounce, tab.notice, tab.phase),
         NEW f, f = spent \ {x.conn} \/ (f = spent /\ (tab.bound = s => spent = {}))
  PROVE  LET u == Tidy(Run(t, s, "again"))
         IN  TabOK(u) /\ TimerOK(u) /\ Calm(tab, u) /\ Sound(u, online, visible, f)
<1> DEFINE v == Run(t, s, "again")
           u == Tidy(v)
<1>1. /\ tab \in Tab /\ TabOK(tab) /\ TimerOK(tab) /\ Sound(tab, online, visible, spent)
      /\ online \in BOOLEAN /\ visible \in BOOLEAN
  BY IInvFacts
<1>2. Becomes(tab, t, s, x, tab.next, tab.debounce, tab.notice, tab.phase) OBVIOUS
<1>3. Kept(tab, t) BY <1>1, <1>2, SameRunKept
<1>4. TabOK(t) /\ TimerOK(t) /\ t.at[s] # Gone
  BY <1>2, <1>3, IsThere DEF Kept, Becomes
<1>5. tab.bound # NoSession => tab.bound \in Sessions BY <1>1 DEF Tab
<1>6. Kept(t, v) BY <1>4, RunKept
<1>7. t.bound # s => Awake(t, online, visible)
  BY <1>1, <1>2, <1>5 DEF Sound, Awake, Becomes
<1>8. Awake(v, online, visible)
  <2> DEFINE on == online
             seen == visible
  <2>1. on \in BOOLEAN /\ seen \in BOOLEAN BY <1>1
  <2>2. t.bound # s => Awake(t, on, seen) BY <1>7
  <2> HIDE DEF on, seen
  <2>3. Awake(Run(t, s, "again"), on, seen) BY <1>4, <2>1, <2>2, RunWakes
  <2> QED BY <2>3 DEF on, seen
<1>9. Recalled(t, online) \/ t.bound = s
  BY <1>1, <1>2, <1>5 DEF Sound, Recalled, Becomes
<1>10. Recalled(v, online) BY <1>1, <1>4, <1>9, RunRecalled
<1>11. Spaced(t, online, f) /\ (t.bound = s => f = {})
  <2>1. f = {} \/ f = spent BY <1>1 DEF Sound, Spaced
  <2>2. tab.bound = s => f = {} BY <1>1 DEF Sound, Spaced
  <2>3. CASE f = {} BY <2>3 DEF Spaced
  <2>4. CASE f = spent /\ tab.bound # s
    BY <1>1, <1>2, <1>5, <2>4 DEF Sound, Spaced, Becomes
  <2> QED BY <1>2, <2>1, <2>2, <2>3, <2>4 DEF Becomes
<1>12. Spaced(v, online, f) BY <1>1, <1>4, <1>11, RunSpaced
<1>13. Kept(v, u) BY <1>6, TidyKept DEF Kept
<1>14. Sound(u, online, visible, f)
  BY <1>1, <1>6, <1>8, <1>10, <1>12, TidySound DEF Sound, Kept, TabOK
<1>15. Calm(tab, u)
  <2>1. Calm(tab, v) BY <1>3, <1>6, CalmTrans DEF Kept
  <2> QED BY <1>13, <2>1, CalmTrans DEF Kept
<1> QED BY <1>13, <1>14, <1>15 DEF Kept

\* Attempts given back are attempts.
LEMMA CleanTries ==
  ASSUME IInv, NEW c
  PROVE  [tries EXCEPT ![c] = 0] \in [Conns -> 0..MaxAttempts]
<1>1. 0 \in 0..MaxAttempts BY SchedulerAssumption
<1> QED BY <1>1, IInvFacts

LEMMA AskedStep == ASSUME IInv, NEW s \in Sessions, Asked(s) PROVE IInv'
<1> DEFINE x == [tab.at[s] EXCEPT !.asking = FALSE, !.stuck = FALSE]
           t == [tab EXCEPT !.at[s].asking = FALSE, !.at[s].stuck = FALSE]
           u == Tidy(Run(t, s, "again"))
<1>1. tab \in Tab /\ tab.at[s] # Gone /\ tab.at[s] \in Session
  BY IInvFacts, SessionFacts DEF Asked
<1>2. tab' = u /\ spent' = spent \ {tab.at[s].conn} BY DEF Asked
<1>3. x \in Session BY <1>1 DEF Session
<1>4. t.at = [tab.at EXCEPT ![s] = x] BY <1>1 DEF Tab, Session
<1>5. t = [tab EXCEPT !.at = t.at] BY <1>1 DEF Tab
<1>6. /\ x.conn = tab.at[s].conn /\ x.run = tab.at[s].run /\ x.upto = tab.at[s].upto
      /\ x.full = tab.at[s].full /\ x.result = tab.at[s].result
  BY <1>1 DEF Session
<1> HIDE DEF x, t
<1>7. Becomes(tab, t, s, x, tab.next, tab.debounce, tab.notice, tab.phase)
  BY <1>1, <1>3, <1>4, <1>5, SetBecomes
<1>8. TabOK(u) /\ TimerOK(u) /\ Calm(tab, u) /\ Sound(u, online, visible, spent')
  BY <1>1, <1>2, <1>3, <1>6, <1>7, AskedTab
<1>9. /\ UNCHANGED <<live, row, made, sent, cursor, lock, owed>>
      /\ UNCHANGED <<online, visible, play, quiet>>
  BY DEF Asked, env, window
<1>10. spent' \subseteq spent BY <1>2
<1>11. tries' \in [Conns -> 0..MaxAttempts] BY CleanTries DEF Asked
<1> QED BY <1>2, <1>8, <1>9, <1>10, <1>11, IInvFacts, TabStep

LEMMA GiveBackAttemptsStep == ASSUME IInv, NEW s \in Sessions, GiveBackAttempts(s) PROVE IInv'
<1> DEFINE x == [tab.at[s] EXCEPT !.run = "name", !.stuck = FALSE, !.flags = @ \cup {"again"}]
<1>1. /\ tab \in Tab /\ tab.at[s] # Gone /\ tab.at[s] \in Session /\ SessionOK(tab.at[s])
      /\ tab.at[s].run = "release" /\ TabOK(tab) /\ TimerOK(tab)
      /\ Sound(tab, online, visible, spent)
  BY IInvFacts, SessionFacts DEF GiveBackAttempts, At
<1>2. /\ tab' = [tab EXCEPT !.at[s].run = "name", !.at[s].stuck = FALSE,
                            !.at[s].flags = @ \cup {"again"}]
      /\ spent' = spent \ {tab.at[s].conn}
  BY DEF GiveBackAttempts
<1>3. x \in Session BY <1>1 DEF Session
<1>4. tab'.at = [tab.at EXCEPT ![s] = x] BY <1>1, <1>2 DEF Tab, Session
<1>5. tab' = [tab EXCEPT !.at = tab'.at] BY <1>1, <1>2 DEF Tab
<1>6. x.conn = tab.at[s].conn /\ x.run = "name" /\ x.upto = 0
  BY <1>1 DEF Session, SessionOK
<1> HIDE DEF x
<1>7. Becomes(tab, tab', s, x, tab.next, tab.debounce, tab.notice, tab.phase)
  BY <1>1, <1>3, <1>4, <1>5, SetBecomes
<1>8. TabOK(tab') /\ Calm(tab, tab')
  <2>1. SessionOK(x) BY <1>6 DEF SessionOK
  <2>2. ~(tab.bound = s /\ tab.paused = tab.at[s].conn)
    BY <1>1, SessionFacts DEF TabOK, BoundOK
  <2> QED BY <1>1, <1>6, <1>7, <2>1, <2>2, BecomesOK DEF Started, AtNetwork
<1>9. tab.bound # NoSession => tab.bound \in Sessions BY <1>1 DEF Tab
<1>10. TimerOK(tab') BY <1>1, <1>7, <1>9 DEF TimerOK, Becomes
<1>11. Awake(tab', online, visible) /\ Recalled(tab', online)
  BY <1>1, <1>6, <1>7, <1>9 DEF Sound, Awake, Recalled, Becomes
<1>12. Spaced(tab', online, spent')
  <2>1. Spaced(tab, online, spent') /\ (tab.bound = s => spent' = {})
    BY <1>1, <1>2, IInvFacts, SoundLess DEF Sound, Spaced
  <2> QED BY <1>7, <1>9, <2>1 DEF Spaced, Becomes
<1>13. /\ UNCHANGED <<live, row, made, sent, cursor, lock, owed>>
       /\ UNCHANGED <<online, visible, play, quiet>>
  BY DEF GiveBackAttempts, env, window
<1>14. spent' \subseteq spent BY <1>2
<1>15. tries' \in [Conns -> 0..MaxAttempts] BY CleanTries DEF GiveBackAttempts
<1>16. Sound(tab', online', visible', spent') BY <1>11, <1>12, <1>13 DEF Sound
<1> QED BY <1>8, <1>10, <1>13, <1>14, <1>15, <1>16, IInvFacts, TabStep

\* A run that ends when its session is no longer bound.
LEMMA EndsElsewhere ==
  ASSUME IInv, NEW s \in Sessions, tab.at[s] # Gone, tab.bound # s,
         tab.at[s].run \notin AtNetwork \cup {"none"}
  PROVE  LET u == Tidy(Finish(tab, s))
         IN  /\ TabOK(u) /\ TimerOK(u) /\ Calm(tab, u)
             /\ Sound(u, online, visible, spent)
<1> DEFINE v == Finish(tab, s)
           u == Tidy(v)
<1>1. /\ TabOK(tab) /\ TimerOK(tab) /\ Sound(tab, online, visible, spent)
      /\ online \in BOOLEAN /\ visible \in BOOLEAN
  BY IInvFacts
<1>2. Kept(tab, v) BY <1>1, FinishKept
<1>3. Sound(v, online, visible, spent) BY <1>1, FinishElsewhere
<1> HIDE DEF v
<1>4. Kept(v, u) BY <1>2, TidyKept DEF Kept
<1>5. Sound(u, online, visible, spent) BY <1>1, <1>2, <1>3, TidySound DEF Kept, TabOK
<1>6. Calm(tab, u) BY <1>2, <1>4, CalmTrans DEF Kept
<1> QED BY <1>4, <1>5, <1>6 DEF Kept, v

LEMMA AnsweredStep == ASSUME IInv, NEW s \in Sessions, Answered(s) PROVE IInv'
<1>1. /\ tab.at[s] # Gone /\ tab.at[s].run = "answer" /\ TabOK(tab) /\ TimerOK(tab)
      /\ Sound(tab, online, visible, spent) /\ online \in BOOLEAN /\ visible \in BOOLEAN
  BY IInvFacts DEF Answered, At
<1>2. spent' = Repaid(tab, s, spent) BY DEF Answered, Repaid
<1>3. /\ UNCHANGED <<live, row, made, sent, cursor, lock, owed, tries>>
      /\ UNCHANGED <<online, visible, play, quiet>> /\ spent' \subseteq spent
  BY <1>2 DEF Answered, db, env, window, Repaid
<1>4. CASE tab.bound = s
  <2>1. tab' = Settle(tab, s) BY <1>4 DEF Answered, IsCurrent
  <2>2. Kept(tab, tab') /\ Sound(tab', online, visible, spent')
    BY <1>1, <1>2, <1>4, <2>1, SettleOK
  <2> QED BY <1>3, <2>2, IInvFacts, TabStep DEF Kept
<1>5. CASE tab.bound # s
  <2>1. tab' = Tidy(Finish(tab, s)) BY <1>5 DEF Answered, IsCurrent
  <2>2. /\ TabOK(tab') /\ TimerOK(tab') /\ Calm(tab, tab')
        /\ Sound(tab', online, visible, spent)
    BY <1>1, <1>5, <2>1, EndsElsewhere DEF AtNetwork
  <2>3. Sound(tab', online, visible, spent')
    <3> DEFINE c == tab.at[s].conn
    <3>1. spent' = spent \/ spent' = spent \ {c} BY <1>2 DEF Repaid
    <3> HIDE DEF c
    <3>2. Sound(tab', online, visible, spent \ {c}) BY <1>1, <2>2, SoundLess
    <3> QED BY <2>2, <3>1, <3>2
  <2> QED BY <1>3, <2>2, <2>3, IInvFacts, TabStep
<1> QED BY <1>4, <1>5

LEMMA NameStuckStep == ASSUME IInv, NEW s \in Sessions, NameStuck(s) PROVE IInv'
<1>1. /\ tab \in Tab /\ tab.at[s] # Gone /\ tab.at[s] \in Session /\ SessionOK(tab.at[s])
      /\ tab.at[s].run = "name" /\ TabOK(tab) /\ TimerOK(tab)
      /\ Sound(tab, online, visible, spent) /\ online \in BOOLEAN /\ visible \in BOOLEAN
  BY IInvFacts, SessionFacts DEF NameStuck, At
<1>2. /\ UNCHANGED <<live, row, made, sent, cursor, lock, owed, tries>>
      /\ UNCHANGED <<online, visible, play, quiet, spent>>
  BY DEF NameStuck, db, env, window, hist
<1>3. CASE tab.bound = s
  <2> DEFINE k == Out(tab.at[s].conn)
             x == [tab.at[s] EXCEPT !.stuck = k]
             t == [tab EXCEPT !.at[s].stuck = k, !.phase = "blocked", !.next = "interval"]
  <2>1. tab' = Finish(t, s) BY <1>3 DEF NameStuck, IsCurrent
  <2>2. k \in BOOLEAN BY DEF Out
  <2> HIDE DEF k
  <2>3. x \in Session BY <1>1, <2>2 DEF Session
  <2>4. t.at = [tab.at EXCEPT ![s] = x] BY <1>1 DEF Tab, Session
  <2>5. t = [tab EXCEPT !.next = "interval", !.debounce = tab.debounce,
                        !.notice = tab.notice, !.phase = "blocked", !.at = t.at]
    BY <1>1 DEF Tab
  <2>6. x.conn = tab.at[s].conn /\ x.run = "name" /\ x.upto = 0
    BY <1>1 DEF Session, SessionOK
  <2> HIDE DEF x, t
  <2>7. t = With(tab, s, x, "interval", tab.debounce, tab.notice, "blocked")
    BY <2>4, <2>5 DEF With
  <2>8. Becomes(tab, t, s, x, "interval", tab.debounce, tab.notice, "blocked")
    BY <1>1, <2>3, <2>7, WithBecomes, TimersIn, Constants
  <2>9. TabOK(t) /\ Calm(tab, t) /\ SameSource(tab, t) /\ t.at[s] # Gone
    <3>1. SessionOK(x) BY <2>6 DEF SessionOK
    <3>2. ~(tab.bound = s /\ tab.paused = tab.at[s].conn)
      BY <1>1, SessionFacts DEF TabOK, BoundOK
    <3>3. TabOK(t) /\ Calm(tab, t) /\ t.at[s] # Gone
      BY <1>1, <1>3, <2>6, <2>8, <3>1, <3>2, BecomesOK DEF Started, AtNetwork
    <3> QED BY <2>8, <3>3 DEF Becomes, SameSource
  <2>10. t.bound = s /\ t.at[s].run \notin AtNetwork \cup {"none"}
    BY <1>3, <2>6, <2>8 DEF Becomes, AtNetwork
  <2>11. Kept(t, tab') BY <2>1, <2>9, <2>10, FinishKept
  <2>12. Follows(t, s, online, visible) BY <2>8 DEF Becomes, Follows
  <2>13. spent = {} BY <1>1, <1>3 DEF Sound, Spaced
  <2>14. Backs(t, s, online, spent) BY <2>13 DEF Backs
  <2>15. Sound(tab', online, visible, spent)
    BY <1>1, <2>1, <2>9, <2>10, <2>12, <2>14, FinishSound
  <2>16. Calm(tab, tab') BY <2>9, <2>11, CalmTrans DEF Kept
  <2> QED BY <1>2, <2>11, <2>15, <2>16, IInvFacts, TabStep DEF Kept
<1>4. CASE tab.bound # s
  <2>1. tab' = Tidy(Finish(tab, s)) BY <1>4 DEF NameStuck, IsCurrent
  <2>2. /\ TabOK(tab') /\ TimerOK(tab') /\ Calm(tab, tab')
        /\ Sound(tab', online, visible, spent)
    BY <1>1, <1>4, <2>1, EndsElsewhere DEF AtNetwork
  <2> QED BY <1>2, <2>2, IInvFacts, TabStep
<1> QED BY <1>3, <1>4

-----------------------------------------------------------------------------
(* The steps of a run at the network.                                        *)

\* A run goes on, with the lock of its source its own or nobody's.
LEMMA NetStep ==
  ASSUME IInv, NEW s \in Sessions, tab.at[s] # Gone,
         tab.at[s].run \in AtNetwork \cup {"lock"},
         NEW x, Becomes(tab, tab', s, x, tab.next, tab.debounce, tab.notice, tab.phase),
         x.conn = tab.at[s].conn, x.run \in Started, SessionOK(x), RunOK(s)',
         x.run = "answer" /\ x.result = "offline" => ~online,
         NEW k \in {"free", s}, lock[x.conn] \in {"free", s},
         lock' = [lock EXCEPT ![x.conn] = k],
         owed' \subseteq owed, \A c \in owed' : ~cursor'[c],
         UNCHANGED <<live, row, made, online, visible, quiet>>,
         sent' \in [Conns -> 0..MaxEdits], \A c \in Conns : sent'[c] <= made[c],
         tries' \in [Conns -> 0..MaxAttempts], cursor' \in [Conns -> BOOLEAN],
         play' \in Play, Spaced(tab', online, spent'), spent' \subseteq live
  PROVE  IInv'
<1>1. /\ tab \in Tab /\ TabOK(tab) /\ TimerOK(tab) /\ x \in Session /\ x.conn \in Conns
      /\ s # NoSession
  BY IInvFacts, SessionFacts DEF Becomes
<1>2. TabOK(tab')
  <2>1. Revised(tab, tab', s) BY DEF Becomes, Revised
  <2>2. ~(tab.bound = s /\ tab.paused = tab.at[s].conn)
    BY <1>1 DEF TabOK, BoundOK, AtNetwork
  <2>3. SessionOK(tab'.at[s]) BY DEF Becomes
  <2> QED BY <1>1, <2>1, <2>2, <2>3, RevisedTab
<1>3. tab.bound # NoSession => tab.bound \in Sessions BY <1>1 DEF Tab
<1>4. TimerOK(tab')
  <2>1. tab.bound = s => tab.next = "none" BY <1>1 DEF TimerOK, AtNetwork
  <2> QED BY <1>1, <1>3, <2>1 DEF TimerOK, Becomes
<1>5. Awake(tab', online, visible)
  <2>1. x.run # "none" BY DEF Started, AtNetwork
  <2> QED BY <1>3, <2>1 DEF IInv, Awake, Becomes
<1>6. Recalled(tab', online)
  BY <1>3 DEF IInv, Recalled, Becomes
<1>7. \A r \in Sessions \ {s} : tab'.at[r] = tab.at[r] BY DEF Becomes
<1>8. ASSUME NEW r \in Sessions \ {s}, tab'.at[r] # Gone PROVE RunOK(r)'
  <2>1. tab'.at[r] = tab.at[r] /\ RunOK(r) /\ r # "free"
    BY <1>7, <1>8, SchedulerAssumption DEF IInv, RunsOK
  <2>2. tab.at[r].conn \in Conns BY <1>1, <1>8, <2>1, SessionFacts DEF TabOK
  <2>3. tab.at[r].run \in AtNetwork => lock'[tab.at[r].conn] = r
    <3>1. tab.at[r].run \in AtNetwork => lock[tab.at[r].conn] = r /\ tab.at[r].conn # x.conn
      BY <2>1, <2>2, <1>8 DEF RunOK
    <3> QED BY <2>2, <3>1 DEF IInv, TypeOK
  <2> QED BY <2>1, <2>3 DEF RunOK
<1>9. RunsOK' BY <1>8 DEF RunsOK
<1>10. OwedOK'
  <2> SUFFICES ASSUME NEW c \in owed' PROVE lock'[c] # "round" BY DEF OwedOK
  <2>1. c \in Conns /\ lock[c] # "round" BY DEF IInv, OwedOK, TypeOK
  <2>2. k # "round" BY SchedulerAssumption
  <2> QED BY <1>1, <2>1, <2>2 DEF IInv, TypeOK
<1>11. TypeOK'
  <2>1. lock' \in [Conns -> {"free", "round", "scan"} \cup Sessions] BY <1>1 DEF IInv, TypeOK
  <2>2. tab' \in Tab BY DEF Becomes
  <2>3. /\ live' \subseteq Conns /\ row' \in live' \cup {NoConn}
        /\ made' \in [Conns -> 0..MaxEdits]
        /\ online' \in BOOLEAN /\ visible' \in BOOLEAN /\ quiet' \in [Conns -> Pauses]
        /\ spent' \subseteq Conns /\ owed' \subseteq Conns
    BY DEF IInv, TypeOK
  <2>4. \A c \in Conns : sent'[c] <= made'[c] OBVIOUS
  <2> QED BY <2>1, <2>2, <2>3, <2>4 DEF TypeOK
<1>12. (spent \subseteq live)' OBVIOUS
<1>13. Awake(tab, online, visible)' /\ Recalled(tab, online)' /\ Spaced(tab, online, spent)'
  BY <1>5, <1>6
<1> QED BY <1>2, <1>4, <1>9, <1>10, <1>11, <1>12, <1>13 DEF IInv

\* The failed pushes that wait, when a run goes on at the network.
LEMMA NetSpaced ==
  ASSUME IInv, NEW s \in Sessions, tab.at[s] # Gone, tab.at[s].run \in AtNetwork,
         NEW t, NEW x, Becomes(tab, t, s, x, tab.next, tab.debounce, tab.notice, tab.phase),
         NEW f, f = spent \/ f = spent \ {tab.at[s].conn}
  PROVE  Spaced(t, online, f)
<1>1. tab \in Tab /\ s # NoSession /\ Spaced(tab, online, spent)
  BY IInvFacts, SessionFacts DEF Sound
<1>2. tab.bound # NoSession => tab.bound \in Sessions BY <1>1 DEF Tab
<1>3. tab.bound = s => spent = {} BY <1>1 DEF Spaced, AtNetwork
<1>4. f = {} \/ (f = spent /\ tab.bound # s) BY <1>1, <1>3 DEF Spaced
<1>5. CASE f = {} BY <1>5 DEF Spaced
<1>6. CASE f = spent /\ tab.bound # s BY <1>1, <1>2, <1>6 DEF Spaced, Becomes
<1> QED BY <1>4, <1>5, <1>6

LEMMA ResumedStep == ASSUME IInv, NEW s \in Sessions, Resumed(s) PROVE IInv'
<1> DEFINE c == tab.at[s].conn
           b == ~cursor[c]
           x == [tab.at[s] EXCEPT !.run = "pull", !.rebound = FALSE, !.full = b]
<1>1. /\ tab \in Tab /\ tab.at[s] # Gone /\ tab.at[s] \in Session /\ SessionOK(tab.at[s])
      /\ tab.at[s].run = "resume" /\ c \in Conns
  BY IInvFacts, SessionFacts DEF Resumed, At
<1>2. tab' = [tab EXCEPT !.at[s].run = "pull", !.at[s].rebound = FALSE, !.at[s].full = b]
  BY DEF Resumed
<1>3. /\ UNCHANGED <<live, row, made, sent, tries, cursor, lock, owed>>
      /\ UNCHANGED <<online, visible, play, quiet, spent>>
  BY DEF Resumed, db, env, window, hist
<1>4. b \in BOOLEAN /\ (~b => c \notin owed) BY DEF IInv, OwedOK
<1> HIDE DEF b
<1>5. x \in Session BY <1>1, <1>4 DEF Session
<1>6. tab'.at = [tab.at EXCEPT ![s] = x] BY <1>1, <1>2 DEF Tab, Session
<1>7. tab' = [tab EXCEPT !.at = tab'.at] BY <1>1, <1>2 DEF Tab
<1>8. x.conn = c /\ x.run = "pull" /\ x.upto = 0 /\ x.full = b
  BY <1>1 DEF Session, SessionOK
<1> HIDE DEF x, c
<1>9. Becomes(tab, tab', s, x, tab.next, tab.debounce, tab.notice, tab.phase)
  BY <1>1, <1>5, <1>6, <1>7, SetBecomes
<1>10. lock[c] = s /\ lock' = [lock EXCEPT ![c] = s]
  <2>1. lock[c] = s BY <1>1 DEF IInv, RunsOK, RunOK, AtNetwork, c
  <2> QED BY <1>3, <2>1 DEF IInv, TypeOK
<1>11. RunOK(s)'
  <2>1. tab'.at[s] = x BY <1>9 DEF Becomes
  <2>2. 0 <= made[c] BY <1>1, SchedulerAssumption DEF IInv, TypeOK
  <2> QED BY <1>3, <1>4, <1>8, <1>10, <2>1, <2>2 DEF RunOK
<1>12. x.conn = tab.at[s].conn /\ x.run \in Started /\ SessionOK(x)
  BY <1>8 DEF SessionOK, Started, AtNetwork, c
<1>13. Spaced(tab', online, spent') BY <1>1, <1>3, <1>9, NetSpaced DEF AtNetwork
<1>14. /\ \A d \in owed' : ~cursor'[d]
       /\ sent' \in [Conns -> 0..MaxEdits] /\ \A d \in Conns : sent'[d] <= made[d]
       /\ tries' \in [Conns -> 0..MaxAttempts] /\ cursor' \in [Conns -> BOOLEAN]
       /\ play' \in Play /\ spent' \subseteq live
  BY <1>3 DEF IInv, TypeOK, OwedOK
<1> QED BY <1>1, <1>3, <1>8, <1>9, <1>10, <1>11, <1>12, <1>13, <1>14, NetStep DEF AtNetwork

LEMMA PullStep == ASSUME IInv, NEW s \in Sessions, Pull(s) PROVE IInv'
<1> DEFINE c == tab.at[s].conn
           m == made[c]
           x == [tab.at[s] EXCEPT !.run = "push", !.full = FALSE, !.upto = m]
<1>1. /\ tab \in Tab /\ tab.at[s] # Gone /\ tab.at[s] \in Session
      /\ tab.at[s].run = "pull" /\ c \in Conns
  BY IInvFacts, SessionFacts DEF Pull, At
<1>2. tab' = [tab EXCEPT !.at[s].run = "push", !.at[s].full = FALSE, !.at[s].upto = m]
  BY DEF Pull
<1>3. /\ UNCHANGED <<live, row, made, sent, tries, lock>>
      /\ UNCHANGED <<online, visible, play, quiet, spent>>
  BY DEF Pull, env, window
<1>4. m \in 0..MaxEdits BY <1>1 DEF IInv, TypeOK
<1> HIDE DEF m
<1>5. x \in Session BY <1>1, <1>4 DEF Session
<1>6. tab'.at = [tab.at EXCEPT ![s] = x] BY <1>1, <1>2 DEF Tab, Session
<1>7. tab' = [tab EXCEPT !.at = tab'.at] BY <1>1, <1>2 DEF Tab
<1>8. x.conn = c /\ x.run = "push" /\ x.upto = m
  BY <1>1 DEF Session
<1> HIDE DEF x
<1>9. Becomes(tab, tab', s, x, tab.next, tab.debounce, tab.notice, tab.phase)
  BY <1>1, <1>5, <1>6, <1>7, SetBecomes
<1>10. lock[c] = s /\ lock' = [lock EXCEPT ![c] = s]
  <2>1. lock[c] = s BY <1>1 DEF IInv, RunsOK, RunOK, AtNetwork
  <2> QED BY <1>3, <2>1 DEF IInv, TypeOK
<1>11. RunOK(s)'
  <2>1. tab'.at[s] = x BY <1>9 DEF Becomes
  <2>2. m <= made[c] BY <1>4 DEF m
  <2>3. lock'[c] = s BY <1>3, <1>10
  <2> HIDE DEF c
  <2> QED BY <1>3, <1>8, <2>1, <2>2, <2>3 DEF RunOK
<1>12. x.conn = tab.at[s].conn /\ x.run \in Started /\ SessionOK(x)
  BY <1>8 DEF SessionOK, Started, AtNetwork
<1>13. Spaced(tab', online, spent') BY <1>1, <1>3, <1>9, NetSpaced DEF AtNetwork
<1>14. owed' \subseteq owed /\ c \notin owed'
  <2>1. c \in owed => tab.at[s].full BY <1>1 DEF IInv, RunsOK, RunOK
  <2> QED BY <2>1 DEF Pull
<1>15. \A d \in owed' : ~cursor'[d]
  <2> SUFFICES ASSUME NEW d \in owed' PROVE ~cursor'[d] OBVIOUS
  <2>1. d \in owed /\ d # c /\ ~cursor[d] /\ d \in Conns BY <1>14 DEF IInv, OwedOK, TypeOK
  <2>2. cursor' = [cursor EXCEPT ![c] = TRUE] BY DEF Pull
  <2> QED BY <2>1, <2>2 DEF IInv, TypeOK
<1>16. cursor' \in [Conns -> BOOLEAN] BY DEF Pull, IInv, TypeOK
<1>17. /\ sent' \in [Conns -> 0..MaxEdits] /\ \A d \in Conns : sent'[d] <= made[d]
       /\ tries' \in [Conns -> 0..MaxAttempts] /\ play' \in Play /\ spent' \subseteq live
  BY <1>3 DEF IInv, TypeOK
<1> HIDE DEF c
<1>18. /\ tab.at[s] # Gone /\ tab.at[s].run \in AtNetwork \cup {"lock"}
       /\ lock[x.conn] \in {"free", s} /\ lock' = [lock EXCEPT ![x.conn] = s]
       /\ x.run # "answer" /\ owed' \subseteq owed
       /\ UNCHANGED <<live, row, made, online, visible, quiet>>
  BY <1>1, <1>3, <1>8, <1>10, <1>14 DEF AtNetwork
<1> QED BY <1>9, <1>11, <1>12, <1>13, <1>15, <1>16, <1>17, <1>18, NetStep

\* The run of s gives up the lock with a result.
LEMMA AnswerNet ==
  ASSUME IInv, NEW s \in Sessions, tab.at[s] # Gone, tab.at[s].run \in AtNetwork,
         NEW result \in {"ok", "retry", "refused", "blocked"}, Answer(s, result),
         UNCHANGED made
  PROVE  \E x :
           /\ Becomes(tab, tab', s, x, tab.next, tab.debounce, tab.notice, tab.phase)
           /\ x.conn = tab.at[s].conn /\ x.run = "answer" /\ x.run \in Started /\ SessionOK(x)
           /\ RunOK(s)' /\ x.result # "offline"
           /\ tab.at[s].rebound \/ x.result = result
           /\ x.result = "ok" => result = "ok"
           /\ lock[x.conn] \in {"free", s} /\ lock' = [lock EXCEPT ![x.conn] = "free"]
<1> DEFINE c == tab.at[s].conn
           r == IF result # "ok" /\ tab.at[s].rebound THEN "superseded" ELSE result
           x == [tab.at[s] EXCEPT !.run = "answer", !.full = FALSE, !.upto = 0,
                                  !.rebound = FALSE, !.result = r]
<1>1. /\ tab \in Tab /\ tab.at[s] \in Session /\ c \in Conns
  BY IInvFacts, SessionFacts
<1>2. /\ tab' = [tab EXCEPT !.at[s].run = "answer", !.at[s].full = FALSE, !.at[s].upto = 0,
                            !.at[s].rebound = FALSE, !.at[s].result = r]
      /\ lock' = [lock EXCEPT ![c] = "free"]
  BY DEF Answer
<1>3. r \in Results /\ r # "none" /\ r # "offline" /\ (tab.at[s].rebound \/ r = result)
      /\ (r = "ok" => result = "ok")
  BY DEF Results
<1>4. 0 \in 0..MaxEdits BY SchedulerAssumption
<1> HIDE DEF r
<1>5. x \in Session BY <1>1, <1>3, <1>4 DEF Session
<1>6. tab'.at = [tab.at EXCEPT ![s] = x] BY <1>1, <1>2 DEF Tab, Session
<1>7. tab' = [tab EXCEPT !.at = tab'.at] BY <1>1, <1>2 DEF Tab
<1>8. x.conn = c /\ x.run = "answer" /\ x.upto = 0 /\ x.result = r
  BY <1>1 DEF Session
<1> HIDE DEF x
<1>9. Becomes(tab, tab', s, x, tab.next, tab.debounce, tab.notice, tab.phase)
  BY <1>1, <1>5, <1>6, <1>7, SetBecomes
<1>10. lock[c] = s BY DEF IInv, RunsOK, RunOK
<1>11. RunOK(s)'
  <2>1. tab'.at[s] = x BY <1>9 DEF Becomes
  <2>2. 0 <= made[c] BY <1>1, SchedulerAssumption DEF IInv, TypeOK
  <2> HIDE DEF c
  <2> QED BY <1>8, <2>1, <2>2 DEF RunOK, AtNetwork
<1>12. x.run \in Started /\ SessionOK(x)
  BY <1>3, <1>8 DEF SessionOK, Started
<1> QED BY <1>2, <1>3, <1>8, <1>9, <1>10, <1>11, <1>12

LEMMA PushStep == ASSUME IInv, NEW s \in Sessions, Push(s) PROVE IInv'
<1> DEFINE c == tab.at[s].conn
<1>1. /\ tab.at[s] # Gone /\ tab.at[s] \in Session /\ tab.at[s].run = "push" /\ c \in Conns
  BY IInvFacts, SessionFacts DEF Push, At
<1>2. /\ Answer(s, "ok") /\ UNCHANGED <<live, row, made, cursor, owed>>
      /\ UNCHANGED <<online, visible, play, quiet>> /\ spent' = spent \ {c}
  BY DEF Push, env, window
<1>3. tab.at[s].run \in AtNetwork BY <1>1 DEF AtNetwork
<1>4. PICK x :
        /\ Becomes(tab, tab', s, x, tab.next, tab.debounce, tab.notice, tab.phase)
        /\ x.conn = tab.at[s].conn /\ x.run = "answer" /\ x.run \in Started /\ SessionOK(x)
        /\ RunOK(s)' /\ x.result # "offline"
        /\ lock[x.conn] \in {"free", s} /\ lock' = [lock EXCEPT ![x.conn] = "free"]
  BY <1>1, <1>2, <1>3, AnswerNet
<1>5. Spaced(tab', online, spent') BY <1>1, <1>2, <1>3, <1>4, NetSpaced
<1>6. tab.at[s].upto \in 0..MaxEdits /\ tab.at[s].upto <= made[c]
  BY <1>1 DEF Session, IInv, RunsOK, RunOK
<1>7. /\ sent' \in [Conns -> 0..MaxEdits] /\ \A d \in Conns : sent'[d] <= made[d]
  BY <1>1, <1>6 DEF Push, IInv, TypeOK
<1>8. tries' \in [Conns -> 0..MaxAttempts]
  <2>1. tries' = tries \/ tries' = [tries EXCEPT ![c] = 0] BY DEF Push
  <2> QED BY <2>1, CleanTries, IInvFacts
<1>9. /\ \A d \in owed' : ~cursor'[d]
      /\ cursor' \in [Conns -> BOOLEAN] /\ play' \in Play /\ spent' \subseteq live
      /\ owed' \subseteq owed
  BY <1>2 DEF IInv, TypeOK, OwedOK
<1>10. UNCHANGED <<live, row, made, online, visible, quiet>> BY <1>2
<1>11. tab.at[s].run \in AtNetwork \cup {"lock"} BY <1>3
<1> QED BY <1>1, <1>4, <1>5, <1>7, <1>8, <1>9, <1>10, <1>11, NetStep

\* A failure of the run the user watches is one of few; the play stays a play.
LEMMA FailingPlay ==
  ASSUME IInv, NEW s, Failing(s) PROVE play' \in Play
<1>1. CASE play' = play BY <1>1, IInvFacts
<1>2. CASE play.left > 0 /\ play' = [play EXCEPT !.left = @ - 1]
  <2>1. play \in Play /\ play.left \in Nat BY IInvFacts DEF Play
  <2>2. play.left - 1 \in Nat BY <1>2, <2>1
  <2> QED BY <1>2, <2>1, <2>2 DEF Play
<1> QED BY <1>1, <1>2 DEF Failing

LEMMA RunFailsStep ==
  ASSUME IInv, NEW s \in Sessions, NEW result \in {"retry", "refused"}, RunFails(s, result)
  PROVE  IInv'
<1>1. /\ tab.at[s] # Gone /\ tab.at[s].run \in AtNetwork
  BY DEF RunFails, At, AtNetwork
<1>2. /\ Answer(s, result) /\ Failing(s) /\ UNCHANGED <<live, row, made, sent, tries, cursor>>
      /\ UNCHANGED <<online, visible, quiet, spent, owed>>
  BY DEF RunFails, db, window, hist
<1>3. result \in {"ok", "retry", "refused", "blocked"} OBVIOUS
<1>4. PICK x :
        /\ Becomes(tab, tab', s, x, tab.next, tab.debounce, tab.notice, tab.phase)
        /\ x.conn = tab.at[s].conn /\ x.run = "answer" /\ x.run \in Started /\ SessionOK(x)
        /\ RunOK(s)' /\ x.result # "offline"
        /\ lock[x.conn] \in {"free", s} /\ lock' = [lock EXCEPT ![x.conn] = "free"]
  BY <1>1, <1>2, <1>3, AnswerNet
<1>5. Spaced(tab', online, spent') BY <1>1, <1>2, <1>4, NetSpaced
<1>6. play' \in Play BY <1>2, FailingPlay
<1>7. /\ \A d \in owed' : ~cursor'[d]
      /\ sent' \in [Conns -> 0..MaxEdits] /\ \A d \in Conns : sent'[d] <= made[d]
      /\ tries' \in [Conns -> 0..MaxAttempts] /\ cursor' \in [Conns -> BOOLEAN]
      /\ spent' \subseteq live /\ owed' \subseteq owed
  BY <1>2 DEF IInv, TypeOK, OwedOK
<1>8. UNCHANGED <<live, row, made, online, visible, quiet>> BY <1>2
<1>9. tab.at[s].run \in AtNetwork \cup {"lock"} BY <1>1
<1> QED BY <1>1, <1>4, <1>5, <1>6, <1>7, <1>8, <1>9, NetStep

LEMMA PushBlockedStep == ASSUME IInv, NEW s \in Sessions, PushBlocked(s) PROVE IInv'
<1>1. /\ tab.at[s] # Gone /\ tab.at[s].run \in AtNetwork
  BY DEF PushBlocked, At, AtNetwork
<1>2. /\ Answer(s, "blocked") /\ UNCHANGED <<live, row, made, sent, tries, cursor>>
      /\ UNCHANGED <<online, visible, play, quiet, spent, owed>>
  BY DEF PushBlocked, db, env, window, hist
<1>4. PICK x :
        /\ Becomes(tab, tab', s, x, tab.next, tab.debounce, tab.notice, tab.phase)
        /\ x.conn = tab.at[s].conn /\ x.run = "answer" /\ x.run \in Started /\ SessionOK(x)
        /\ RunOK(s)' /\ x.result # "offline"
        /\ lock[x.conn] \in {"free", s} /\ lock' = [lock EXCEPT ![x.conn] = "free"]
  BY <1>1, <1>2, AnswerNet
<1>5. Spaced(tab', online, spent') BY <1>1, <1>2, <1>4, NetSpaced
<1>7. /\ \A d \in owed' : ~cursor'[d]
      /\ sent' \in [Conns -> 0..MaxEdits] /\ \A d \in Conns : sent'[d] <= made[d]
      /\ tries' \in [Conns -> 0..MaxAttempts] /\ cursor' \in [Conns -> BOOLEAN]
      /\ spent' \subseteq live /\ owed' \subseteq owed /\ play' \in Play
  BY <1>2 DEF IInv, TypeOK, OwedOK
<1>8. UNCHANGED <<live, row, made, online, visible, quiet>> BY <1>2
<1>9. tab.at[s].run \in AtNetwork \cup {"lock"} BY <1>1
<1> QED BY <1>1, <1>4, <1>5, <1>7, <1>8, <1>9, NetStep

\* The one step that puts a source among those whose push failed.
LEMMA PushFailsStep == ASSUME IInv, NEW s \in Sessions, PushFails(s) PROVE IInv'
<1> DEFINE c == tab.at[s].conn
<1>1. /\ tab \in Tab /\ tab.at[s] # Gone /\ tab.at[s].run = "push" /\ tab.at[s].run \in AtNetwork
      /\ c \in Conns /\ s # NoSession
  BY IInvFacts, SessionFacts DEF PushFails, At, AtNetwork
<1>2. /\ Answer(s, "retry") /\ Failing(s) /\ UNCHANGED <<live, row, made, sent, cursor>>
      /\ UNCHANGED <<online, visible, quiet, owed>>
  BY DEF PushFails, window
<1>4. PICK x :
        /\ Becomes(tab, tab', s, x, tab.next, tab.debounce, tab.notice, tab.phase)
        /\ x.conn = tab.at[s].conn /\ x.run = "answer" /\ x.run \in Started /\ SessionOK(x)
        /\ RunOK(s)' /\ x.result # "offline"
        /\ tab.at[s].rebound \/ x.result = "retry"
        /\ lock[x.conn] \in {"free", s} /\ lock' = [lock EXCEPT ![x.conn] = "free"]
  BY <1>1, <1>2, AnswerNet
<1>5. Spaced(tab', online, spent')
  <2>1. CASE tab.bound = s /\ ~tab.at[s].rebound
    <3>1. spent = {} BY <1>1, <2>1, IInvFacts DEF Sound, Spaced
    <3>2. spent' = {c} BY <2>1, <3>1 DEF PushFails, IsCurrent
    <3> QED BY <1>1, <1>4, <2>1, <3>2 DEF Spaced, Becomes
  <2>2. CASE ~(tab.bound = s /\ ~tab.at[s].rebound)
    <3>1. spent' = spent BY <2>2 DEF PushFails, IsCurrent
    <3> QED BY <1>1, <1>4, <3>1, NetSpaced
  <2> QED BY <2>1, <2>2
<1>6. play' \in Play BY <1>2, FailingPlay
<1>7. /\ \A d \in owed' : ~cursor'[d]
      /\ sent' \in [Conns -> 0..MaxEdits] /\ \A d \in Conns : sent'[d] <= made[d]
      /\ cursor' \in [Conns -> BOOLEAN] /\ owed' \subseteq owed
  BY <1>2 DEF IInv, TypeOK, OwedOK
<1>8. spent' \subseteq live BY DEF PushFails, IInv
<1>9. tries' \in [Conns -> 0..MaxAttempts]
  <2>1. tries' = [tries EXCEPT ![c] = @ + 1] /\ ~(tries[c] >= MaxAttempts)
    BY DEF PushFails, Out
  <2>2. tries[c] + 1 \in 0..MaxAttempts
    BY <1>1, <2>1, IInvFacts, SchedulerAssumption
  <2> QED BY <2>1, <2>2, IInvFacts
<1>10. UNCHANGED <<live, row, made, online, visible, quiet>> BY <1>2
<1>11. tab.at[s].run \in AtNetwork \cup {"lock"} BY <1>1
<1> QED BY <1>1, <1>4, <1>5, <1>6, <1>7, <1>8, <1>9, <1>10, <1>11, NetStep

LEMMA TakeLockStep == ASSUME IInv, NEW s \in Sessions, TakeLock(s) PROVE IInv'
<1> DEFINE c == tab.at[s].conn
<1>1. /\ tab \in Tab /\ tab.at[s] # Gone /\ tab.at[s] \in Session /\ SessionOK(tab.at[s])
      /\ tab.at[s].run = "lock" /\ c \in Conns /\ s # NoSession /\ lock[c] = "free"
      /\ tab.at[s].upto = 0
  BY IInvFacts, SessionFacts DEF TakeLock, Busy, SessionOK
<1>2. /\ UNCHANGED <<live, row, made, sent, tries, cursor, owed>>
      /\ UNCHANGED <<online, visible, play, quiet, spent>>
  BY DEF TakeLock, db, env, window, hist
<1>3. /\ \A d \in owed' : ~cursor'[d]
      /\ sent' \in [Conns -> 0..MaxEdits] /\ \A d \in Conns : sent'[d] <= made[d]
      /\ tries' \in [Conns -> 0..MaxAttempts] /\ cursor' \in [Conns -> BOOLEAN]
      /\ spent' \subseteq live /\ owed' \subseteq owed /\ play' \in Play
  BY <1>2 DEF IInv, TypeOK, OwedOK
<1>4. tab.at[s].run \in AtNetwork \cup {"lock"} BY <1>1
<1>5. 0 <= made[c] BY <1>1, SchedulerAssumption DEF IInv, TypeOK
<1>6. Spaced(tab, online, spent) /\ online \in BOOLEAN BY IInvFacts DEF Sound
<1>7. CASE tab.bound = s /\ online
  <2> DEFINE x == [tab.at[s] EXCEPT !.run = "resume"]
  <2>1. tab' = [tab EXCEPT !.at[s].run = "resume"] /\ lock' = [lock EXCEPT ![c] = s]
    BY <1>7 DEF TakeLock, IsCurrent
  <2>2. x \in Session BY <1>1 DEF Session
  <2>3. tab'.at = [tab.at EXCEPT ![s] = x] BY <1>1, <2>1 DEF Tab, Session
  <2>4. tab' = [tab EXCEPT !.at = tab'.at] BY <1>1, <2>1 DEF Tab
  <2>5. x.conn = c /\ x.run = "resume" /\ x.upto = 0 BY <1>1 DEF Session
  <2> HIDE DEF x
  <2>6. Becomes(tab, tab', s, x, tab.next, tab.debounce, tab.notice, tab.phase)
    BY <1>1, <2>2, <2>3, <2>4, SetBecomes
  <2>7. lock'[c] = s BY <1>1, <2>1 DEF IInv, TypeOK
  <2>8. RunOK(s)'
    <3>1. tab'.at[s] = x BY <2>6 DEF Becomes
    <3> HIDE DEF c
    <3> QED BY <1>2, <1>5, <2>5, <2>7, <3>1 DEF RunOK
  <2>9. x.run \in Started /\ SessionOK(x) BY <2>5 DEF SessionOK, Started, AtNetwork
  <2>10. spent' = {} BY <1>1, <1>2, <1>6, <1>7 DEF Spaced
  <2>11. Spaced(tab', online, spent') BY <2>10 DEF Spaced
  <2>12. /\ lock[x.conn] \in {"free", s} /\ lock' = [lock EXCEPT ![x.conn] = s]
         /\ x.run # "answer" /\ UNCHANGED <<live, row, made, online, visible, quiet>>
    BY <1>1, <1>2, <2>1, <2>5
  <2> QED BY <1>1, <1>3, <1>4, <2>5, <2>6, <2>8, <2>9, <2>11, <2>12, NetStep
<1>8. CASE tab.bound = s /\ ~online
  <2> DEFINE x == [tab.at[s] EXCEPT !.run = "answer", !.result = "offline"]
  <2>1. /\ tab' = [tab EXCEPT !.at[s].run = "answer", !.at[s].result = "offline"]
        /\ lock' = lock
    BY <1>8 DEF TakeLock, IsCurrent
  <2>2. x \in Session BY <1>1 DEF Session, Results
  <2>3. tab'.at = [tab.at EXCEPT ![s] = x] BY <1>1, <2>1 DEF Tab, Session
  <2>4. tab' = [tab EXCEPT !.at = tab'.at] BY <1>1, <2>1 DEF Tab
  <2>5. x.conn = c /\ x.run = "answer" /\ x.upto = 0 /\ x.result = "offline"
    BY <1>1 DEF Session
  <2> HIDE DEF x
  <2>6. Becomes(tab, tab', s, x, tab.next, tab.debounce, tab.notice, tab.phase)
    BY <1>1, <2>2, <2>3, <2>4, SetBecomes
  <2>8. RunOK(s)'
    <3>1. tab'.at[s] = x BY <2>6 DEF Becomes
    <3> HIDE DEF c
    <3> QED BY <1>2, <1>5, <2>5, <3>1 DEF RunOK, AtNetwork
  <2>9. x.run \in Started /\ SessionOK(x) BY <2>5 DEF SessionOK, Started
  <2>11. Spaced(tab', online, spent')
    BY <1>1, <1>2, <1>6, <1>8, <2>5, <2>6 DEF Spaced, Becomes
  <2>12. /\ lock[x.conn] \in {"free", s} /\ lock' = [lock EXCEPT ![x.conn] = "free"]
         /\ UNCHANGED <<live, row, made, online, visible, quiet>>
    BY <1>1, <1>2, <2>1, <2>5 DEF IInv, TypeOK
  <2> QED BY <1>1, <1>3, <1>4, <1>8, <2>5, <2>6, <2>8, <2>9, <2>11, <2>12, NetStep
<1>9. CASE tab.bound # s
  <2>1. tab' = Tidy(Finish(tab, s)) /\ lock' = lock BY <1>9 DEF TakeLock, IsCurrent
  <2>2. /\ TabOK(tab') /\ TimerOK(tab') /\ Calm(tab, tab')
        /\ Sound(tab', online, visible, spent)
    BY <1>1, <1>9, <2>1, EndsElsewhere DEF AtNetwork
  <2> QED BY <1>2, <2>1, <2>2, IInvFacts, TabStep
<1> QED BY <1>6, <1>7, <1>8, <1>9

LEMMA RescanStep == ASSUME IInv, NEW s \in Sessions, Rescan(s) PROVE IInv'
<1> DEFINE c == tab.at[s].conn
           x == [tab.at[s] EXCEPT !.rescan = FALSE, !.blocked = "no", !.stuck = FALSE]
           t == [tab EXCEPT !.at[s].rescan = FALSE, !.at[s].blocked = "no",
                            !.at[s].stuck = FALSE]
           u == Tidy(Run(t, s, "again"))
<1>1. /\ tab \in Tab /\ tab.at[s] # Gone /\ tab.at[s] \in Session /\ c \in Conns
      /\ s # NoSession
  BY IInvFacts, SessionFacts DEF Rescan
<1>2. tab' = u /\ lock[c] = "free" BY DEF Rescan, MayClear
<1>3. x \in Session BY <1>1 DEF Session
<1>4. t.at = [tab.at EXCEPT ![s] = x] BY <1>1 DEF Tab, Session
<1>5. t = [tab EXCEPT !.at = t.at] BY <1>1 DEF Tab
<1>6. /\ x.conn = tab.at[s].conn /\ x.run = tab.at[s].run /\ x.upto = tab.at[s].upto
      /\ x.full = tab.at[s].full /\ x.result = tab.at[s].result
  BY <1>1 DEF Session
<1> HIDE DEF x, t
<1>7. Becomes(tab, t, s, x, tab.next, tab.debounce, tab.notice, tab.phase)
  BY <1>1, <1>3, <1>4, <1>5, SetBecomes
<1>8. spent' = spent \ {x.conn} \/ (spent' = spent /\ (tab.bound = s => spent = {}))
  <2>1. CASE c \in live BY <1>6, <2>1 DEF Rescan
  <2>2. CASE c \notin live
    <3>1. spent' = spent BY <2>2 DEF Rescan
    <3>2. Spaced(tab, online, spent) /\ spent \subseteq live BY DEF IInv
    <3>3. tab.bound = s => spent = {} BY <2>2, <3>2 DEF Spaced
    <3> QED BY <3>1, <3>3
  <2> QED BY <2>1, <2>2
<1>9. TabOK(u) /\ TimerOK(u) /\ Calm(tab, u) /\ Sound(u, online, visible, spent')
  <2> DEFINE f == spent'
  <2>1. f = spent \ {x.conn} \/ (f = spent /\ (tab.bound = s => spent = {})) BY <1>8
  <2> HIDE DEF f
  <2>2. TabOK(u) /\ TimerOK(u) /\ Calm(tab, u) /\ Sound(u, online, visible, f)
    BY <1>1, <1>3, <1>6, <1>7, <2>1, AskedTab
  <2> QED BY <2>2 DEF f
<1>10. /\ UNCHANGED <<live, row, made, sent, lock>>
       /\ UNCHANGED <<online, visible, play, quiet>>
  BY DEF Rescan, env, window
<1>11. spent' \subseteq spent BY <1>8
<1>12. tries' \in [Conns -> 0..MaxAttempts]
  <2>1. tries' = tries \/ tries' = [tries EXCEPT ![c] = 0] BY DEF Rescan
  <2> QED BY <2>1, CleanTries, IInvFacts
<1>13. \/ owed' = owed /\ cursor' = cursor
       \/ owed' = owed \cup {c} /\ cursor' = [cursor EXCEPT ![c] = FALSE]
  BY DEF Rescan
<1>14. OwedOK' /\ owed' \subseteq Conns /\ cursor' \in [Conns -> BOOLEAN]
  <2>1. CASE owed' = owed /\ cursor' = cursor
    BY <1>10, <2>1 DEF IInv, OwedOK, TypeOK
  <2>2. CASE owed' = owed \cup {c} /\ cursor' = [cursor EXCEPT ![c] = FALSE]
    <3>1. cursor \in [Conns -> BOOLEAN] /\ owed \subseteq Conns BY DEF IInv, TypeOK
    <3>2. cursor' \in [Conns -> BOOLEAN] /\ owed' \subseteq Conns BY <1>1, <2>2, <3>1
    <3>3. ASSUME NEW d \in owed' PROVE ~cursor'[d] /\ lock'[d] # "round"
      <4>1. CASE d = c BY <1>1, <1>2, <1>10, <2>2, <3>1, <4>1
      <4>2. CASE d # c
        <5>1. d \in owed /\ ~cursor[d] /\ lock[d] # "round" BY <2>2, <3>3, <4>2 DEF IInv, OwedOK
        <5> HIDE DEF c
        <5> QED BY <1>10, <2>2, <3>1, <4>2, <5>1
      <4> QED BY <4>1, <4>2
    <3> QED BY <3>2, <3>3 DEF OwedOK
  <2> QED BY <1>13, <2>1, <2>2
<1>15. \A d \in owed' \ owed : lock[d] = "free" BY <1>2, <1>13
<1> QED BY <1>2, <1>9, <1>10, <1>11, <1>12, <1>14, <1>15, IInvFacts, CalmStep

-----------------------------------------------------------------------------
(* The steps that follow the source shown, and the pause.                    *)

\* t is tab, but for what is shown and what is halted.
Shows(t) ==
  /\ t \in Tab /\ t.bound = tab.bound /\ t.at = tab.at /\ t.paused = tab.paused
  /\ t.next = tab.next /\ t.debounce = tab.debounce /\ t.notice = tab.notice
  /\ t.phase = tab.phase

LEMMA ShowsOK ==
  ASSUME IInv, NEW t, Shows(t)
  PROVE  /\ Ready(t) /\ Calm(tab, t)
         /\ Unused(EndSession(tab)) # {} => Unused(EndSession(t)) # {}
<1>1. TabOK(tab) /\ TimerOK(tab) /\ WellFormed(tab) BY IInvFacts
<1>2. WellFormed(t) BY <1>1 DEF WellFormed, Shows
<1>3. Ready(t) BY <1>1, <1>2 DEF Ready, Shows, TimerOK, TabOK, BoundOK
<1>4. Calm(tab, t) BY DEF Calm, Shows
<1>5. Unused(EndSession(t)) = Unused(EndSession(tab)) BY <1>1, <1>2, UnusedSame DEF Shows
<1> QED BY <1>3, <1>4, <1>5

LEMMA FollowStep ==
  ASSUME IInv, NEW t, Shows(t), tab' = Follow(t, t.shown),
         Source(t) = NoConn \/ Stays(t) \/ Unused(EndSession(tab)) # {},
         spent' \subseteq spent, IF Stays(t) THEN spent' = spent ELSE spent' = {},
         UNCHANGED <<live, row, made, sent, tries, cursor, lock, owed, online, visible>>,
         play' \in Play, quiet' \in [Conns -> Pauses]
  PROVE  IInv'
<1> DEFINE f == spent'
           u == Follow(t, t.shown)
<1>1. online \in BOOLEAN /\ visible \in BOOLEAN /\ Sound(tab, online, visible, spent)
  BY IInvFacts
<1>2. Ready(t) /\ Calm(tab, t) /\ (Unused(EndSession(tab)) # {} => Unused(EndSession(t)) # {})
  BY ShowsOK
<1>3. IF Stays(t) THEN f = spent ELSE f = {} OBVIOUS
<1> HIDE DEF f, u
<1>4. Source(t) = NoConn \/ Stays(t) \/ Unused(EndSession(t)) # {} BY <1>2
<1>5. Stays(t) => Sound(t, online, visible, f)
  <2>1. Sound(t, online, visible, spent)
    BY <1>1 DEF Shows, Sound, Awake, Recalled, Spaced
  <2> QED BY <1>3, <2>1
<1>6. Followed(t, u) /\ Sound(u, online, visible, f)
  <2>1. ~Stays(t) => f = {} BY <1>3
  <2> QED BY <1>1, <1>2, <1>4, <1>5, <2>1, FollowOK DEF u
<1>7. Calm(tab, u) BY <1>2, <1>6, CalmTrans DEF Followed
<1>8. tab' = u /\ Sound(tab', online', visible', spent') BY <1>6 DEF u, f
<1> QED BY <1>1, <1>6, <1>7, <1>8, IInvFacts, TabStep DEF Followed

LEMMA RowHeardStep == ASSUME IInv, RowHeard PROVE IInv'
<1> DEFINE t == [tab EXCEPT !.shown = row]
<1>1. /\ tab \in Tab /\ TabOK(tab) /\ Spaced(tab, online, spent) /\ row \in Conns \cup {NoConn}
  BY IInvFacts DEF Sound, TypeOK
<1>2. Shows(t) /\ t.shown = row BY <1>1 DEF Tab, Shows
<1>3. /\ tab' = Follow(t, row) /\ tab.shown # row /\ Unused(EndSession(tab)) # {}
      /\ quiet' = [c \in Conns |-> IF c = row THEN quiet[c] ELSE "no"]
      /\ spent' = spent \cap {row}
  BY DEF RowHeard
<1>4. /\ UNCHANGED <<live, row, made, sent, tries, cursor, lock, owed, online, visible>>
      /\ UNCHANGED play
  BY DEF RowHeard, db, env, window
<1> HIDE DEF t
<1>5. ~Stays(t)
  <2>1. tab.bound # NoSession => tab.at[tab.bound].conn = tab.shown /\ tab.at[tab.bound].conn # NoConn
    BY <1>1, BoundFacts DEF TabOK, BoundOK
  <2> QED BY <1>2, <1>3, <2>1 DEF Stays, Source, Shows
<1>6. spent' = {} BY <1>1, <1>3 DEF Spaced, TabOK, BoundOK
<1>7. tab' = Follow(t, t.shown) BY <1>2, <1>3
<1>8. play' \in Play /\ quiet' \in [Conns -> Pauses] BY <1>3, <1>4, IInvFacts DEF Pauses
<1>9. spent' \subseteq spent BY <1>6
<1> QED BY <1>2, <1>3, <1>4, <1>5, <1>6, <1>7, <1>8, <1>9, FollowStep

LEMMA ReleaseStep == ASSUME IInv, NEW c \in Conns, Release(c) PROVE IInv'
<1> DEFINE t == [tab EXCEPT !.halted = @ \ {c}]
<1>1. tab \in Tab /\ TabOK(tab) /\ Spaced(tab, online, spent)
  BY IInvFacts DEF Sound
<1>2. Shows(t) /\ t.shown = tab.shown /\ t.halted = tab.halted \ {c}
  BY <1>1 DEF Tab, Shows
<1>3. tab' = Follow(t, tab.shown) /\ Unused(EndSession(tab)) # {} BY DEF Release
<1>4. /\ UNCHANGED <<live, row, made, sent, tries, cursor, lock, owed, online, visible>>
      /\ UNCHANGED <<play, quiet, spent>>
  BY DEF Release, db, env, window, hist
<1> HIDE DEF t
<1>5. Stays(t) \/ spent = {}
  <2>1. tab.bound # NoSession => Stays(t)
    BY <1>1, <1>2 DEF Stays, Source, Shows, TabOK, BoundOK
  <2> QED BY <1>1, <2>1 DEF Spaced
<1>6. tab' = Follow(t, t.shown) BY <1>2, <1>3
<1>7. play' \in Play /\ quiet' \in [Conns -> Pauses] /\ spent' \subseteq spent BY <1>4, IInvFacts
<1>8. IF Stays(t) THEN spent' = spent ELSE spent' = {} BY <1>4, <1>5
<1> QED BY <1>2, <1>3, <1>4, <1>6, <1>7, <1>8, FollowStep

LEMMA HaltStep == ASSUME IInv, NEW c, Halt(c), c \in Conns, play' \in Play PROVE IInv'
<1> DEFINE t == [tab EXCEPT !.halted = @ \cup {c}]
<1>1. tab \in Tab /\ TabOK(tab) /\ Spaced(tab, online, spent) /\ c # NoConn
  BY IInvFacts, SchedulerAssumption DEF Sound
<1>2. Shows(t) /\ t.shown = tab.shown /\ t.halted = tab.halted \cup {c}
  BY <1>1 DEF Tab, Shows
<1>3. tab' = Follow(t, tab.shown) /\ tab.shown = c /\ spent' = spent \ {c} BY DEF Halt
<1>4. /\ UNCHANGED <<live, row, made, sent, tries, cursor, lock, owed, online, visible>>
      /\ quiet' = [quiet EXCEPT ![c] = IF @ = "paused" THEN "cancelled" ELSE @]
  BY DEF Halt, db, window
<1> HIDE DEF t
<1>5. Source(t) = NoConn BY <1>2, <1>3 DEF Source
<1>6. ~Stays(t)
  <2>1. tab.bound # NoSession => tab.at[tab.bound].conn # NoConn
    BY <1>1, BoundFacts DEF TabOK
  <2> QED BY <1>2, <1>5, <2>1 DEF Stays, Shows
<1>7. spent' = {} BY <1>1, <1>3 DEF Spaced, TabOK, BoundOK
<1>8. tab' = Follow(t, t.shown) BY <1>2, <1>3
<1>9. quiet' \in [Conns -> Pauses] /\ spent' \subseteq spent BY <1>4, <1>7, IInvFacts DEF Pauses
<1> QED BY <1>2, <1>4, <1>5, <1>6, <1>7, <1>8, <1>9, FollowStep

LEMMA PauseStep == ASSUME IInv, Pause, play' \in Play PROVE IInv'
<1>1. /\ TabOK(tab) /\ TimerOK(tab) /\ online \in BOOLEAN /\ visible \in BOOLEAN
      /\ Spaced(tab, online, spent) /\ tab.bound # NoSession
  BY IInvFacts DEF Sound, Pause, Bound
<1>2. /\ tab' = Paused(tab) /\ Unused(EndSession(tab)) # {}
      /\ quiet' = [quiet EXCEPT ![tab.at[tab.bound].conn] = "paused"]
      /\ spent' = spent \ {tab.at[tab.bound].conn}
      /\ UNCHANGED <<live, row, made, sent, tries, cursor, lock, owed, online, visible>>
  BY DEF Pause, Mine, db, window
<1>3. /\ TabOK(tab') /\ TimerOK(tab') /\ Calm(tab, tab') /\ Sound(tab', online, visible, {})
  BY <1>1, <1>2, PausedOK
<1>4. spent' = {} BY <1>1, <1>2 DEF Spaced
<1>5. quiet' \in [Conns -> Pauses] BY <1>2, IInvFacts DEF Pauses
<1>6. Sound(tab', online', visible', spent') BY <1>2, <1>3, <1>4
<1>7. spent' \subseteq spent BY <1>4
<1>8. tries' \in [Conns -> 0..MaxAttempts] /\ online' \in BOOLEAN /\ visible' \in BOOLEAN
  BY <1>1, <1>2, IInvFacts
<1> QED BY <1>2, <1>3, <1>5, <1>6, <1>7, <1>8, TabStep

-----------------------------------------------------------------------------
(* The steps of the device, the network, and the other tabs.                 *)

\* The tab is as it was, and no run at the network is disturbed.
LEMMA OutsideStep ==
  ASSUME IInv, UNCHANGED <<tab, live, row, online, quiet, spent>>,
         visible' \in {visible, FALSE}, play' \in Play,
         made' \in [Conns -> 0..MaxEdits], \A c \in Conns : made[c] <= made'[c],
         sent' \in [Conns -> 0..MaxEdits], \A c \in Conns : sent'[c] <= made'[c],
         tries' \in [Conns -> 0..MaxAttempts], cursor' \in [Conns -> BOOLEAN],
         lock' \in [Conns -> {"free", "round", "scan"} \cup Sessions],
         \A c \in Conns : lock[c] \in Sessions => lock'[c] = lock[c],
         owed' \subseteq owed, OwedOK'
  PROVE  IInv'
<1>1. TypeOK' BY DEF IInv, TypeOK
<1>2. RunsOK'
  <2> SUFFICES ASSUME NEW s \in Sessions, tab.at[s] # Gone PROVE RunOK(s)' BY DEF RunsOK
  <2>1. RunOK(s) /\ tab.at[s].conn \in Conns /\ tab.at[s].upto \in Nat
    BY SessionFacts, SchedulerAssumption DEF IInv, RunsOK, TabOK, Session
  <2>2. made[tab.at[s].conn] \in Nat /\ made'[tab.at[s].conn] \in Nat
    BY <2>1, SchedulerAssumption DEF IInv, TypeOK
  <2>3. tab.at[s].upto <= made'[tab.at[s].conn] BY <2>1, <2>2 DEF RunOK
  <2> QED BY <2>1, <2>3 DEF RunOK
<1>3. Awake(tab, online, visible)' BY DEF IInv, Awake
<1>4. Recalled(tab, online)' /\ Spaced(tab, online, spent)' /\ (spent \subseteq live)'
  BY DEF IInv
<1>5. TabOK(tab)' /\ TimerOK(tab)' BY DEF IInv
<1> QED BY <1>1, <1>2, <1>3, <1>4, <1>5 DEF IInv

LEMMA EditStep == ASSUME IInv, NEW c \in Conns, Edit(c) PROVE IInv'
<1>1. /\ UNCHANGED <<tab, live, row, online, visible, play, quiet, spent>>
      /\ UNCHANGED <<sent, tries, cursor, lock, owed>>
      /\ made' = [made EXCEPT ![c] = @ + 1] /\ made[c] < play.edits
  BY DEF Edit, env, window, hist
<1>2. /\ made \in [Conns -> 0..MaxEdits] /\ sent \in [Conns -> 0..MaxEdits]
      /\ \A d \in Conns : sent[d] <= made[d]
      /\ play.edits \in 0..MaxEdits /\ MaxEdits \in Nat
  BY SchedulerAssumption DEF IInv, TypeOK, Play
<1>3. made' \in [Conns -> 0..MaxEdits] /\ \A d \in Conns : made[d] <= made'[d]
  BY <1>1, <1>2
<1>4. \A d \in Conns : sent'[d] <= made'[d]
  <2> TAKE d \in Conns
  <2>1. sent[d] \in Nat /\ made[d] \in Nat /\ made'[d] \in Nat BY <1>2, <1>3
  <2> QED BY <1>1, <1>2, <1>3, <2>1
<1>5. /\ visible' \in {visible, FALSE} /\ play' \in Play /\ sent' \in [Conns -> 0..MaxEdits]
      /\ tries' \in [Conns -> 0..MaxAttempts] /\ cursor' \in [Conns -> BOOLEAN]
      /\ lock' \in [Conns -> {"free", "round", "scan"} \cup Sessions]
      /\ \A d \in Conns : lock[d] \in Sessions => lock'[d] = lock[d]
      /\ owed' \subseteq owed
  BY <1>1 DEF IInv, TypeOK
<1>6. OwedOK' BY <1>1 DEF IInv, OwedOK
<1> QED BY <1>1, <1>3, <1>4, <1>5, <1>6, OutsideStep

LEMMA HideStep == ASSUME IInv, Hide, play' \in Play PROVE IInv'
<1>1. /\ UNCHANGED <<tab, live, row, online, quiet, spent>> /\ visible' = FALSE
      /\ UNCHANGED <<made, sent, tries, cursor, lock, owed>>
  BY DEF Hide, db, hist
<1>2. \A c \in Conns : made[c] <= made'[c] BY <1>1, SchedulerAssumption DEF IInv, TypeOK
<1>3. /\ made' \in [Conns -> 0..MaxEdits] /\ sent' \in [Conns -> 0..MaxEdits]
      /\ \A c \in Conns : sent'[c] <= made'[c]
      /\ tries' \in [Conns -> 0..MaxAttempts] /\ cursor' \in [Conns -> BOOLEAN]
      /\ lock' \in [Conns -> {"free", "round", "scan"} \cup Sessions]
      /\ \A d \in Conns : lock[d] \in Sessions => lock'[d] = lock[d]
      /\ owed' \subseteq owed
  BY <1>1 DEF IInv, TypeOK
<1>4. OwedOK' BY <1>1 DEF IInv, OwedOK
<1> QED BY <1>1, <1>2, <1>3, <1>4, OutsideStep

LEMMA OtherTabSyncsStep ==
  ASSUME IInv, NEW c \in Conns, OtherTabSyncs(c), play' \in Play PROVE IInv'
<1>1. /\ UNCHANGED <<tab, live, row, online, visible, quiet, spent>>
      /\ UNCHANGED <<made, sent, tries, cursor, owed>>
      /\ lock[c] = "free" /\ lock' = [lock EXCEPT ![c] = IF cursor[c] THEN "round" ELSE "scan"]
  BY DEF OtherTabSyncs, db, window, hist
<1>2. \A d \in Conns : made[d] <= made'[d] BY <1>1, SchedulerAssumption DEF IInv, TypeOK
<1>3. /\ made' \in [Conns -> 0..MaxEdits] /\ sent' \in [Conns -> 0..MaxEdits]
      /\ \A d \in Conns : sent'[d] <= made'[d]
      /\ tries' \in [Conns -> 0..MaxAttempts] /\ cursor' \in [Conns -> BOOLEAN]
      /\ owed' \subseteq owed /\ visible' \in {visible, FALSE}
  BY <1>1 DEF IInv, TypeOK
<1>4. /\ lock' \in [Conns -> {"free", "round", "scan"} \cup Sessions]
      /\ \A d \in Conns : lock[d] \in Sessions => lock'[d] = lock[d]
  BY <1>1, SchedulerAssumption DEF IInv, TypeOK
<1>5. OwedOK'
  <2> SUFFICES ASSUME NEW d \in owed PROVE ~cursor[d] /\ lock'[d] # "round"
    BY <1>1 DEF OwedOK
  <2>1. d \in Conns /\ ~cursor[d] /\ lock[d] # "round" BY DEF IInv, OwedOK, TypeOK
  <2> QED BY <1>1, <2>1 DEF IInv, TypeOK
<1> QED BY <1>1, <1>2, <1>3, <1>4, <1>5, OutsideStep

LEMMA OtherTabEndsStep ==
  ASSUME IInv, NEW c \in Conns, OtherTabEnds(c) PROVE IInv'
<1>1. /\ UNCHANGED <<tab, live, row, made, online, visible, play, quiet, spent>>
      /\ lock[c] \in {"round", "scan"} /\ lock' = [lock EXCEPT ![c] = "free"]
  BY DEF OtherTabEnds, env, window
<1>2. /\ made \in [Conns -> 0..MaxEdits] /\ sent \in [Conns -> 0..MaxEdits]
      /\ \A d \in Conns : sent[d] <= made[d] /\ made[d] <= made[d]
      /\ cursor \in [Conns -> BOOLEAN] /\ owed \subseteq Conns
      /\ lock \in [Conns -> {"free", "round", "scan"} \cup Sessions]
  BY SchedulerAssumption DEF IInv, TypeOK
<1>3. sent' = sent \/ sent' = [sent EXCEPT ![c] = made[c]] BY DEF OtherTabEnds
<1>4. sent' \in [Conns -> 0..MaxEdits] /\ \A d \in Conns : sent'[d] <= made[d]
  BY <1>2, <1>3
<1>5. tries' \in [Conns -> 0..MaxAttempts]
  <2>1. tries' = tries \/ tries' = [tries EXCEPT ![c] = 0] BY DEF OtherTabEnds
  <2> QED BY <2>1, CleanTries, IInvFacts
<1>6. \/ cursor' = cursor /\ owed' = owed
      \/ /\ cursor' = [cursor EXCEPT ![c] = TRUE]
         /\ owed' = IF lock[c] = "scan" THEN owed \ {c} ELSE owed
  BY DEF OtherTabEnds
<1>7. cursor' \in [Conns -> BOOLEAN] /\ owed' \subseteq owed BY <1>2, <1>6
<1>8. /\ lock' \in [Conns -> {"free", "round", "scan"} \cup Sessions]
      /\ \A d \in Conns : lock[d] \in Sessions => lock'[d] = lock[d]
  BY <1>1, <1>2, SchedulerAssumption
<1>9. OwedOK'
  <2> SUFFICES ASSUME NEW d \in owed' PROVE ~cursor'[d] /\ lock'[d] # "round"
    BY DEF OwedOK
  <2>1. d \in Conns /\ d \in owed /\ ~cursor[d] /\ lock[d] # "round"
    BY <1>2, <1>7 DEF IInv, OwedOK
  <2>2. lock'[d] # "round" BY <1>1, <1>2, <2>1
  <2>3. cursor' = cursor \/ (cursor' = [cursor EXCEPT ![c] = TRUE] /\ d # c)
    BY <1>1, <1>6, <2>1
  <2> QED BY <1>2, <2>1, <2>2, <2>3
<1>10. visible' \in {visible, FALSE} /\ play' \in Play BY <1>1, IInvFacts
<1>11. \A d \in Conns : made[d] <= made'[d] /\ sent'[d] <= made'[d] BY <1>1, <1>2, <1>4
<1> QED BY <1>1, <1>2, <1>4, <1>5, <1>7, <1>8, <1>9, <1>10, <1>11, OutsideStep

LEMMA GoOfflineStep == ASSUME IInv, GoOffline, play' \in Play PROVE IInv'
<1>1. /\ tab \in Tab /\ TabOK(tab) /\ TimerOK(tab) /\ Sound(tab, online, visible, spent)
      /\ visible \in BOOLEAN
  BY IInvFacts
<1>2. /\ UNCHANGED <<live, row, made, sent, tries, cursor, lock, owed>>
      /\ UNCHANGED <<visible, quiet, spent>> /\ online /\ online' = FALSE
  BY DEF GoOffline, db, hist
<1>3. tries' \in [Conns -> 0..MaxAttempts] /\ online' \in BOOLEAN /\ visible' \in BOOLEAN
  BY <1>1, <1>2, IInvFacts
<1>4. quiet' \in [Conns -> Pauses] /\ spent' \subseteq spent BY <1>2, IInvFacts
<1>5. ASSUME TabOK(tab'), TimerOK(tab'), Calm(tab, tab'),
             Sound(tab', online', visible', spent')
      PROVE  IInv'
  BY <1>2, <1>3, <1>4, <1>5, TabStep
<1>6. CASE tab' = tab
  <2>1. Awake(tab, FALSE, visible) /\ Recalled(tab, FALSE)
    BY <1>1 DEF Sound, Awake, Recalled
  <2>2. Spaced(tab, FALSE, spent) BY <1>1, <1>2 DEF Sound, Spaced
  <2>3. Sound(tab', online', visible', spent') BY <1>2, <1>6, <2>1, <2>2 DEF Sound
  <2> QED BY <1>1, <1>5, <1>6, <2>3, CalmSelf
<1>7. CASE /\ Bound /\ ~Busy(tab, tab.bound) /\ tab.paused # Mine.conn
           /\ tab' = [tab EXCEPT !.next = "none", !.phase = "offline"]
  <2> DEFINE s == tab.bound
  <2>1. s \in Sessions /\ tab.at[s] # Gone BY <1>1, <1>7, BoundFacts DEF Bound, TabOK
  <2>2. tab.at[s].run = "none" /\ tab.paused # tab.at[s].conn
    BY <1>7, <2>1 DEF Busy, Mine
  <2>3. tab' \in Tab BY <1>1, <1>7 DEF Tab
  <2>4. /\ tab'.bound = s /\ tab'.at = tab.at /\ tab'.shown = tab.shown
        /\ tab'.halted = tab.halted /\ tab'.paused = tab.paused /\ tab'.next = "none"
        /\ tab'.phase = "offline" /\ tab'.debounce = tab.debounce /\ tab'.notice = tab.notice
    BY <1>1, <1>7 DEF Tab
  <2>5. TabOK(tab')
    BY <1>1, <2>2, <2>3, <2>4 DEF TabOK, WellFormed, BoundOK
  <2>6. TimerOK(tab') BY <2>4 DEF TimerOK
  <2>7. Calm(tab, tab') BY <2>4 DEF Calm
  <2>8. Awake(tab', FALSE, visible) /\ Recalled(tab', FALSE)
    BY <2>4 DEF Awake, Recalled
  <2>9. Spaced(tab', FALSE, spent) BY <1>1, <2>2, <2>4 DEF Sound, Spaced
  <2>10. Sound(tab', online', visible', spent') BY <1>2, <2>8, <2>9 DEF Sound
  <2> QED BY <1>5, <2>5, <2>6, <2>7, <2>10
<1>8. \/ tab' = tab
      \/ /\ Bound /\ ~Busy(tab, tab.bound) /\ tab.paused # Mine.conn
         /\ tab' = [tab EXCEPT !.next = "none", !.phase = "offline"]
  BY DEF GoOffline
<1> QED BY <1>6, <1>7, <1>8

\* A session, the sources having changed to those in now.
Rebound(x, now) ==
  IF x # Gone /\ x.run \in AtNetwork
  THEN [x EXCEPT !.rebound = TRUE, !.upto = IF x.conn \in now THEN @ ELSE 0]
  ELSE x

LEMMA ReboundOK ==
  ASSUME NEW x \in Session, SessionOK(x), NEW now
  PROVE  LET y == Rebound(x, now)
         IN  /\ y \in Session /\ SessionOK(y) /\ y # Gone
             /\ y.conn = x.conn /\ y.run = x.run /\ y.full = x.full /\ y.flags = x.flags
             /\ y.result = x.result /\ y.asking = x.asking /\ y.rescan = x.rescan
             /\ y.upto \in {0, x.upto} /\ (x.conn \notin now => y.upto = 0)
<1>0. x # Gone BY IsThere
<1>1. CASE x.run \in AtNetwork
  <2> DEFINE n == IF x.conn \in now THEN x.upto ELSE 0
             y == [x EXCEPT !.rebound = TRUE, !.upto = n]
  <2>1. Rebound(x, now) = y BY <1>0, <1>1 DEF Rebound
  <2>2. n \in 0..MaxEdits /\ n \in {0, x.upto} /\ (x.conn \notin now => n = 0)
    BY SchedulerAssumption DEF Session
  <2> HIDE DEF n
  <2>3. y \in Session BY <2>2 DEF Session
  <2>4. /\ y.conn = x.conn /\ y.run = x.run /\ y.full = x.full /\ y.flags = x.flags
        /\ y.result = x.result /\ y.asking = x.asking /\ y.rescan = x.rescan /\ y.upto = n
    BY DEF Session
  <2> HIDE DEF y
  <2>5. SessionOK(y) BY <2>2, <2>4 DEF SessionOK
  <2>6. y # Gone BY <2>3, IsThere
  <2> QED BY <2>1, <2>2, <2>3, <2>4, <2>5, <2>6
<1>2. CASE x.run \notin AtNetwork
  <2>1. Rebound(x, now) = x BY <1>2 DEF Rebound
  <2>2. x.upto = 0 BY <1>2 DEF SessionOK, AtNetwork
  <2> QED BY <1>0, <2>1, <2>2
<1> QED BY <1>1, <1>2

LEMMA SourcesTab ==
  ASSUME IInv, SourcesChange
  PROVE  /\ tab' \in Tab /\ SameSource(tab, tab') /\ tab'.next = tab.next
         /\ tab'.debounce = tab.debounce /\ tab'.notice = tab.notice /\ tab'.phase = tab.phase
         /\ \A s \in Sessions : tab'.at[s] = Rebound(tab.at[s], live')
<1> DEFINE w == [s \in Sessions |-> Rebound(tab.at[s], live')]
<1>1. tab \in Tab /\ WellFormed(tab) BY IInvFacts
<1>2. \A s \in Sessions :
        (IF At(s, "resume") \/ At(s, "pull") \/ At(s, "push")
         THEN [tab.at[s] EXCEPT !.rebound = TRUE,
                                !.upto = IF tab.at[s].conn \in live' THEN @ ELSE 0]
         ELSE tab.at[s]) = Rebound(tab.at[s], live')
  BY DEF At, Rebound, AtNetwork
<1>3. tab' = [tab EXCEPT !.at = w]
  <2> DEFINE v == [s \in Sessions |->
               IF At(s, "resume") \/ At(s, "pull") \/ At(s, "push")
               THEN [tab.at[s] EXCEPT !.rebound = TRUE,
                                      !.upto = IF tab.at[s].conn \in live' THEN @ ELSE 0]
               ELSE tab.at[s]]
  <2>1. v = w BY <1>2
  <2>2. tab' = [tab EXCEPT !.at = v] BY DEF SourcesChange
  <2> HIDE DEF v, w
  <2> QED BY <2>1, <2>2
<1>4. w \in [Sessions -> Session \cup {Gone}]
  <2> SUFFICES ASSUME NEW s \in Sessions PROVE Rebound(tab.at[s], live') \in Session \cup {Gone}
    OBVIOUS
  <2>1. CASE tab.at[s] = Gone BY <2>1 DEF Rebound
  <2>2. CASE tab.at[s] # Gone
    <3>1. tab.at[s] \in Session /\ SessionOK(tab.at[s]) BY <1>1, <2>2, SessionFacts
    <3> QED BY <3>1, ReboundOK
  <2> QED BY <2>1, <2>2
<1>5. \A s \in Sessions : w[s] = Rebound(tab.at[s], live') OBVIOUS
<1> HIDE DEF w
<1>6. tab' \in Tab BY <1>1, <1>3, <1>4 DEF Tab
<1>7. /\ SameSource(tab, tab') /\ tab'.next = tab.next /\ tab'.at = w
      /\ tab'.debounce = tab.debounce /\ tab'.notice = tab.notice /\ tab'.phase = tab.phase
  BY <1>1, <1>3 DEF Tab, SameSource
<1> QED BY <1>5, <1>6, <1>7

LEMMA SourcesStep ==
  ASSUME IInv, SourcesChange, live' \subseteq Conns, row' \in live' \cup {NoConn},
         made' \in [Conns -> 0..MaxEdits], \A c \in live' : made'[c] = made[c],
         sent' \in [Conns -> 0..MaxEdits], \A c \in Conns : sent'[c] <= made'[c],
         tries' \in [Conns -> 0..MaxAttempts], cursor' \in [Conns -> BOOLEAN],
         owed' \subseteq owed, \A c \in owed' : ~cursor'[c], play' \in Play
  PROVE  IInv'
<1>1. /\ tab' \in Tab /\ SameSource(tab, tab') /\ tab'.next = tab.next
      /\ tab'.debounce = tab.debounce /\ tab'.notice = tab.notice /\ tab'.phase = tab.phase
      /\ \A s \in Sessions : tab'.at[s] = Rebound(tab.at[s], live')
  BY SourcesTab
<1>2. spent' = {} /\ UNCHANGED <<lock, online, visible, quiet>>
  BY DEF SourcesChange, window
<1>3. /\ tab \in Tab /\ TabOK(tab) /\ TimerOK(tab) /\ Sound(tab, online, visible, spent)
      /\ WellFormed(tab)
  BY IInvFacts
<1>4. ASSUME NEW s \in Sessions, tab.at[s] # Gone
      PROVE  LET x == tab.at[s]
                 y == tab'.at[s]
             IN  /\ y \in Session /\ SessionOK(y) /\ y # Gone
                 /\ y.conn = x.conn /\ y.run = x.run /\ y.full = x.full /\ y.flags = x.flags
                 /\ y.result = x.result /\ y.asking = x.asking /\ y.rescan = x.rescan
                 /\ y.upto \in {0, x.upto} /\ (x.conn \notin live' => y.upto = 0)
  <2>1. tab.at[s] \in Session /\ SessionOK(tab.at[s]) BY <1>3, <1>4, SessionFacts
  <2>2. tab'.at[s] = Rebound(tab.at[s], live') BY <1>1
  <2> QED BY <2>1, <2>2, ReboundOK
<1>5. \A s \in Sessions : tab'.at[s] # Gone => tab.at[s] # Gone BY <1>1 DEF Rebound
<1>6. WellFormed(tab')
  <2>1. \A s \in Sessions : tab'.at[s] # Gone => SessionOK(tab'.at[s]) BY <1>4, <1>5
  <2>2. tab'.bound # NoSession => tab'.at[tab'.bound] # Gone
    BY <1>1, <1>3, <1>4, BoundFacts DEF SameSource
  <2> QED BY <1>1, <1>3, <2>1, <2>2 DEF WellFormed, SameSource
<1>7. tab.bound # NoSession =>
        LET x == tab.at[tab.bound]
            y == tab'.at[tab.bound]
        IN  /\ y.conn = x.conn /\ y.run = x.run /\ y.flags = x.flags
            /\ y.result = x.result /\ y.asking = x.asking /\ y.rescan = x.rescan
  BY <1>3, <1>4, BoundFacts
<1>8. TabOK(tab') /\ TimerOK(tab')
  <2>1. tab'.bound = NoSession => tab'.paused = NoConn BY <1>1, <1>3 DEF TabOK, SameSource
  <2>2. tab'.bound # NoSession => BoundOK(tab')
    BY <1>1, <1>3, <1>7 DEF TabOK, SameSource, BoundOK
  <2>3. TimerOK(tab') BY <1>1, <1>3, <1>7 DEF TimerOK, SameSource
  <2> QED BY <1>6, <2>1, <2>2, <2>3 DEF TabOK
<1>9. Awake(tab', online, visible) /\ Recalled(tab', online)
  BY <1>1, <1>3, <1>7 DEF Sound, Awake, Recalled, SameSource
<1>10. Spaced(tab', online, spent') BY <1>2 DEF Spaced
<1>11. RunsOK'
  <2> SUFFICES ASSUME NEW s \in Sessions, tab'.at[s] # Gone PROVE RunOK(s)' BY DEF RunsOK
  <2> DEFINE x == tab.at[s]
             y == tab'.at[s]
  <2>1. /\ y.conn = x.conn /\ y.run = x.run /\ y.full = x.full
        /\ y.upto \in {0, x.upto} /\ (x.conn \notin live' => y.upto = 0)
    BY <1>4, <1>5
  <2>2. RunOK(s) /\ x.conn \in Conns /\ x # Gone
    BY <1>3, <1>5, SessionFacts DEF IInv, RunsOK
  <2>3. 0 <= made'[x.conn] BY <2>2, SchedulerAssumption
  <2>4. y.upto <= made'[x.conn] BY <2>1, <2>2, <2>3 DEF RunOK
  <2> QED BY <1>2, <2>1, <2>2, <2>4 DEF RunOK
<1>12. OwedOK' BY <1>2 DEF IInv, OwedOK
<1>13. TypeOK' BY <1>1, <1>2 DEF IInv, TypeOK
<1>14. Awake(tab, online, visible)' /\ Recalled(tab, online)' /\ Spaced(tab, online, spent)'
       /\ (spent \subseteq live)'
  BY <1>2, <1>9, <1>10
<1> QED BY <1>8, <1>11, <1>12, <1>13, <1>14 DEF IInv

LEMMA ShowStep == ASSUME IInv, NEW c \in Conns, Show(c), play' \in Play PROVE IInv'
<1>1. /\ UNCHANGED <<live, made, sent, tries, cursor, owed>> /\ c \in live /\ row' = c
      /\ SourcesChange
  BY DEF Show
<1>2. /\ live' \subseteq Conns /\ row' \in live' \cup {NoConn}
      /\ made' \in [Conns -> 0..MaxEdits] /\ \A d \in live' : made'[d] = made[d]
      /\ sent' \in [Conns -> 0..MaxEdits] /\ \A d \in Conns : sent'[d] <= made'[d]
      /\ tries' \in [Conns -> 0..MaxAttempts] /\ cursor' \in [Conns -> BOOLEAN]
      /\ owed' \subseteq owed /\ \A d \in owed' : ~cursor'[d]
  BY <1>1 DEF IInv, TypeOK, OwedOK
<1> QED BY <1>1, <1>2, SourcesStep

LEMMA BindStep == ASSUME IInv, NEW c \in Conns, Bind(c), play' \in Play PROVE IInv'
<1>1. /\ UNCHANGED <<made, sent, tries, cursor, owed>> /\ live' = live \cup {c} /\ row' = c
      /\ SourcesChange
  BY DEF Bind
<1>2. /\ live' \subseteq Conns /\ row' \in live' \cup {NoConn}
      /\ made' \in [Conns -> 0..MaxEdits] /\ \A d \in live' : made'[d] = made[d]
      /\ sent' \in [Conns -> 0..MaxEdits] /\ \A d \in Conns : sent'[d] <= made'[d]
      /\ tries' \in [Conns -> 0..MaxAttempts] /\ cursor' \in [Conns -> BOOLEAN]
      /\ owed' \subseteq owed /\ \A d \in owed' : ~cursor'[d]
  BY <1>1 DEF IInv, TypeOK, OwedOK
<1> QED BY <1>1, <1>2, SourcesStep

LEMMA LetGoStep == ASSUME IInv, NEW c \in Conns, LetGo(c), play' \in Play PROVE IInv'
<1>1. /\ live' = live \ {c} /\ cursor' = [cursor EXCEPT ![c] = FALSE] /\ owed' = owed \ {c}
      /\ SourcesChange
  BY DEF LetGo
<1>2. /\ made \in [Conns -> 0..MaxEdits] /\ sent \in [Conns -> 0..MaxEdits]
      /\ \A d \in Conns : sent[d] <= made[d]
      /\ cursor \in [Conns -> BOOLEAN] /\ live \subseteq Conns /\ owed \subseteq Conns
      /\ tries \in [Conns -> 0..MaxAttempts] /\ row \in live \cup {NoConn}
      /\ 0 \in 0..MaxEdits
  BY SchedulerAssumption DEF IInv, TypeOK
<1>3. live' \subseteq Conns /\ row' \in live' \cup {NoConn}
  BY <1>1, <1>2 DEF LetGo
<1>4. \/ /\ made' = [made EXCEPT ![c] = 0] /\ sent' = [sent EXCEPT ![c] = 0]
         /\ tries' = [tries EXCEPT ![c] = 0]
      \/ UNCHANGED <<made, sent, tries>>
  BY DEF LetGo
<1>5. /\ made' \in [Conns -> 0..MaxEdits] /\ \A d \in live' : made'[d] = made[d]
      /\ sent' \in [Conns -> 0..MaxEdits] /\ \A d \in Conns : sent'[d] <= made'[d]
  BY <1>1, <1>2, <1>4
<1>6. tries' \in [Conns -> 0..MaxAttempts] BY <1>2, <1>4, CleanTries
<1>7. cursor' \in [Conns -> BOOLEAN] /\ owed' \subseteq owed BY <1>1, <1>2
<1>8. \A d \in owed' : ~cursor'[d] BY <1>1, <1>2 DEF IInv, OwedOK
<1> QED BY <1>1, <1>3, <1>5, <1>6, <1>7, <1>8, SourcesStep

LEMMA NewTabOK ==
  /\ NewTab \in Tab /\ TabOK(NewTab) /\ TimerOK(NewTab) /\ NewTab.bound = NoSession
  /\ \A s \in Sessions : NewTab.at[s] = Gone
<1>1. NewTab \in Tab BY DEF NewTab, Tab
<1>2. /\ NewTab.bound = NoSession /\ NewTab.paused = NoConn /\ NewTab.next = "none"
      /\ NewTab.debounce = FALSE /\ NewTab.notice = 0
      /\ \A s \in Sessions : NewTab.at[s] = Gone
  BY DEF NewTab
<1>3. WellFormed(NewTab) BY <1>1, <1>2 DEF WellFormed
<1> QED BY <1>1, <1>2, <1>3 DEF TabOK, TimerOK

LEMMA NewTabSound ==
  ASSUME NEW on, NEW seen PROVE Awake(NewTab, on, seen) /\ Recalled(NewTab, on) /\ Spaced(NewTab, on, {})
BY NewTabOK DEF Awake, Recalled, Spaced

LEMMA ReloadStep == ASSUME IInv, Reload, play' \in Play PROVE IInv'
<1>1. /\ tab' = NewTab /\ spent' = {} /\ quiet' = [c \in Conns |-> "no"]
      /\ lock' = [c \in Conns |-> IF lock[c] \in Sessions THEN "free" ELSE lock[c]]
      /\ UNCHANGED <<live, row, made, sent, tries, cursor, owed, online, visible>>
  BY DEF Reload, db, window
<1>2. TypeOK' BY <1>1, NewTabOK DEF IInv, TypeOK, Pauses
<1>3. TabOK(tab)' /\ TimerOK(tab)' /\ RunsOK' BY <1>1, NewTabOK DEF RunsOK
<1>4. OwedOK' BY <1>1 DEF IInv, OwedOK, TypeOK
<1>5. /\ Awake(tab, online, visible)' /\ Recalled(tab, online)' /\ Spaced(tab, online, spent)'
      /\ (spent \subseteq live)'
  BY <1>1, NewTabSound
<1> QED BY <1>2, <1>3, <1>4, <1>5 DEF IInv

LEMMA StutterStep == ASSUME IInv, UNCHANGED vars PROVE IInv'
<1>1. /\ UNCHANGED <<tab, live, row, made, sent, tries, cursor, lock>>
      /\ UNCHANGED <<online, visible, play, quiet, spent, owed>>
  BY DEF vars
<1>2. TypeOK' /\ TabOK(tab)' /\ TimerOK(tab)' BY <1>1 DEF IInv, TypeOK
<1>3. RunsOK' BY <1>1 DEF IInv, RunsOK, RunOK
<1>4. OwedOK' BY <1>1 DEF IInv, OwedOK
<1>5. /\ Awake(tab, online, visible)' /\ Recalled(tab, online)' /\ Spaced(tab, online, spent)'
      /\ (spent \subseteq live)'
  BY <1>1 DEF IInv
<1> QED BY <1>2, <1>3, <1>4, <1>5 DEF IInv

LEMMA InitOK == Init => IInv
<1> SUFFICES ASSUME Init PROVE IInv OBVIOUS
<1>1. /\ tab = NewTab /\ play \in Play /\ live = play.conns /\ row \in live
      /\ made = [c \in Conns |-> 0] /\ sent = made /\ tries = made
      /\ cursor = [c \in Conns |-> FALSE] /\ lock = [c \in Conns |-> "free"]
      /\ online = TRUE /\ visible = TRUE /\ quiet = [c \in Conns |-> "no"]
      /\ spent = {} /\ owed = {}
  BY SchedulerAssumption DEF Init
<1>2. TypeOK
  <2>1. 0 \in 0..MaxEdits /\ 0 \in 0..MaxAttempts BY SchedulerAssumption
  <2>2. live \subseteq Conns BY <1>1 DEF Play
  <2> QED BY <1>1, <2>1, <2>2, NewTabOK DEF TypeOK, Pauses
<1>3. TabOK(tab) /\ TimerOK(tab) /\ RunsOK BY <1>1, NewTabOK DEF RunsOK
<1>4. OwedOK BY <1>1 DEF OwedOK
<1>5. /\ Awake(tab, online, visible) /\ Recalled(tab, online) /\ Spaced(tab, online, spent)
      /\ spent \subseteq live
  BY <1>1, NewTabSound
<1> QED BY <1>2, <1>3, <1>4, <1>5 DEF IInv

\* Every step keeps the invariant.
LEMMA NextOK == IInv /\ [Next]_vars => IInv'
<1> SUFFICES ASSUME IInv, [Next]_vars PROVE IInv' OBVIOUS
<1>1. ASSUME NEW s \in Sessions,
             TakeLock(s) \/ RunStep(s) \/ Continues(s) \/ BlockedForLong(s)
      PROVE  IInv'
  <2>1. CASE TakeLock(s) BY <2>1, TakeLockStep
  <2>2. CASE RunStep(s)
    BY <2>2, ResumedStep, PullStep, PushStep, PushFailsStep, PushBlockedStep, AnsweredStep,
       GiveBackAttemptsStep, NameStuckStep, RunFailsStep DEF RunStep
  <2>3. CASE Continues(s)
    BY <2>3, AskedStep, RescanStep, GiveBackAfterPauseStep DEF Continues
  <2>4. CASE BlockedForLong(s) BY <2>4, BlockedForLongStep
  <2> QED BY <1>1, <2>1, <2>2, <2>3, <2>4
<1>2. CASE Timers
  BY <1>2, RetryFiresStep, IntervalFiresStep, DebounceFiresStep, LookAgainStep DEF Timers
<1>3. CASE Hears BY <1>3, RowHeardStep, EditHeardStep DEF Hears
<1>4. CASE User
  BY <1>4, FocusStep, NoticedStep, SyncNowStep, ResyncStep, GoOnlineStep, ComeForwardStep
  DEF User
<1>5. CASE Disturb
  <2>1. play' \in Play
    <3>1. play \in Play /\ play.left > 0 /\ play' = [play EXCEPT !.left = @ - 1]
      BY <1>5, IInvFacts DEF Disturb
    <3>2. play.left \in Nat /\ play.left - 1 \in Nat BY <3>1 DEF Play
    <3> QED BY <3>1, <3>2 DEF Play
  <2>2. play.conns \subseteq Conns BY IInvFacts DEF Play
  <2>3. CASE \E c \in play.conns : Show(c) \/ LetGo(c) \/ Bind(c)
    BY <2>1, <2>2, <2>3, ShowStep, LetGoStep, BindStep
  <2>4. CASE \E c \in play.conns : Halt(c) BY <2>1, <2>2, <2>4, HaltStep
  <2>5. CASE \E c \in play.conns : OtherTabSyncs(c) BY <2>1, <2>2, <2>5, OtherTabSyncsStep
  <2>6. CASE GoOffline BY <2>1, <2>6, GoOfflineStep
  <2>7. CASE Hide BY <2>1, <2>7, HideStep
  <2>8. CASE Pause BY <2>1, <2>8, PauseStep
  <2>9. CASE Reload BY <2>1, <2>9, ReloadStep
  <2> QED BY <1>5, <2>3, <2>4, <2>5, <2>6, <2>7, <2>8, <2>9 DEF Disturb
<1>6. ASSUME NEW c \in Conns, Edit(c) \/ Release(c) \/ OtherTabEnds(c) PROVE IInv'
  BY <1>6, EditStep, ReleaseStep, OtherTabEndsStep
<1>7. CASE UNCHANGED vars BY <1>7, StutterStep
<1> QED BY <1>1, <1>2, <1>3, <1>4, <1>5, <1>6, <1>7 DEF Next

-----------------------------------------------------------------------------
(* What is paused stays quiet: few operators touch a pause or a halt.        *)

\* What any tab has, whatever else is true of it.
HasPause(t) == "paused" \in DOMAIN t /\ "halted" \in DOMAIN t

PauseLeft(t, u) == HasPause(u) /\ u.paused = t.paused /\ u.halted = t.halted

LEMMA RunOnceLeaves ==
  ASSUME NEW t, HasPause(t), NEW s PROVE PauseLeft(t, RunOnce(t, s))
BY DEF HasPause, PauseLeft, RunOnce

LEMMA PauseLeftSelf == ASSUME NEW t, HasPause(t) PROVE PauseLeft(t, t)
BY DEF PauseLeft

LEMMA PauseLeftTrans ==
  ASSUME NEW t, NEW u, NEW v, PauseLeft(t, u), PauseLeft(u, v) PROVE PauseLeft(t, v)
BY DEF PauseLeft

LEMMA RunLeaves ==
  ASSUME NEW t, HasPause(t), NEW s, NEW asked PROVE PauseLeft(t, Run(t, s, asked))
<1> DEFINE u == [t EXCEPT !.at[s].flags = @ \cup {asked}]
<1>1. PauseLeft(t, u) BY DEF HasPause, PauseLeft
<1>2. Run(t, s, asked) \in {t, u, RunOnce(t, s)} BY DEF Run
<1> QED BY <1>1, <1>2, RunOnceLeaves, PauseLeftSelf

LEMMA NudgeLeaves ==
  ASSUME NEW t, HasPause(t), NEW s PROVE PauseLeft(t, Nudge(t, s))
BY RunLeaves, PauseLeftSelf DEF Nudge

LEMMA FinishLeaves ==
  ASSUME NEW t, HasPause(t), NEW s PROVE PauseLeft(t, Finish(t, s))
<1> DEFINE u == Ended(t, s)
<1>1. PauseLeft(t, u) BY DEF HasPause, PauseLeft, Ended
<1>2. Finish(t, s) \in {u, RunOnce(u, s)} BY FinishIs
<1> HIDE DEF u
<1>3. PauseLeft(u, RunOnce(u, s)) BY <1>1, RunOnceLeaves DEF PauseLeft
<1> QED BY <1>1, <1>2, <1>3, PauseLeftTrans

LEMMA TidyLeaves ==
  ASSUME NEW t, HasPause(t) PROVE PauseLeft(t, Tidy(t))
BY DEF HasPause, PauseLeft, Tidy

LEMMA TidiedRun ==
  ASSUME NEW t, HasPause(t), NEW s, NEW asked PROVE PauseLeft(t, Tidy(Run(t, s, asked)))
<1>1. PauseLeft(t, Run(t, s, asked)) BY RunLeaves
<1>2. PauseLeft(Run(t, s, asked), Tidy(Run(t, s, asked))) BY <1>1, TidyLeaves DEF PauseLeft
<1> QED BY <1>1, <1>2, PauseLeftTrans

LEMMA TidiedFinish ==
  ASSUME NEW t, HasPause(t), NEW s PROVE PauseLeft(t, Tidy(Finish(t, s)))
<1>1. PauseLeft(t, Finish(t, s)) BY FinishLeaves
<1>2. PauseLeft(Finish(t, s), Tidy(Finish(t, s))) BY <1>1, TidyLeaves DEF PauseLeft
<1> QED BY <1>1, <1>2, PauseLeftTrans

LEMMA FinishedLeaves ==
  ASSUME NEW t, NEW u, PauseLeft(t, u), NEW s PROVE PauseLeft(t, Finish(u, s))
<1>1. PauseLeft(u, Finish(u, s)) BY FinishLeaves DEF PauseLeft
<1> QED BY <1>1, PauseLeftTrans

LEMMA SettleLeaves ==
  ASSUME NEW t, HasPause(t), NEW s, t.at[s].result \in Results \ {"none"}
  PROVE  PauseLeft(t, Settle(t, s))
<1>1. CASE t.at[s].result \in {"offline", "refused"}
  <2>1. ASSUME NEW p PROVE PauseLeft(t, [t EXCEPT !.phase = p]) BY DEF HasPause, PauseLeft
  <2> QED BY <1>1, <2>1, FinishedLeaves DEF Settle
<1>2. CASE t.at[s].result = "superseded"
  <2> DEFINE u == [t EXCEPT !.at[s].flags = @ \cup {"again"}]
  <2>1. PauseLeft(t, u) BY DEF HasPause, PauseLeft
  <2>2. Settle(t, s) = Finish(u, s) BY <1>2 DEF Settle
  <2> HIDE DEF u
  <2> QED BY <2>1, <2>2, FinishedLeaves
<1>3. CASE t.at[s].result = "retry"
  <2>1. PauseLeft(t, Failed(t, s)) BY DEF HasPause, PauseLeft, Failed
  <2>2. Settle(t, s) = Finish(Failed(t, s), s) BY <1>3 DEF Settle
  <2> QED BY <2>1, <2>2, FinishedLeaves
<1>4. CASE t.at[s].result = "blocked"
  <2>1. PauseLeft(t, FoundBlocked(t, s)) BY DEF HasPause, PauseLeft, FoundBlocked
  <2> QED BY <1>4, <2>1 DEF Settle
<1>5. CASE t.at[s].result = "ok"
  <2>1. PauseLeft(t, SyncedTab(t, s)) BY DEF HasPause, PauseLeft, SyncedTab
  <2>2. Settle(t, s) = Finish(SyncedTab(t, s), s) BY <1>5 DEF Settle, Synced, SyncedTab
  <2> QED BY <2>1, <2>2, FinishedLeaves
<1> QED BY <1>1, <1>2, <1>3, <1>4, <1>5 DEF Results

\* A session of the tab revised, and the timers and the phase, and then a trigger.
LEMMA SetLeaves ==
  ASSUME NEW t, HasPause(t), NEW s, NEW a, NEW b, NEW c
  PROVE  /\ PauseLeft(t, [t EXCEPT !.next = a]) /\ PauseLeft(t, [t EXCEPT !.debounce = a])
         /\ PauseLeft(t, [t EXCEPT !.notice = a]) /\ PauseLeft(t, [t EXCEPT !.at[s].heard = a])
         /\ PauseLeft(t, [t EXCEPT !.at[s].heard = a, !.debounce = b])
         /\ PauseLeft(t, [t EXCEPT !.next = a, !.phase = b])
BY DEF HasPause, PauseLeft

\* What a step that is no pause, and no end of one, leaves.
Undisturbed == PauseLeft(tab, tab') /\ quiet' = quiet

LEMMA HasPauseNow == ASSUME IInv PROVE HasPause(tab)
BY IInvFacts DEF Tab, HasPause

LEMMA RunUndisturbed ==
  ASSUME IInv, NEW s \in Sessions,
         TakeLock(s) \/ RunStep(s) \/ Continues(s) \/ BlockedForLong(s)
  PROVE  Undisturbed
<1>1. HasPause(tab) BY HasPauseNow
<1>2. CASE TakeLock(s)
  <2>1. quiet' = quiet BY <1>2 DEF TakeLock, hist
  <2>2. \/ tab' = [tab EXCEPT !.at[s].run = "resume"]
        \/ tab' = [tab EXCEPT !.at[s].run = "answer", !.at[s].result = "offline"]
        \/ tab' = Tidy(Finish(tab, s))
    BY <1>2 DEF TakeLock
  <2>3. PauseLeft(tab, [tab EXCEPT !.at[s].run = "resume"])
    BY <1>1 DEF HasPause, PauseLeft
  <2>4. PauseLeft(tab, [tab EXCEPT !.at[s].run = "answer", !.at[s].result = "offline"])
    BY <1>1 DEF HasPause, PauseLeft
  <2> QED BY <1>1, <2>1, <2>2, <2>3, <2>4, TidiedFinish DEF Undisturbed
<1>3. CASE Resumed(s)
  BY <1>1, <1>3 DEF Resumed, hist, HasPause, PauseLeft, Undisturbed
<1>4. CASE Pull(s)
  BY <1>1, <1>4 DEF Pull, HasPause, PauseLeft, Undisturbed
<1>5. ASSUME NEW result, Answer(s, result) PROVE PauseLeft(tab, tab')
  BY <1>1, <1>5 DEF Answer, HasPause, PauseLeft
<1>6. CASE Push(s) BY <1>5, <1>6 DEF Push, Undisturbed
<1>7. CASE PushFails(s) BY <1>5, <1>7 DEF PushFails, Undisturbed
<1>8. CASE PushBlocked(s) BY <1>5, <1>8 DEF PushBlocked, hist, Undisturbed
<1>9. CASE \E r \in {"retry", "refused"} : RunFails(s, r)
  BY <1>5, <1>9 DEF RunFails, hist, Undisturbed
<1>10. CASE Answered(s)
  <2>1. quiet' = quiet BY <1>10 DEF Answered
  <2>2. tab' = Settle(tab, s) \/ tab' = Tidy(Finish(tab, s)) BY <1>10 DEF Answered
  <2>3. tab.at[s].result \in Results \ {"none"}
    <3>1. tab.at[s] # Gone /\ tab.at[s].run = "answer" BY <1>10 DEF Answered, At
    <3>2. tab.at[s] \in Session /\ SessionOK(tab.at[s]) BY <3>1, IInvFacts, SessionFacts
    <3> QED BY <3>1, <3>2 DEF Session, SessionOK
  <2> QED BY <1>1, <2>1, <2>2, <2>3, SettleLeaves, TidiedFinish DEF Undisturbed
<1>11. CASE GiveBackAttempts(s)
  BY <1>1, <1>11 DEF GiveBackAttempts, HasPause, PauseLeft, Undisturbed
<1>12. CASE NameStuck(s)
  <2> DEFINE t == [tab EXCEPT !.at[s].stuck = Out(tab.at[s].conn),
                              !.phase = "blocked", !.next = "interval"]
  <2>1. quiet' = quiet BY <1>12 DEF NameStuck, hist
  <2>2. tab' = Finish(t, s) \/ tab' = Tidy(Finish(tab, s)) BY <1>12 DEF NameStuck
  <2>3. PauseLeft(tab, t) BY <1>1 DEF HasPause, PauseLeft
  <2> HIDE DEF t
  <2> QED BY <1>1, <2>1, <2>2, <2>3, FinishedLeaves, TidiedFinish DEF Undisturbed
<1>13. CASE BlockedForLong(s)
  BY <1>1, <1>13 DEF BlockedForLong, Trigger, hist, HasPause, PauseLeft, Undisturbed
<1>14. ASSUME NEW t, PauseLeft(tab, t), tab' = Tidy(Run(t, s, "again")), quiet' = quiet
       PROVE  Undisturbed
  <2>1. PauseLeft(t, tab') BY <1>14, TidiedRun DEF PauseLeft
  <2> QED BY <1>14, <2>1, PauseLeftTrans DEF Undisturbed
<1>15. CASE Asked(s)
  <2> DEFINE t == [tab EXCEPT !.at[s].asking = FALSE, !.at[s].stuck = FALSE]
  <2>1. PauseLeft(tab, t) BY <1>1 DEF HasPause, PauseLeft
  <2>2. tab' = Tidy(Run(t, s, "again")) /\ quiet' = quiet BY <1>15 DEF Asked
  <2> HIDE DEF t
  <2> QED BY <1>14, <2>1, <2>2
<1>16. CASE Rescan(s)
  <2> DEFINE t == [tab EXCEPT !.at[s].rescan = FALSE, !.at[s].blocked = "no",
                              !.at[s].stuck = FALSE]
  <2>1. PauseLeft(tab, t) BY <1>1 DEF HasPause, PauseLeft
  <2>2. tab' = Tidy(Run(t, s, "again")) /\ quiet' = quiet BY <1>16 DEF Rescan
  <2> HIDE DEF t
  <2> QED BY <1>14, <2>1, <2>2
<1>17. CASE GiveBackAfterPause(s)
  <2>1. \/ tab' = [tab EXCEPT !.at[s].after = NoSession, !.at[s].stuck = FALSE]
        \/ tab' = [tab EXCEPT !.at[s].after = NoSession]
    BY <1>17 DEF GiveBackAfterPause
  <2>2. PauseLeft(tab, [tab EXCEPT !.at[s].after = NoSession, !.at[s].stuck = FALSE])
    BY <1>1 DEF HasPause, PauseLeft
  <2>3. PauseLeft(tab, [tab EXCEPT !.at[s].after = NoSession])
    BY <1>1 DEF HasPause, PauseLeft
  <2> QED BY <1>17, <2>1, <2>2, <2>3 DEF GiveBackAfterPause, hist, Undisturbed
<1> QED BY <1>2, <1>3, <1>4, <1>6, <1>7, <1>8, <1>9, <1>10, <1>11, <1>12, <1>13, <1>15,
           <1>16, <1>17 DEF RunStep, Continues

LEMMA TriggersUndisturbed ==
  ASSUME IInv, Timers \/ EditHeard \/ Focus \/ Noticed \/ GoOnline \/ ComeForward
  PROVE  Undisturbed
<1>1. HasPause(tab) BY HasPauseNow
<1>2. ASSUME NEW t, PauseLeft(tab, t), NEW s, NEW asked
      PROVE  PauseLeft(tab, Run(t, s, asked)) /\ PauseLeft(tab, Nudge(t, s))
  <2>1. PauseLeft(t, Run(t, s, asked)) /\ PauseLeft(t, Nudge(t, s))
    BY <1>2, RunLeaves, NudgeLeaves DEF PauseLeft
  <2> QED BY <1>2, <2>1, PauseLeftTrans
<1>3. PauseLeft(tab, tab) BY <1>1, PauseLeftSelf
<1>4. CASE RetryFires
  <2>1. PauseLeft(tab, [tab EXCEPT !.next = "none"]) BY <1>1, SetLeaves
  <2> QED BY <1>2, <1>4, <2>1 DEF RetryFires, Undisturbed
<1>5. CASE IntervalFires
  <2>1. PauseLeft(tab, [tab EXCEPT !.next = "none"]) BY <1>1, SetLeaves
  <2> QED BY <1>2, <1>5, <2>1 DEF IntervalFires, Trigger, hist, Undisturbed
<1>6. CASE DebounceFires
  <2>1. PauseLeft(tab, [tab EXCEPT !.debounce = FALSE]) BY <1>1, SetLeaves
  <2> QED BY <1>2, <1>6, <2>1 DEF DebounceFires, Trigger, hist, Undisturbed
<1>7. CASE LookAgain
  <2> DEFINE k == IF tab.notice = 1 THEN 2 ELSE 0
             t == [tab EXCEPT !.notice = k]
  <2>1. PauseLeft(tab, t) BY <1>1, SetLeaves
  <2>2. tab' = (IF visible THEN Nudge(t, tab.bound) ELSE t) /\ quiet' = quiet
    BY <1>7 DEF LookAgain, Trigger, hist
  <2> HIDE DEF t
  <2> QED BY <1>2, <2>1, <2>2 DEF Undisturbed
<1>8. CASE EditHeard
  <2>1. \E a : \/ tab' = [tab EXCEPT !.at[tab.bound].heard = a]
               \/ tab' = [tab EXCEPT !.at[tab.bound].heard = a, !.debounce = TRUE]
    BY <1>8 DEF EditHeard, Trigger
  <2> QED BY <1>1, <1>8, <2>1, SetLeaves DEF EditHeard, Trigger, hist, Undisturbed
<1>9. CASE Focus
  BY <1>2, <1>3, <1>9 DEF Focus, Trigger, hist, Undisturbed
<1>10. CASE Noticed
  <2> DEFINE t == Nudge(tab, tab.bound)
  <2>1. PauseLeft(tab, t) BY <1>2, <1>3
  <2>2. tab' = [t EXCEPT !.notice = 1] /\ quiet' = quiet BY <1>10 DEF Noticed, Trigger, hist
  <2> HIDE DEF t
  <2>3. PauseLeft(t, tab') BY <2>1, <2>2, SetLeaves DEF PauseLeft
  <2> QED BY <2>1, <2>2, <2>3, PauseLeftTrans DEF Undisturbed
<1>11. CASE GoOnline
  <2>1. PauseLeft(tab, [tab EXCEPT !.at[tab.bound].asking = TRUE])
    BY <1>1 DEF HasPause, PauseLeft
  <2> QED BY <1>3, <1>11, <2>1 DEF GoOnline, Undisturbed
<1>12. CASE ComeForward
  BY <1>2, <1>3, <1>12 DEF ComeForward, hist, Undisturbed
<1> QED BY <1>4, <1>5, <1>6, <1>7, <1>8, <1>9, <1>10, <1>11, <1>12 DEF Timers

LEMMA OutsideUndisturbed ==
  ASSUME IInv, NEW c,
         \/ Show(c) \/ LetGo(c) \/ Bind(c) \/ OtherTabSyncs(c) \/ GoOffline \/ Hide
         \/ Edit(c) \/ OtherTabEnds(c) \/ UNCHANGED vars
  PROVE  Undisturbed
<1>1. HasPause(tab) /\ PauseLeft(tab, tab) BY HasPauseNow, PauseLeftSelf
<1>2. CASE SourcesChange
  <2>1. tab' \in Tab /\ SameSource(tab, tab') /\ quiet' = quiet
    BY <1>2, SourcesTab DEF SourcesChange
  <2>2. HasPause(tab') BY <2>1 DEF Tab, HasPause
  <2> QED BY <2>1, <2>2 DEF SameSource, PauseLeft, Undisturbed
<1>3. CASE GoOffline
  <2>1. PauseLeft(tab, [tab EXCEPT !.next = "none", !.phase = "offline"]) BY <1>1, SetLeaves
  <2>2. tab' = tab \/ tab' = [tab EXCEPT !.next = "none", !.phase = "offline"]
    BY <1>3 DEF GoOffline
  <2>3. quiet' = quiet BY <1>3 DEF GoOffline, hist
  <2> QED BY <1>1, <2>1, <2>2, <2>3 DEF Undisturbed
<1>4. CASE UNCHANGED <<tab, quiet>> BY <1>1, <1>4 DEF Undisturbed
<1> QED BY <1>2, <1>3, <1>4 DEF Show, LetGo, Bind, OtherTabSyncs, Hide, Edit, OtherTabEnds,
           vars, hist

LEMMA QuietUndisturbed == ASSUME QuietOK, Undisturbed PROVE QuietOK'
BY DEF QuietOK, Undisturbed, PauseLeft

LEMMA QuietStep == ASSUME IInv, QuietOK, [Next]_vars PROVE QuietOK'
<1>1. /\ tab \in Tab /\ TabOK(tab) /\ TimerOK(tab) /\ quiet \in [Conns -> Pauses]
      /\ NoConn \notin Conns
  BY IInvFacts, SchedulerAssumption
\* What is paused is the source shown, no cancel holds it, and there is one at most.
<1>2. ASSUME NEW c \in Conns, quiet[c] = "paused"
      PROVE  /\ tab.bound # NoSession /\ tab.at[tab.bound].conn = c /\ tab.shown = c
             /\ tab.paused = c /\ c \notin tab.halted
  <2>1. tab.paused = c BY <1>2 DEF QuietOK
  <2>2. tab.bound # NoSession BY <1>1, <2>1 DEF TabOK
  <2> QED BY <1>1, <2>1, <2>2 DEF TabOK, BoundOK
<1>3. CASE \E s \in Sessions : TakeLock(s) \/ RunStep(s) \/ Continues(s) \/ BlockedForLong(s)
  BY <1>3, RunUndisturbed, QuietUndisturbed
<1>4. CASE Timers \/ EditHeard \/ Focus \/ Noticed \/ GoOnline \/ ComeForward
  BY <1>4, TriggersUndisturbed, QuietUndisturbed
<1>5. ASSUME NEW c,
             \/ Show(c) \/ LetGo(c) \/ Bind(c) \/ OtherTabSyncs(c) \/ GoOffline \/ Hide
             \/ Edit(c) \/ OtherTabEnds(c) \/ UNCHANGED vars
      PROVE  QuietOK'
  BY <1>5, OutsideUndisturbed, QuietUndisturbed
\* The user asks: the pause of the session that is bound is over.
<1>6. CASE SyncNow \/ Resync
  <2>1. quiet' = [quiet EXCEPT ![tab.at[tab.bound].conn] = "no"]
    BY <1>6 DEF SyncNow, Resync, Mine
  <2> QED BY <1>1, <1>2, <2>1 DEF QuietOK
\* Another source is shown, and what was paused is the one that was shown.
<1>7. CASE RowHeard
  <2>1. tab.shown # row /\ quiet' = [c \in Conns |-> IF c = row THEN quiet[c] ELSE "no"]
    BY <1>7 DEF RowHeard
  <2> QED BY <1>2, <2>1 DEF QuietOK
<1>8. CASE \E c \in Conns : Release(c)
  <2>1. PICK c \in Conns : Release(c) BY <1>8
  <2> DEFINE t == [tab EXCEPT !.halted = @ \ {c}]
  <2>2. /\ Shows(t) /\ t.shown = tab.shown /\ t.halted = tab.halted \ {c}
        /\ tab' = Follow(t, tab.shown) /\ Unused(EndSession(tab)) # {} /\ quiet' = quiet
    BY <1>1, <2>1 DEF Tab, Shows, Release, hist
  <2> HIDE DEF t
  <2>3. Followed(t, Follow(t, t.shown)) BY <2>2, IInvFacts, ShowsOK, FollowOK
  <2> SUFFICES ASSUME NEW d \in Conns, quiet[d] = "paused" PROVE tab'.paused = d
    BY <2>2 DEF QuietOK
  <2>4. Source(t) = d /\ t.paused = d BY <1>2, <2>2 DEF Source, Shows
  <2> QED BY <1>1, <2>2, <2>3, <2>4 DEF Followed
\* A cancel holds the source shown, and it is not paused any more.
<1>9. CASE \E c \in play.conns : Halt(c)
  <2>1. PICK c \in play.conns : Halt(c) BY <1>9
  <2>2. /\ tab.shown = c
        /\ quiet' = [quiet EXCEPT ![c] = IF @ = "paused" THEN "cancelled" ELSE @]
    BY <2>1 DEF Halt
  <2> QED BY <1>1, <1>2, <2>2 DEF QuietOK
<1>10. CASE Pause
  <2> DEFINE c == tab.at[tab.bound].conn
  <2>1. /\ tab.bound # NoSession /\ tab' = Paused(tab) /\ Unused(EndSession(tab)) # {}
        /\ quiet' = [quiet EXCEPT ![c] = "paused"]
    BY <1>10 DEF Pause, Bound, Mine
  <2>2. tab'.paused = c BY <1>1, <2>1, IInvFacts, PausedOK
  <2> HIDE DEF c
  <2> QED BY <1>1, <1>2, <2>1, <2>2 DEF QuietOK, c
<1>11. CASE Reload
  <2>1. quiet' = [c \in Conns |-> "no"] BY <1>11 DEF Reload
  <2> QED BY <2>1 DEF QuietOK
<1>12. CASE Disturb
  BY <1>5, <1>9, <1>10, <1>11, <1>12 DEF Disturb
<1> QED BY <1>3, <1>4, <1>5, <1>6, <1>7, <1>8, <1>12 DEF Next, Hears, User

-----------------------------------------------------------------------------
(* The theorems.                                                             *)

LEMMA Invariance == Spec => []IInv
<1>1. Init => IInv BY InitOK
<1>2. IInv /\ [Next]_vars => IInv' BY NextOK
<1> QED BY <1>1, <1>2, PTL DEF Spec

\* The tab, the queues' counters, the cursors and the locks are of their types in
\* every reachable state, whatever the sources, the sessions' names and the plays.
THEOREM SchedulerTypes == Spec => []TypeOK
<1>1. IInv => TypeOK BY DEF IInv
<1> QED BY <1>1, Invariance, PTL

\* However many sessions end and start and whatever other tabs do, no cursor is
\* stored for a source whose re-scan is owed: a round goes on a cursor only with
\* the source's lock, and the lock is free when the cursor is cleared (resync).
THEOREM RescansAreKept == Spec => []RescanIsKept
<1>1. IInv => RescanIsKept BY DEF IInv, OwedOK, RescanIsKept
<1> QED BY <1>1, Invariance, PTL

\* No order of answers, triggers, pauses, sources and the network's comings and
\* goings leaves a bound session with nothing to wake it (failed, armInterval,
\* runOnce's end, the offline handler).
THEOREM SomethingAlwaysWakes == Spec => []SomethingWillWakeIt
<1>1. IInv => SomethingWillWakeIt
  BY DEF IInv, Awake, SomethingWillWakeIt, Bound, Mine
<1> QED BY <1>1, Invariance, PTL

\* No nudge sends again what just failed: a second attempt of the bound session
\* has the backoff's timer, the user, the network or a change of sources before
\* it (nudge, backingOff, runOnce's end).
THEOREM AttemptsStaySpaced == Spec => AttemptsAreSpaced
<1> DEFINE Spacing == \A s \in Sessions : PushFails(s) /\ IsCurrent(tab, s) => tab.at[s].conn \notin spent
<1>1. IInv => Spacing
  <2> SUFFICES ASSUME IInv, NEW s \in Sessions, PushFails(s), tab.bound = s
               PROVE  tab.at[s].conn \notin spent
    BY DEF IsCurrent
  <2>1. tab.at[s].run = "push" /\ Spaced(tab, online, spent) BY DEF PushFails, At, IInv
  <2> QED BY <2>1 DEF Spaced
<1>2. IInv /\ [Next]_vars => [Spacing]_vars BY <1>1
<1> QED BY <1>2, Invariance, PTL DEF Spec, AttemptsAreSpaced

\* Whatever the sources, the sessions and the plays: a source paused runs nothing, has
\* nothing armed and says so, until it is asked for, shown again after another, the
\* tab is opened again, or a cancel of its first import ends the pause
\* (SyncScheduler.pause, halt).
THEOREM PausesHold == Spec => []PausedIsStill
<1>1. Init => QuietOK BY DEF Init, QuietOK
<1>2. IInv /\ QuietOK /\ [Next]_vars => QuietOK' BY QuietStep
<1>3. IInv /\ QuietOK => PausedIsStill
  <2> SUFFICES ASSUME IInv, QuietOK, tab.bound # NoSession
               PROVE  LET x == tab.at[tab.bound]
                      IN  /\ tab.paused = x.conn => /\ x.run = "none" /\ tab.next = "none"
                                                    /\ tab.phase = "paused"
                          /\ quiet[x.conn] = "paused" => x.run = "none"
    BY DEF PausedIsStill, Bound, Mine
  <2>1. TabOK(tab) /\ tab.at[tab.bound].conn \in Conns
    BY IInvFacts, BoundFacts, SessionFacts DEF TabOK
  <2> QED BY <2>1 DEF QuietOK, TabOK, BoundOK
<1> QED BY <1>1, <1>2, <1>3, Invariance, PTL DEF Spec
=============================================================================

----------------------------- MODULE MCScheduler -----------------------------
(* Scheduler on small sets, and what may happen in each run of it.           *)
EXTENDS Scheduler

CONSTANTS c1, c2

\* All but what only repeats another: a sync asked for resumes as a re-scan
\* does, and a notice is a nudge as focus is.
Interrupted ==
  [happens |-> {"resync", "pause", "cancel", "sources", "otherTab", "offline", "failure",
                "reload", "refusal", "hidden"},
   conns |-> {c1}, edits |-> 1, left |-> 2]

\* Two sources, one of them paused and left for the other and come back to, or
\* held by a cancel meanwhile.
Switched ==
  [happens |-> {"sources", "pause", "cancel"}, conns |-> {c1, c2}, edits |-> 0, left |-> 4]

\* What leaves an edit for a timer, an event or the end of a run to send.
HeldUp ==
  [happens |-> {"syncNow", "notice", "cancel", "hidden", "failure", "offline"},
   conns |-> {c1}, edits |-> 1, left |-> 2]

Several == {Interrupted, Switched}
OneHeldUp == {HeldUp}
=============================================================================

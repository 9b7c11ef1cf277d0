---------------------------- MODULE PullRun_proofs ----------------------------
(* What PullRun's safety properties rest on, for every set of notes and any  *)
(* number of births.  A run believes what its pages told it: the invariant   *)
(* says how far that is still so while others go on making, deleting and     *)
(* losing files, in a round and in a scan.                                   *)
EXTENDS PullRun, SequenceTheorems, TLAPS

-----------------------------------------------------------------------------
(* The types.                                                                *)

Cursors == {"none", "good"} \cup Kinds
Tellings == UNION {[S -> BOOLEAN] : S \in SUBSET Files}
Runs ==
  [rescan : {"no"} \cup Kinds, page : {"stored", "good"} \cup Kinds, pos : SUBSET Files,
   told : Tellings, due : SUBSET Files, pages : Seq(SUBSET Files), seen : SUBSET Files,
   renewed : BOOLEAN, todo : SUBSET Notes]
Stages == {"idle", "read", "decided", "list", "listing", "apply", "push"}

TypeOK ==
  /\ row \in [Notes -> Rows \cup {NoRow}]
  /\ cursor \in Cursors /\ remote \in SUBSET Files
  /\ births \in [Notes -> 0..MaxBirths] /\ news \in SUBSET Files
  /\ pc \in Stages /\ run \in Runs /\ calm \in BOOLEAN
  /\ deleted \in SUBSET Notes /\ mayReturn \in SUBSET Notes

-----------------------------------------------------------------------------
(* The invariant.                                                            *)

\* A file is the latest its note has had.
Latest(f) == f[2] = births[f[1]]

\* A note has one file at most, its latest; its last is never taken away.
WorldOK ==
  /\ \A f \in remote : Latest(f)
  /\ \A n \in Notes : births[n] = MaxBirths => <<n, births[n]>> \in remote

\* A row is of a file of its note, or has something to send.
RowOK(n) ==
  IF row[n].file = NoFile THEN row[n].dirty
  ELSE row[n].file[1] = n

Has(f) == row[f[1]] # NoRow /\ row[f[1]].file = f

\* What the stored cursor answers for.
RowsOK ==
  /\ \A n \in Held(row) : RowOK(n)
  /\ Dirty(row) \subseteq mayReturn
  /\ cursor = "upload" => Held(row) \subseteq mayReturn
  /\ cursor # "upload" => \A n \in Held(row) : row[n].file \in remote \cup {NoFile} \/ n \in deleted
  /\ cursor = "good" =>
       /\ \A f \in remote : f \in news \/ Has(f)
       /\ \A n \in Held(row) : row[n].file \in remote \cup news \cup {NoFile}
       /\ \A f \in news \ remote : f[1] \in deleted

Round == {"read", "decided"}
Scan == {"list", "listing", "apply"}

\* Which cursor a run has been refused, and which it goes on from.
RunOK ==
  /\ pc \notin Round \cup Scan => run = [Idle EXCEPT !.renewed = run.renewed, !.todo = run.todo]
  /\ pc = "idle" => run = Idle
  /\ pc = "list" => run = [Idle EXCEPT !.renewed = run.renewed, !.rescan = run.rescan]
  /\ pc \in {"decided", "listing", "apply"} => run.page # "stored"
  /\ pc \in Round => run.rescan = "no" /\ cursor # "none" /\ run.page \in {"stored", cursor}
  /\ pc \in Scan /\ run.rescan = "no" => cursor = "none"
  /\ run.rescan # "no" => cursor # "good" /\ (run.rescan = "upload" <=> cursor = "upload")
  /\ run.page = "upload" => cursor = "upload"

\* What was read of changes is so, but for what the cursor has still to tell.
RoundOK ==
  pc \in Round =>
    /\ \A f \in DOMAIN run.told : IF run.told[f] THEN Latest(f) ELSE f[1] \in deleted
    /\ run.page = "stored" => DOMAIN run.told = {}
    /\ run.page \in {"good", "reset"} =>
         /\ news \subseteq DOMAIN run.told \cup run.pos
         /\ \A f \in DOMAIN run.told \ run.pos : run.told[f] <=> f \in remote
         /\ \A f \in run.pos \ remote : f[1] \in deleted

Named(q) == UNION {q[i] : i \in DOMAIN q}
Spoken == Named(run.pages) \cup run.seen

\* A listing names what there is, but for what is still due and what the
\* cursor has still to tell; a row's file is named unless it is gone.
ScanOK ==
  pc \in {"listing", "apply"} =>
    /\ \A f \in Spoken : Latest(f)
    /\ remote \subseteq Spoken \cup run.due \cup run.pos
    /\ run.due \subseteq remote
    /\ run.page # "upload" =>
         /\ Spoken \subseteq remote \cup run.pos
         /\ \A f \in run.pos \ remote : f[1] \in deleted
    /\ \A n \in Held(row) : row[n].file \in remote => row[n].file \in Spoken \cup run.due
    /\ \A f \in run.seen \cap remote : f \in run.pos \/ Has(f)
    /\ pc = "listing" => run.seen = {}
    /\ pc = "apply" => run.due = {} /\ run.pages # <<>>

IInv == TypeOK /\ WorldOK /\ RowsOK /\ RunOK /\ RoundOK /\ ScanOK

-----------------------------------------------------------------------------
(* Operators.                                                                *)

LEMMA NamedFacts ==
  ASSUME NEW q \in Seq(SUBSET Files)
  PROVE  /\ Named(q) \in SUBSET Files
         /\ \A S \in SUBSET Files :
              /\ Append(q, S) \in Seq(SUBSET Files) /\ Append(q, S) # <<>>
              /\ Named(Append(q, S)) = Named(q) \cup S
         /\ q # <<>> =>
              /\ Head(q) \in SUBSET Files /\ Tail(q) \in Seq(SUBSET Files)
              /\ Named(q) = Head(q) \cup Named(Tail(q))
              /\ Len(q) = 1 => Named(Tail(q)) = {}
              /\ Len(q) # 1 => Tail(q) # <<>>
<1>1. DOMAIN q = 1..Len(q) /\ Len(q) \in Nat /\ \A i \in 1..Len(q) : q[i] \in SUBSET Files
  OBVIOUS
<1>2. Named(q) \in SUBSET Files BY <1>1 DEF Named
<1>3. ASSUME NEW S \in SUBSET Files
      PROVE  /\ Append(q, S) \in Seq(SUBSET Files) /\ Append(q, S) # <<>>
             /\ Named(Append(q, S)) = Named(q) \cup S
  <2> DEFINE a == Append(q, S)
  <2>1. /\ a \in Seq(SUBSET Files) /\ a # <<>> /\ DOMAIN a = 1..(Len(q) + 1)
        /\ a[Len(q) + 1] = S /\ \A i \in 1..Len(q) : a[i] = q[i]
    BY <1>1
  <2> HIDE DEF a
  <2>2. DOMAIN a = DOMAIN q \cup {Len(q) + 1} BY <1>1, <2>1
  <2>3. Named(a) = Named(q) \cup S BY <1>1, <2>1, <2>2 DEF Named
  <2> QED BY <2>1, <2>3 DEF a
<1>4. ASSUME q # <<>>
      PROVE  /\ Head(q) \in SUBSET Files /\ Tail(q) \in Seq(SUBSET Files)
             /\ Named(q) = Head(q) \cup Named(Tail(q))
             /\ Len(q) = 1 => Named(Tail(q)) = {}
             /\ Len(q) # 1 => Tail(q) # <<>>
  <2> DEFINE t == Tail(q)
  <2>1. /\ Len(q) > 0 /\ Head(q) = q[1] /\ t \in Seq(SUBSET Files) /\ Len(t) = Len(q) - 1
        /\ \A i \in 1..Len(t) : t[i] = q[i + 1]
    BY <1>1, <1>4
  <2>2. DOMAIN t = 1..(Len(q) - 1) BY <2>1
  <2> HIDE DEF t
  <2>3. Named(q) = q[1] \cup Named(t)
    <3>1. ASSUME NEW i \in DOMAIN q PROVE q[i] \subseteq q[1] \cup Named(t)
      <4>1. CASE i = 1 BY <4>1
      <4>2. CASE i # 1
        <5>1. i - 1 \in DOMAIN t /\ t[i - 1] = q[i] BY <1>1, <2>1, <2>2, <4>2
        <5> QED BY <5>1 DEF Named
      <4> QED BY <4>1, <4>2
    <3>2. q[1] \subseteq Named(q) BY <1>1, <2>1 DEF Named
    <3>3. ASSUME NEW i \in DOMAIN t PROVE t[i] \subseteq Named(q)
      <4>1. i + 1 \in DOMAIN q /\ t[i] = q[i + 1] BY <1>1, <2>1, <2>2
      <4> QED BY <4>1 DEF Named
    <3> QED BY <3>1, <3>2, <3>3 DEF Named
  <2>4. Len(q) = 1 => Named(t) = {} BY <2>2 DEF Named
  <2>5. Len(q) # 1 => t # <<>> BY <1>1, <2>1
  <2> QED BY <1>1, <2>1, <2>3, <2>4, <2>5 DEF t
<1> QED BY <1>2, <1>3, <1>4

LEMMA NothingNamed == Named(<<>>) = {}
BY DEF Named

LEMMA TellingFacts ==
  ASSUME NEW told \in Tellings
  PROVE  DOMAIN told \in SUBSET Files /\ \A f \in DOMAIN told : told[f] \in BOOLEAN
BY DEF Tellings

LEMMA IdleOK == Idle \in Runs
<1>1. [f \in {} |-> FALSE] \in Tellings BY DEF Tellings
<1>2. <<>> \in Seq(SUBSET Files) OBVIOUS
<1> QED BY <1>1, <1>2 DEF Idle, Runs

\* A file is a note and a number.
LEMMA FileFacts ==
  ASSUME NEW f \in Files
  PROVE  f[1] \in Notes /\ f[2] \in Nat \ {0} /\ f[2] <= MaxBirths /\ f = <<f[1], f[2]>> /\ f # NoFile
BY PullRunAssumption DEF Files

LEMMA RowFacts ==
  /\ \A r \in Rows : /\ r.file \in Files \cup {NoFile} /\ r.dirty \in BOOLEAN /\ r # NoRow
                     /\ r = [file |-> r.file, dirty |-> r.dirty]
                     /\ \A f \in Files \cup {NoFile} :
                          /\ [r EXCEPT !.file = f] \in Rows
                          /\ [r EXCEPT !.file = f].file = f /\ [r EXCEPT !.file = f].dirty = r.dirty
  /\ \A f \in Files \cup {NoFile}, b \in BOOLEAN : [file |-> f, dirty |-> b] \in Rows
BY PullRunAssumption DEF Rows

\* What a batch makes of note n comes to one of four things.
Decided(n, told, d) ==
  \/ row[n] = NoRow /\ d = NoRow /\ There(n, told) \cap remote = {}
  \/ \E f \in There(n, told) :
       /\ d # NoRow /\ d.file = f
       /\ IF row[n] = NoRow THEN f \in remote /\ d.dirty = FALSE ELSE d.dirty = row[n].dirty
  \/ /\ row[n] # NoRow /\ There(n, told) = {} /\ row[n].file \in DOMAIN told
     /\ IF row[n].dirty THEN d # NoRow /\ d.file = NoFile /\ d.dirty = TRUE ELSE d = NoRow
  \/ row[n] # NoRow /\ There(n, told) = {} /\ row[n].file \notin DOMAIN told /\ d = row[n]

LEMMA DecidedCases ==
  ASSUME row \in [Notes -> Rows \cup {NoRow}], remote \in SUBSET Files,
         NEW told \in Tellings, NEW n \in Notes, NEW d, d = DecidedNote(n, told)
  PROVE  d \in Rows \cup {NoRow} /\ Decided(n, told, d)
<1> DEFINE r == row[n]
           there == Readable(n, told)
<1>1. r \in Rows \cup {NoRow} OBVIOUS
<1>2. There(n, told) \subseteq Files BY TellingFacts DEF There
<1>3. CASE there # {}
  <2>1. (CHOOSE g \in there : TRUE) \in there BY <1>3
  <2>2. PICK f \in there :
          d = IF r = NoRow THEN [file |-> f, dirty |-> FALSE] ELSE [r EXCEPT !.file = f]
    BY <1>3, <2>1 DEF DecidedNote
  <2>3. f \in There(n, told) /\ (r = NoRow => f \in remote) BY DEF Readable
  <2>4. f \in Files BY <1>2, <2>3
  <2>5. CASE r = NoRow
    <3>1. d = [file |-> f, dirty |-> FALSE] BY <2>2, <2>5
    <3>2. d \in Rows BY <2>4, <3>1 DEF Rows
    <3>3. d.file = f /\ d.dirty = FALSE BY <3>1
    <3>4. d # NoRow BY <3>2, RowFacts
    <3> QED BY <2>3, <2>5, <3>2, <3>3, <3>4 DEF Decided
  <2>6. CASE r # NoRow
    <3>1. d = [r EXCEPT !.file = f] BY <2>2, <2>6
    <3>2. d \in Rows /\ d.file = f /\ d.dirty = r.dirty BY <1>1, <2>4, <2>6, <3>1, RowFacts
    <3>3. d # NoRow BY <3>2, RowFacts
    <3> QED BY <2>3, <2>6, <3>2, <3>3 DEF Decided
  <2> QED BY <2>5, <2>6
<1>4. CASE there = {}
  <2>1. d = IF r # NoRow /\ r.file \in DOMAIN told THEN Forgotten(r) ELSE r
    BY <1>4 DEF DecidedNote
  <2>2. (r = NoRow => There(n, told) \cap remote = {}) /\ (r # NoRow => There(n, told) = {})
    BY <1>4 DEF Readable
  <2>3. CASE r # NoRow /\ r.file \in DOMAIN told
    <3>1. d = Forgotten(r) BY <2>1, <2>3
    <3>2. r \in Rows /\ r.dirty \in BOOLEAN BY <1>1, <2>3, RowFacts
    <3>3. CASE r.dirty
      <4>1. d = [r EXCEPT !.file = NoFile] BY <3>1, <3>3 DEF Forgotten
      <4>2. d \in Rows /\ d.file = NoFile /\ d.dirty = TRUE BY <3>2, <3>3, <4>1, RowFacts
      <4>3. d # NoRow BY <4>2, RowFacts
      <4> QED BY <2>2, <2>3, <3>3, <4>2, <4>3 DEF Decided
    <3>4. CASE ~r.dirty
      <4>1. d = NoRow BY <3>1, <3>4 DEF Forgotten
      <4> QED BY <2>2, <2>3, <3>4, <4>1 DEF Decided
    <3> QED BY <3>3, <3>4
  <2>4. CASE ~(r # NoRow /\ r.file \in DOMAIN told)
    <3>1. d = r BY <2>1, <2>4
    <3> QED BY <1>1, <2>2, <2>4, <3>1 DEF Decided
  <2> QED BY <2>3, <2>4
<1> QED BY <1>3, <1>4

LEMMA Decisions ==
  ASSUME row \in [Notes -> Rows \cup {NoRow}], remote \in SUBSET Files, NEW told \in Tellings
  PROVE  \A n \in Notes : /\ DecideAll(told)[n] \in Rows \cup {NoRow}
                          /\ Decided(n, told, DecideAll(told)[n])
BY DecidedCases DEF DecideAll

LEMMA DecideTypes ==
  ASSUME row \in [Notes -> Rows \cup {NoRow}], remote \in SUBSET Files, NEW told \in Tellings
  PROVE  DecideAll(told) \in [Notes -> Rows \cup {NoRow}]
BY Decisions DEF DecideAll

-----------------------------------------------------------------------------
(* Where a run begins and ends.                                              *)

\* The rows and the files as they were, the run elsewhere in its course.
Same == UNCHANGED <<row, cursor, remote, births, news, deleted, mayReturn>>

LEMMA SameOK ==
  ASSUME IInv, Same
  PROVE  /\ WorldOK' /\ RowsOK'
         /\ pc' \in Stages /\ run' \in Runs /\ calm' \in BOOLEAN => TypeOK'
BY DEF IInv, Same, TypeOK, WorldOK, RowsOK, RowOK, Held, Dirty, Has, Latest

LEMMA AtIdle ==
  ASSUME pc' = "idle", run' = Idle
  PROVE  run' \in Runs /\ pc' \in Stages /\ RunOK' /\ RoundOK' /\ ScanOK'
<1>1. Idle.page = "stored" /\ Idle.rescan = "no" /\ Idle.renewed = FALSE /\ Idle.todo = {} BY DEF Idle
<1>2. Idle = [Idle EXCEPT !.renewed = Idle.renewed, !.todo = Idle.todo] BY DEF Idle
<1> QED BY <1>1, <1>2, IdleOK DEF RunOK, RoundOK, ScanOK, Round, Scan, Stages

LEMMA EndsStep == ASSUME IInv, Ends, Same, UNCHANGED calm PROVE IInv'
BY SameOK, AtIdle DEF Ends, IInv, TypeOK

LEMMA AttemptStep ==
  ASSUME IInv, NEW r, Attempt(r), Same, UNCHANGED calm, r.renewed \in BOOLEAN,
         r.rescan \in {"no"} \cup Kinds,
         r.rescan # "no" => cursor # "good" /\ (r.rescan = "upload" <=> cursor = "upload")
  PROVE  IInv'
<1>1. run' = [Idle EXCEPT !.renewed = r.renewed, !.rescan = r.rescan]
  BY DEF Attempt
<1>2. /\ run'.rescan = r.rescan /\ run'.page = "stored" /\ run'.renewed = r.renewed
      /\ run'.todo = {} /\ run'.pos = {} /\ DOMAIN run'.told = {} /\ run' \in Runs
  BY <1>1, IdleOK DEF Idle, Runs
<1>3. pc' = IF cursor # "none" /\ r.rescan = "no" THEN "read" ELSE "list" BY DEF Attempt
<1>4. RunOK'
  BY <1>1, <1>2, <1>3 DEF RunOK, Same, Round, Scan
<1>5. RoundOK' BY <1>2, <1>3 DEF RoundOK
<1>6. ScanOK' BY <1>3 DEF ScanOK
<1>7. TypeOK' /\ WorldOK' /\ RowsOK' BY <1>2, <1>3, SameOK DEF Stages, IInv, TypeOK
<1> QED BY <1>4, <1>5, <1>6, <1>7 DEF IInv

LEMMA InitOK == Init => IInv
<1> SUFFICES ASSUME Init PROVE IInv OBVIOUS
<1>1. row = [n \in Notes |-> NoRow] /\ cursor = "none" /\ news = {} /\ pc = "idle" /\ run = Idle
      /\ calm = FALSE /\ deleted = {} /\ mayReturn = {}
  BY DEF Init
<1>2. PICK there \in SUBSET Notes :
        /\ remote = {<<n, 1>> : n \in there}
        /\ births = [n \in Notes |-> IF n \in there THEN 1 ELSE 0]
  BY DEF Init
<1>3. remote \in SUBSET Files /\ births \in [Notes -> 0..MaxBirths]
  BY <1>2, PullRunAssumption DEF Files
<1>4. TypeOK BY <1>1, <1>3, IdleOK DEF TypeOK, Cursors, Stages
<1>5. WorldOK BY <1>2, PullRunAssumption DEF WorldOK, Latest
<1>6. Held(row) = {} BY <1>1 DEF Held
<1>7. RowsOK BY <1>1, <1>6 DEF RowsOK, Dirty
<1>8. RunOK /\ RoundOK /\ ScanOK
  BY <1>1 DEF RunOK, RoundOK, ScanOK, Round, Scan, Idle
<1> QED BY <1>4, <1>5, <1>7, <1>8 DEF IInv

-----------------------------------------------------------------------------
(* Steps of the pull that leave the rows as they are.                        *)

\* What a run's record holds, and what writing one field leaves.
LEMMA RunFacts ==
  ASSUME NEW r \in Runs
  PROVE  /\ r.rescan \in {"no"} \cup Kinds /\ r.page \in {"stored", "good"} \cup Kinds
         /\ r.pos \in SUBSET Files /\ r.told \in Tellings /\ r.due \in SUBSET Files
         /\ r.pages \in Seq(SUBSET Files) /\ r.seen \in SUBSET Files
         /\ r.renewed \in BOOLEAN /\ r.todo \in SUBSET Notes
BY DEF Runs

LEMMA StartStep == ASSUME IInv, Start PROVE IInv'
<1>1. Same /\ UNCHANGED calm /\ Attempt(Idle) BY DEF Start, Same, world
<1>2. Idle.renewed = FALSE /\ Idle.rescan = "no" BY DEF Idle
<1> QED BY <1>1, <1>2, AttemptStep

LEMMA RefusedCursorStep == ASSUME IInv, RefusedCursor PROVE IInv'
<1>1. Same /\ UNCHANGED calm /\ CursorRefused BY DEF RefusedCursor, Same, world
<1>2. run \in Runs BY DEF IInv, TypeOK
<1>3. CASE run.rescan = "no"
  <2> DEFINE r == [run EXCEPT !.rescan = Asked]
  <2>1. Attempt(r) BY <1>3 DEF RefusedCursor
  <2>2. Asked \in Kinds BY <1>1, <1>2, RunFacts DEF CursorRefused, Asked, Kinds
  <2>3. r.renewed = run.renewed /\ r.rescan = Asked BY <1>2 DEF Runs
  <2>4. cursor # "good" /\ (Asked = "upload" <=> cursor = "upload")
    BY <1>1, <1>3, <2>2 DEF CursorRefused, Asked, IInv, RunOK, Round, Scan, Kinds
  <2> HIDE DEF r
  <2> QED BY <1>1, <1>2, <2>1, <2>2, <2>3, <2>4, RunFacts, AttemptStep
<1>4. CASE run.rescan # "no"
  BY <1>1, <1>4, EndsStep DEF RefusedCursor
<1> QED BY <1>3, <1>4

LEMMA PushEndsStep == ASSUME IInv, PushEnds PROVE IInv'
BY EndsStep DEF PushEnds, Same, world

LEMMA RefusedTokenStep == ASSUME IInv, RefusedToken PROVE IInv'
<1>1. Same /\ UNCHANGED calm BY DEF RefusedToken, Same, world
<1>2. run \in Runs /\ pc \in Stages BY DEF IInv, TypeOK
<1>3. Renewed \in Runs /\ Renewed.rescan = run.rescan /\ Renewed.renewed = TRUE
  BY <1>2 DEF Renewed, Runs
<1>4. CASE Ends BY <1>1, <1>4, EndsStep
<1>5. CASE pc = "push" /\ run' = Renewed /\ UNCHANGED pc
  <2>1. run' \in Runs /\ pc' = "push" BY <1>3, <1>5
  <2>2. run = [Idle EXCEPT !.renewed = run.renewed, !.todo = run.todo]
    BY <1>5 DEF IInv, RunOK, Round, Scan
  <2>3. run' = [Idle EXCEPT !.renewed = TRUE, !.todo = run.todo]
    BY <1>5, <2>2 DEF Renewed, Idle
  <2>4. run'.renewed = TRUE /\ run'.todo = run.todo /\ run'.rescan = "no" /\ run'.page = "stored"
    BY <2>3 DEF Idle
  <2>5. RunOK' BY <2>1, <2>3, <2>4 DEF RunOK, Round, Scan
  <2>6. RoundOK' /\ ScanOK' BY <2>1 DEF RoundOK, ScanOK, Round
  <2> QED BY <1>1, <1>2, <1>5, <2>1, <2>5, <2>6, SameOK DEF IInv, TypeOK
<1>6. CASE pc # "push" /\ Attempt(Renewed)
  BY <1>1, <1>2, <1>3, <1>6, RunFacts, AttemptStep DEF IInv, RunOK
<1> QED BY <1>4, <1>5, <1>6 DEF RefusedToken

LEMMA CalmStep == ASSUME IInv, Calm PROVE IInv'
<1>1. Same /\ calm' \in BOOLEAN /\ UNCHANGED <<pc, run>> BY DEF Calm, Same, world
<1>2. RunOK' /\ RoundOK' BY <1>1 DEF IInv, RunOK, RoundOK, Same, Latest
<1>3. ScanOK' BY <1>1 DEF IInv, ScanOK, Same, Spoken, Named, Latest, Held, Has
<1> QED BY <1>1, <1>2, <1>3, SameOK DEF IInv, TypeOK

\* What a page says is so as it is read; what was said before stays so, but for
\* what the page's cursor has still to tell.
LEMMA ReadPageStep == ASSUME IInv, ReadPage PROVE IInv'
<1>1. Same /\ UNCHANGED calm /\ pc = "read" /\ Asked = "good" BY DEF ReadPage, Same, world
<1>2. run \in Runs /\ news \in SUBSET Files /\ remote \in SUBSET Files BY DEF IInv, TypeOK
<1>3. PICK S \in SUBSET Unheard :
        /\ run' = [run EXCEPT !.page = "good", !.pos = Unheard \ S,
                     !.told = [f \in DOMAIN @ \cup S |-> IF f \in S THEN f \in remote ELSE @[f]]]
        /\ pc' = IF Unheard = S THEN "decided" ELSE "read"
  BY DEF ReadPage
<1>4. cursor = "good" /\ run.rescan = "no" /\ (run.page = "stored" \/ run.page = "good")
  BY <1>1 DEF IInv, RunOK, Asked, Round
\* What the page is asked of: the news, or what the last page left.
<1>5. /\ Unheard \in SUBSET Files
      /\ \A f \in Unheard \ remote : f[1] \in deleted
      /\ news \subseteq DOMAIN run.told \cup Unheard
      /\ \A f \in DOMAIN run.told \ Unheard : run.told[f] <=> f \in remote
  <2>1. CASE run.page = "good"
    BY <1>1, <1>2, <2>1, RunFacts DEF IInv, RoundOK, Round, Unheard
  <2>2. CASE run.page = "stored"
    <3>1. Unheard = news BY <2>2 DEF Unheard
    <3>2. DOMAIN run.told = {} BY <1>1, <2>2 DEF IInv, RoundOK, Round
    <3> QED BY <1>2, <1>4, <3>1, <3>2 DEF IInv, RowsOK
  <2> QED BY <1>4, <2>1, <2>2
<1>6. DOMAIN run.told \in SUBSET Files /\ \A f \in DOMAIN run.told : run.told[f] \in BOOLEAN
  BY <1>2, RunFacts, TellingFacts
<1> DEFINE told == [f \in DOMAIN run.told \cup S |-> IF f \in S THEN f \in remote ELSE run.told[f]]
<1>7. told \in Tellings
  <2>1. DOMAIN run.told \cup S \in SUBSET Files BY <1>5, <1>6
  <2>2. \A f : (f \in remote) \in BOOLEAN OBVIOUS
  <2>3. \A f \in DOMAIN run.told \cup S :
          (IF f \in S THEN f \in remote ELSE run.told[f]) \in BOOLEAN
    BY <1>6, <2>2
  <2>4. told \in [DOMAIN run.told \cup S -> BOOLEAN] BY <2>3
  <2> QED BY <2>1, <2>4 DEF Tellings
<1>8. /\ run' \in Runs /\ run'.page = "good" /\ run'.pos = Unheard \ S /\ run'.told = told
      /\ run'.rescan = "no"
  BY <1>2, <1>3, <1>4, <1>5, <1>7 DEF Runs
<1>9. pc' \in Round BY <1>3 DEF Round
<1>10. RunOK' BY <1>1, <1>4, <1>8, <1>9 DEF RunOK, Round, Scan, Same
<1>11. RoundOK'
  <2>1. ASSUME NEW f \in DOMAIN told
        PROVE  IF told[f] THEN Latest(f) ELSE f[1] \in deleted
    <3>1. CASE f \in S BY <1>5, <3>1 DEF IInv, WorldOK
    <3>2. CASE f \notin S BY <1>1, <3>2 DEF IInv, RoundOK, Round
    <3> QED BY <3>1, <3>2
  <2>2. news \subseteq DOMAIN told \cup (Unheard \ S) BY <1>5
  <2>3. \A f \in DOMAIN told \ (Unheard \ S) : told[f] <=> f \in remote BY <1>5
  <2> HIDE DEF told
  <2> QED BY <1>1, <1>5, <1>8, <2>1, <2>2, <2>3 DEF RoundOK, Same, Latest
<1>12. ScanOK' BY <1>9 DEF ScanOK, Round
<1> QED BY <1>1, <1>8, <1>9, <1>10, <1>11, <1>12, SameOK DEF IInv, TypeOK, Round, Stages

\* The first page owes all there is; a page after it names some of what is
\* there and leaves that much less due.
LEMMA ListPageStep == ASSUME IInv, ListPage PROVE IInv'
<1> DEFINE named == Named(run.pages)
           due   == IF pc = "list" THEN remote ELSE run.due
           pos   == IF pc = "list" THEN {} ELSE run.pos
<1>1. /\ Same /\ UNCHANGED calm
      /\ \/ pc = "list"
         \/ pc = "listing" /\ run.page = "good"
  BY DEF ListPage, Same, world
<1>2. run \in Runs /\ remote \in SUBSET Files BY DEF IInv, TypeOK
<1>3. PICK S \in SUBSET (remote \ named) :
        /\ run' = [run EXCEPT !.page = "good", !.pos = pos, !.due = due \ S, !.pages = Append(@, S)]
        /\ pc' = IF due \subseteq S THEN "apply" ELSE "listing"
  BY Zenon DEF ListPage, Named
\* What held before the page, the first one's beginning included.
<1>4. /\ pos \in SUBSET Files /\ due \in SUBSET remote /\ run.seen = {}
      /\ \A f \in named : Latest(f)
      /\ remote \subseteq named \cup due \cup pos
      /\ named \subseteq remote \cup pos
      /\ \A f \in pos \ remote : f[1] \in deleted
      /\ \A n \in Held(row) : row[n].file \in remote => row[n].file \in named \cup due
  <2>1. CASE pc = "list"
    <3>1. run.pages = <<>> /\ run.seen = {} BY <2>1 DEF IInv, RunOK, Idle
    <3> QED BY <2>1, <3>1, NothingNamed
  <2>2. CASE pc = "listing"
    <3>1. run.seen = {} /\ Spoken = named /\ run.page = "good"
      BY <1>1, <2>2 DEF IInv, ScanOK, Spoken
    <3> QED BY <1>2, <2>2, <3>1, RunFacts DEF IInv, ScanOK
  <2> QED BY <1>1, <2>1, <2>2
<1>5. /\ Append(run.pages, S) \in Seq(SUBSET Files) /\ Append(run.pages, S) # <<>>
      /\ Named(Append(run.pages, S)) = named \cup S
  BY <1>2, RunFacts, NamedFacts
<1>6. /\ run' \in Runs /\ run'.page = "good" /\ run'.pos = pos /\ run'.due = due \ S
      /\ run'.pages = Append(run.pages, S) /\ run'.seen = {} /\ run'.rescan = run.rescan
  BY <1>2, <1>3, <1>4, <1>5 DEF Runs
<1> HIDE DEF named, due, pos
<1>7. pc' \in {"listing", "apply"} /\ (pc' = "apply" => run'.due = {}) BY <1>3, <1>6
<1>8. RunOK'
  <2>1. pc \in Scan BY <1>1 DEF Scan
  <2> QED BY <1>1, <1>6, <1>7, <2>1 DEF IInv, RunOK, Round, Scan, Same
<1>9. Spoken' = named \cup S BY <1>5, <1>6 DEF Spoken
<1>10. ScanOK'
  <2>1. \A f \in named \cup S : Latest(f) BY <1>4 DEF IInv, WorldOK
  <2> QED BY <1>1, <1>4, <1>5, <1>6, <1>7, <1>9, <2>1 DEF ScanOK, Same, Latest, Held
<1>11. RoundOK' BY <1>7 DEF RoundOK, Round
<1> QED BY <1>1, <1>6, <1>7, <1>8, <1>10, <1>11, SameOK DEF IInv, TypeOK, Stages

-----------------------------------------------------------------------------
(* Batches applied.                                                          *)

\* A run that goes on to the push has nothing of its pull left.
LEMMA AtPush ==
  ASSUME pc' = "push", row' \in [Notes -> Rows \cup {NoRow}],
         run' = [Idle EXCEPT !.todo = Dirty(row')]
  PROVE  run' \in Runs /\ pc' \in Stages /\ RunOK' /\ RoundOK' /\ ScanOK'
<1>1. Dirty(row') \subseteq Notes BY DEF Dirty, Held
<1>2. /\ run' \in Runs /\ run'.page = "stored" /\ run'.rescan = "no"
      /\ run'.renewed = FALSE /\ run'.todo = Dirty(row')
      /\ run' = [Idle EXCEPT !.renewed = FALSE, !.todo = Dirty(row')]
  BY <1>1, IdleOK DEF Idle, Runs
<1> QED BY <1>2 DEF RunOK, RoundOK, ScanOK, Round, Scan, Stages

\* There is one file of a note that a page can say is there: its latest.
LEMMA OneThere ==
  ASSUME NEW told \in Tellings, NEW n \in Notes,
         \A f \in DOMAIN told : told[f] => Latest(f),
         NEW f \in There(n, told)
  PROVE  /\ f \in Files /\ f[1] = n /\ f \in DOMAIN told /\ told[f]
         /\ There(n, told) = {f} /\ f = <<n, births[n]>>
<1>1. \A g \in There(n, told) : /\ g \in Files /\ g[1] = n /\ g \in DOMAIN told /\ told[g]
                                /\ g = <<n, births[n]>>
  <2> SUFFICES ASSUME NEW g \in There(n, told)
               PROVE  /\ g \in Files /\ g[1] = n /\ g \in DOMAIN told /\ told[g]
                      /\ g = <<n, births[n]>>
    OBVIOUS
  <2>1. g \in Files /\ g[1] = n /\ g \in DOMAIN told /\ told[g] BY TellingFacts DEF There
  <2> QED BY <2>1, FileFacts DEF Latest
<1> QED BY <1>1

LEMMA ApplyRoundStep == ASSUME IInv, ApplyRound PROVE IInv'
<1> DEFINE told == run.told
           rows == DecideAll(told)
<1>1. /\ pc = "decided" /\ pc' = "push" /\ row' = rows /\ cursor' = run.page /\ news' = run.pos
      /\ run' = [Idle EXCEPT !.todo = Dirty(row')] /\ Doubted
      /\ UNCHANGED <<remote, births, calm, deleted>>
  BY DEF ApplyRound
<1>2. /\ TypeOK /\ run \in Runs /\ row \in [Notes -> Rows \cup {NoRow}] /\ remote \in SUBSET Files
      /\ told \in Tellings /\ rows \in [Notes -> Rows \cup {NoRow}]
      /\ run.page \in Cursors /\ run.pos \in SUBSET Files
  <2>1. run \in Runs /\ row \in [Notes -> Rows \cup {NoRow}] /\ remote \in SUBSET Files
    BY DEF IInv, TypeOK
  <2>2. run.page # "stored" BY <1>1 DEF IInv, RunOK
  <2> QED BY <2>1, <2>2, RunFacts, DecideTypes DEF IInv, Cursors
<1>3. run.page = cursor /\ cursor # "stored"
  BY <1>1, <1>2 DEF IInv, RunOK, Round, Cursors, Kinds
<1>4. /\ DOMAIN told \in SUBSET Files
      /\ \A f \in DOMAIN told : told[f] \in BOOLEAN
      /\ \A f \in DOMAIN told : told[f] => Latest(f)
      /\ \A f \in DOMAIN told : ~told[f] => f[1] \in deleted
      /\ cursor \in {"good", "reset"} =>
                            /\ news \subseteq DOMAIN told \cup run.pos
                            /\ \A f \in DOMAIN told \ run.pos : told[f] <=> f \in remote
                            /\ \A f \in run.pos \ remote : f[1] \in deleted
  BY <1>1, <1>2, <1>3, TellingFacts DEF IInv, RoundOK, Round
<1> HIDE DEF told, rows
\* What becomes of a note's row.
<1>5. \A n \in Notes : Decided(n, told, rows[n])
  BY <1>2, Decisions DEF rows
<1>6. rows \in [Notes -> Rows \cup {NoRow}] BY <1>2
<1>7. ASSUME NEW n \in Notes, NEW f \in There(n, told)
      PROVE  /\ f \in Files /\ f[1] = n /\ f \in DOMAIN told /\ told[f]
             /\ There(n, told) = {f} /\ f = <<n, births[n]>>
  BY <1>2, <1>4, OneThere
<1>8. \A n \in Held(rows) : RowOK(n)'
  <2> SUFFICES ASSUME NEW n \in Notes, rows[n] # NoRow PROVE RowOK(n)'
    BY DEF Held
  <2>1. row[n] # NoRow => RowOK(n) BY DEF IInv, RowsOK, Held
  <2> QED BY <1>1, <1>5, <1>7, <2>1, FileFacts DEF RowOK, Decided
<1>9. Dirty(rows) \subseteq mayReturn
  <2> SUFFICES ASSUME NEW n \in Notes, rows[n] # NoRow, rows[n].dirty PROVE n \in mayReturn
    BY DEF Dirty, Held
  <2>1. row[n] # NoRow /\ row[n].dirty BY <1>5 DEF Decided
  <2> QED BY <2>1 DEF IInv, RowsOK, Dirty, Held
<1>10. mayReturn \subseteq mayReturn' /\ mayReturn' \in SUBSET Notes
       /\ (cursor' = "upload" => Held(row') \subseteq mayReturn')
  <2>1. Held(row') \subseteq Notes BY DEF Held
  <2> QED BY <1>1, <1>2, <2>1 DEF Doubted, TypeOK
<1>11. cursor # "upload" => \A n \in Held(rows) : rows[n].file \in remote \cup {NoFile} \/ n \in deleted
  <2> SUFFICES ASSUME cursor # "upload", NEW n \in Notes, rows[n] # NoRow
               PROVE  rows[n].file \in remote \cup {NoFile} \/ n \in deleted
    BY DEF Held
  <2>1. row[n] # NoRow => row[n].file \in remote \cup {NoFile} \/ n \in deleted
    BY DEF IInv, RowsOK, Held
  <2>2. cursor \in {"good", "reset"}
    BY <1>1, <1>2, <1>3 DEF IInv, RunOK, Round, Cursors, Kinds
  <2> QED BY <1>4, <1>5, <1>7, <2>1, <2>2 DEF Decided
\* A cursor that goes on tells of what the rows have not, and of no more.
<1>12. ASSUME cursor = "good"
       PROVE  /\ \A f \in remote : f \in run.pos \/ (rows[f[1]] # NoRow /\ rows[f[1]].file = f)
              /\ \A n \in Held(rows) : rows[n].file \in remote \cup run.pos \cup {NoFile}
              /\ \A f \in run.pos \ remote : f[1] \in deleted
  <2>1. ASSUME NEW f \in remote, f \notin run.pos
        PROVE  rows[f[1]] # NoRow /\ rows[f[1]].file = f
    <3>1. f \in Files /\ f[1] \in Notes BY <1>2, FileFacts
    <3>2. f \in news \/ Has(f) BY <1>12 DEF IInv, RowsOK
    <3>3. CASE f \in DOMAIN told
      <4>1. f \in There(f[1], told) BY <1>4, <1>12, <2>1, <3>3 DEF There
      <4> QED BY <1>5, <1>7, <3>1, <4>1, FileFacts DEF Decided
    <3>4. CASE f \notin DOMAIN told
      <4>1. Has(f) BY <1>4, <1>12, <2>1, <3>2, <3>4
      <4>2. Latest(f) /\ f = <<f[1], births[f[1]]>>
        BY <2>1, <3>1, FileFacts DEF IInv, WorldOK, Latest
      <4>3. There(f[1], told) = {} BY <1>7, <3>1, <3>4, <4>2
      <4> QED BY <1>5, <3>1, <3>4, <4>1, <4>3 DEF Decided, Has
    <3> QED BY <3>3, <3>4
  <2>2. ASSUME NEW n \in Notes, rows[n] # NoRow
        PROVE  rows[n].file \in remote \cup run.pos \cup {NoFile}
    <3>1. row[n] # NoRow => row[n].file \in remote \cup news \cup {NoFile}
      BY <1>12 DEF IInv, RowsOK, Held
    <3>2. ASSUME NEW f \in There(n, told) PROVE f \in remote \cup run.pos
      BY <1>4, <1>7, <1>12
    <3> QED BY <1>4, <1>5, <1>12, <2>2, <3>1, <3>2 DEF Decided
  <2> QED BY <1>4, <1>12, <2>1, <2>2 DEF Held
<1>13. RowsOK'
  <2>1. /\ \A n \in Held(row') : RowOK(n)'
        /\ Dirty(row') \subseteq mayReturn'
    BY <1>1, <1>8, <1>9, <1>10
  <2>2. cursor' # "upload" => \A n \in Held(row') : row'[n].file \in remote' \cup {NoFile} \/ n \in deleted'
    BY <1>1, <1>3, <1>11
  <2>3. cursor' = "good" =>
          /\ \A f \in remote' : f \in news' \/ Has(f)'
          /\ \A n \in Held(row') : row'[n].file \in remote' \cup news' \cup {NoFile}
          /\ \A f \in news' \ remote' : f[1] \in deleted'
    BY <1>1, <1>3, <1>12 DEF Has
  <2> QED BY <1>10, <2>1, <2>2, <2>3 DEF RowsOK
<1>14. WorldOK' BY <1>1 DEF IInv, WorldOK, Latest
<1>15. run' \in Runs /\ pc' \in Stages /\ RunOK' /\ RoundOK' /\ ScanOK'
  BY <1>1, <1>2, AtPush
<1>16. TypeOK' BY <1>1, <1>2, <1>10, <1>15 DEF TypeOK
<1> QED BY <1>13, <1>14, <1>15, <1>16 DEF IInv

\* A page of a scan gives a note its file or leaves its row.
Paged(n, page, d) ==
  \/ row[n] = NoRow /\ d = NoRow
  \/ \E f \in page :
       f[1] = n /\ d # NoRow /\ d.file = f
       /\ d.dirty = IF row[n] = NoRow THEN FALSE ELSE row[n].dirty
  \/ row[n] # NoRow /\ d = row[n]

LEMMA PageFacts ==
  ASSUME IInv, pc = "apply"
  PROVE  LET page == Head(run.pages)
             seen == run.seen \cup page
             rows == DecideAll([f \in page |-> TRUE])
         IN  /\ rows \in [Notes -> Rows \cup {NoRow}]
             /\ \A n \in Notes : Paged(n, page, rows[n])
             /\ \A n \in Held(rows) : IF rows[n].file = NoFile THEN rows[n].dirty ELSE rows[n].file[1] = n
             /\ \A f \in seen \cap remote : f \in run.pos \/ (rows[f[1]] # NoRow /\ rows[f[1]].file = f)
             /\ page \subseteq Spoken
<1> DEFINE page == Head(run.pages)
           told == [f \in page |-> TRUE]
           seen == run.seen \cup page
           rows == DecideAll(told)
<1>1. /\ run \in Runs /\ row \in [Notes -> Rows \cup {NoRow}] /\ remote \in SUBSET Files
      /\ run.pages # <<>> /\ run.pages \in Seq(SUBSET Files)
  BY RunFacts DEF IInv, TypeOK, ScanOK
<1>2. page \in SUBSET Files /\ page \subseteq Spoken BY <1>1, NamedFacts DEF Spoken
<1>3. \A f \in Spoken : Latest(f) BY DEF IInv, ScanOK
<1>4. told \in Tellings /\ DOMAIN told = page /\ \A f \in page : told[f]
  <2>1. told \in [page -> BOOLEAN] OBVIOUS
  <2> QED BY <1>2, <2>1 DEF Tellings
<1> HIDE DEF told, page
<1>5. rows \in [Notes -> Rows \cup {NoRow}] BY <1>1, <1>4, DecideTypes
<1>6. \A n \in Notes : Decided(n, told, rows[n]) BY <1>1, <1>4, Decisions
<1> HIDE DEF rows
<1>7. \A n \in Notes : row[n] # NoRow => RowOK(n) BY DEF IInv, RowsOK, Held
<1>8. ASSUME NEW n \in Notes
      PROVE  /\ There(n, told) = {f \in page : f[1] = n}
             /\ \A f \in There(n, told) : There(n, told) = {f} /\ f = <<n, births[n]>>
  <2>1. There(n, told) = {f \in page : f[1] = n} BY <1>4 DEF There
  <2>2. \A f \in DOMAIN told : told[f] => Latest(f) BY <1>2, <1>3, <1>4
  <2> QED BY <1>4, <2>1, <2>2, OneThere
<1>9. ASSUME NEW n \in Notes PROVE Paged(n, page, rows[n])
  <2>1. CASE row[n] # NoRow /\ There(n, told) = {} /\ row[n].file \in DOMAIN told
    <3>1. row[n].file \in Files /\ row[n].file \in page BY <1>2, <1>4, <2>1
    <3>2. row[n].file[1] = n BY <1>7, <2>1, <3>1, FileFacts DEF RowOK
    <3> QED BY <1>8, <2>1, <3>1, <3>2
  <2>2. CASE ~(row[n] # NoRow /\ There(n, told) = {} /\ row[n].file \in DOMAIN told)
    <3>1. \A f \in There(n, told) : f \in page /\ f[1] = n BY <1>8
    <3> QED BY <1>6, <2>2, <3>1 DEF Decided, Paged
  <2> QED BY <2>1, <2>2
<1>10. ASSUME NEW n \in Held(rows)
       PROVE  IF rows[n].file = NoFile THEN rows[n].dirty ELSE rows[n].file[1] = n
  <2>1. n \in Notes /\ rows[n] # NoRow BY DEF Held
  <2>2. \A f \in page : f # NoFile BY <1>2, FileFacts
  <2> QED BY <1>7, <1>9, <2>1, <2>2 DEF Paged, RowOK
<1>11. ASSUME NEW f \in seen \cap remote
       PROVE  f \in run.pos \/ (rows[f[1]] # NoRow /\ rows[f[1]].file = f)
  <2>1. f \in Files /\ f[1] \in Notes BY <1>1, FileFacts
  <2>2. CASE f \in page
    <3>1. f \in There(f[1], told) BY <1>8, <2>1, <2>2
    <3>2. There(f[1], told) = {f} BY <1>8, <2>1, <3>1
    <3> QED BY <1>6, <2>1, <3>1, <3>2 DEF Decided
  <2>3. CASE f \in run.seen /\ f \notin page /\ f \notin run.pos
    <3>1. Has(f) BY <2>3 DEF IInv, ScanOK
    <3>2. f = <<f[1], births[f[1]]>> BY <2>1, FileFacts DEF IInv, WorldOK, Latest
    <3>3. \A g \in page : g[1] # f[1] BY <1>8, <2>1, <2>3, <3>2
    <3> QED BY <1>9, <2>1, <3>1, <3>3 DEF Paged, Has
  <2> QED BY <2>2, <2>3
<1> QED BY <1>2, <1>5, <1>9, <1>10, <1>11 DEF rows, told, page

\* What a scan's page sets about the run and the rows, and what held of them.
LEMMA ApplyPageStep == ASSUME IInv, ApplyPage PROVE IInv'
<1> DEFINE page == Head(run.pages)
           last == Len(run.pages) = 1
           seen == run.seen \cup page
           rows == DecideAll([f \in page |-> TRUE])
<1>1. /\ pc = "apply" /\ row' = Reconcile(rows, seen, Upload, last)
      /\ IF last THEN cursor' = run.page /\ news' = run.pos ELSE UNCHANGED <<cursor, news>>
      /\ pc' = IF last THEN "push" ELSE "apply"
      /\ run' = IF last THEN [Idle EXCEPT !.todo = Dirty(row')]
                ELSE [run EXCEPT !.pages = Tail(@), !.seen = seen]
      /\ Doubted
      /\ UNCHANGED <<remote, births, calm, deleted>>
  BY DEF ApplyPage, CarriesCursor
<1>2. /\ TypeOK /\ run \in Runs /\ row \in [Notes -> Rows \cup {NoRow}] /\ remote \in SUBSET Files
      /\ run.pages # <<>> /\ run.pages \in Seq(SUBSET Files) /\ run.pos \in SUBSET Files
  BY <1>1, RunFacts DEF IInv, TypeOK, ScanOK
<1>3. /\ page \in SUBSET Files /\ Spoken = seen \cup Named(Tail(run.pages))
      /\ Tail(run.pages) \in Seq(SUBSET Files)
      /\ last => Named(Tail(run.pages)) = {}
      /\ ~last => Tail(run.pages) # <<>>
  BY <1>2, NamedFacts DEF Spoken
<1>4. /\ rows \in [Notes -> Rows \cup {NoRow}]
      /\ \A n \in Notes : Paged(n, page, rows[n])
      /\ \A n \in Held(rows) : IF rows[n].file = NoFile THEN rows[n].dirty ELSE rows[n].file[1] = n
      /\ \A f \in seen \cap remote : f \in run.pos \/ (rows[f[1]] # NoRow /\ rows[f[1]].file = f)
  BY <1>1, PageFacts
<1> HIDE DEF rows, last, page
<1>5. run.page \in Cursors /\ cursor # "good"
      /\ (run.rescan = "upload" => cursor = "upload")
      /\ (run.page = "upload" => cursor = "upload")
  BY <1>1, <1>2, RunFacts DEF IInv, RunOK, Scan, Cursors
<1>6. /\ \A f \in Spoken : Latest(f)
      /\ remote \subseteq Spoken \cup run.pos
      /\ run.due = {}
      /\ run.page # "upload" =>
           /\ Spoken \subseteq remote \cup run.pos
           /\ \A f \in run.pos \ remote : f[1] \in deleted
      /\ \A n \in Held(row) : row[n].file \in remote => row[n].file \in Spoken
  BY <1>1 DEF IInv, ScanOK
<1>7. /\ \A n \in Held(row) : RowOK(n)
      /\ Dirty(row) \subseteq mayReturn
      /\ cursor = "upload" => Held(row) \subseteq mayReturn
      /\ cursor # "upload" => \A n \in Held(row) : row[n].file \in remote \cup {NoFile} \/ n \in deleted
  BY DEF IInv, RowsOK
<1>8. Dirty(rows) \subseteq mayReturn
  <2> SUFFICES ASSUME NEW n \in Notes, rows[n] # NoRow, rows[n].dirty PROVE n \in mayReturn
    BY DEF Dirty, Held
  <2>1. row[n] # NoRow /\ row[n].dirty BY <1>4 DEF Paged
  <2> QED BY <1>7, <2>1 DEF Dirty, Held
<1>9. mayReturn \subseteq mayReturn'
  BY <1>1 DEF Doubted
<1>10. WorldOK' BY <1>1 DEF IInv, WorldOK, Latest
<1>11. CASE ~last
  <2>1. row' = rows
    BY <1>1, <1>4, <1>11 DEF Reconcile
  <2>2. /\ run' \in Runs /\ run'.page = run.page /\ run'.pos = run.pos /\ run'.due = {}
        /\ run'.pages = Tail(run.pages) /\ run'.seen = seen /\ run'.rescan = run.rescan
    BY <1>1, <1>2, <1>3, <1>6, <1>11, RunFacts DEF Runs
  <2>3. pc' = "apply" /\ UNCHANGED <<cursor, news>> BY <1>1, <1>11
  <2>4. /\ cursor = "upload" => Held(row') \subseteq mayReturn'
        /\ mayReturn' \in SUBSET Notes
    <3>1. Held(row') \subseteq Notes BY DEF Held
    <3> QED BY <1>1, <1>2, <2>3, <3>1 DEF Doubted, TypeOK
  <2>5. cursor # "upload" => \A n \in Held(rows) : rows[n].file \in remote \cup {NoFile} \/ n \in deleted
    <3> SUFFICES ASSUME cursor # "upload", NEW n \in Notes, rows[n] # NoRow
                 PROVE  rows[n].file \in remote \cup {NoFile} \/ n \in deleted
      BY DEF Held
    <3>1. row[n] # NoRow => row[n].file \in remote \cup {NoFile} \/ n \in deleted
      BY <1>7 DEF Held
    <3>2. \A f \in page : f \in remote \/ f[1] \in deleted BY <1>3, <1>5, <1>6
    <3> QED BY <1>4, <3>1, <3>2 DEF Paged
  <2>6. RowsOK'
    BY <1>1, <1>4, <1>5, <1>8, <1>9, <2>1, <2>3, <2>4, <2>5 DEF RowsOK, RowOK
  <2>7. RunOK' BY <1>1, <2>2, <2>3 DEF IInv, RunOK, Round, Scan
  <2>8. RoundOK' BY <2>3 DEF RoundOK, Round
  <2>9. Spoken' = Spoken
    BY <1>3, <2>2 DEF Spoken
  <2>10. ScanOK'
    <3>1. \A n \in Held(rows) : rows[n].file \in remote => rows[n].file \in Spoken
      BY <1>3, <1>4, <1>6 DEF Paged, Held
    <3>2. \A f \in Spoken : Latest(f)' BY <1>1, <1>6 DEF Latest
    <3>3. \A f \in seen \cap remote : f \in run.pos \/ Has(f)' BY <1>4, <2>1 DEF Has
    <3> QED BY <1>1, <1>3, <1>6, <1>11, <2>1, <2>2, <2>3, <2>9, <3>1, <3>2, <3>3 DEF ScanOK
  <2>11. TypeOK' BY <1>1, <1>2, <1>4, <2>1, <2>2, <2>3, <2>4 DEF TypeOK, Stages
  <2> QED BY <1>10, <2>6, <2>7, <2>8, <2>10, <2>11 DEF IInv
<1>12. CASE last
  <2>1. Spoken = seen BY <1>3, <1>12
  \* The last page's word on a note.
  <2>2. ASSUME NEW n \in Notes
        PROVE  \/ row'[n] = rows[n] /\ (rows[n] # NoRow => rows[n].file \in seen \cup {NoFile})
               \/ /\ row[n] # NoRow /\ row[n].file \notin Spoken
                  /\ \/ row'[n] # NoRow /\ row'[n].file = NoFile /\ row'[n].dirty = TRUE
                        /\ (row[n].dirty \/ cursor = "upload")
                     \/ row'[n] = NoRow
    <3>1. row'[n] = IF rows[n] = NoRow \/ rows[n].file \in seen \cup {NoFile} THEN rows[n]
                    ELSE IF Upload THEN SentBack(rows[n]) ELSE Forgotten(rows[n])
      BY <1>1, <1>12 DEF Reconcile
    <3>2. CASE rows[n] = NoRow \/ rows[n].file \in seen \cup {NoFile}
      BY <3>1, <3>2
    <3>3. CASE ~(rows[n] = NoRow \/ rows[n].file \in seen \cup {NoFile})
      <4>1. row[n] # NoRow /\ rows[n] = row[n] /\ row[n].file \notin Spoken
        BY <1>4, <2>1, <3>3 DEF Paged
      <4>2. rows[n] \in Rows BY <1>4, <3>3
      <4>3. CASE Upload
        <5>1. row'[n] = [file |-> NoFile, dirty |-> TRUE] BY <3>1, <3>3, <4>3 DEF SentBack
        <5>2. row'[n].file = NoFile /\ row'[n].dirty = TRUE BY <5>1
        <5>3. row'[n] # NoRow BY <5>1, RowFacts
        <5> QED BY <1>5, <4>1, <4>3, <5>2, <5>3 DEF Upload
      <4>4. CASE ~Upload
        <5>1. row'[n] = Forgotten(rows[n]) BY <3>1, <3>3, <4>4
        <5>2. CASE rows[n].dirty
          <6>1. row'[n] = [rows[n] EXCEPT !.file = NoFile] BY <5>1, <5>2 DEF Forgotten
          <6>2. row'[n] \in Rows /\ row'[n].file = NoFile /\ row'[n].dirty = rows[n].dirty
            BY <4>2, <6>1, RowFacts
          <6>3. row'[n] # NoRow BY <6>2, RowFacts
          <6>4. rows[n].dirty = TRUE BY <4>2, <5>2, RowFacts
          <6> QED BY <4>1, <6>2, <6>3, <6>4
        <5>3. CASE ~rows[n].dirty
          BY <4>1, <5>1, <5>3 DEF Forgotten
        <5> QED BY <5>2, <5>3
      <4> QED BY <4>3, <4>4
    <3> QED BY <3>2, <3>3
  <2>3. row' \in [Notes -> Rows \cup {NoRow}]
    <3>1. row' = [n \in Notes |-> row'[n]] BY <1>1, <1>12 DEF Reconcile
    <3>2. ASSUME NEW n \in Notes PROVE row'[n] \in Rows \cup {NoRow}
      <4>1. row'[n] = IF rows[n] = NoRow \/ rows[n].file \in seen \cup {NoFile} THEN rows[n]
                    ELSE IF Upload THEN SentBack(rows[n]) ELSE Forgotten(rows[n])
        BY <1>1, <1>12 DEF Reconcile
      <4>2. rows[n] \in Rows \cup {NoRow} BY <1>4
      <4>3. SentBack(rows[n]) \in Rows BY DEF SentBack, Rows
      <4>4. rows[n] # NoRow => Forgotten(rows[n]) \in Rows \cup {NoRow}
        BY <4>2, RowFacts DEF Forgotten
      <4> QED BY <4>1, <4>2, <4>3, <4>4
    <3> QED BY <3>1, <3>2
  <2>4. pc' = "push" /\ cursor' = run.page /\ news' = run.pos
        /\ run' = [Idle EXCEPT !.todo = Dirty(row')]
    BY <1>1, <1>12
  <2>5. /\ cursor' = "upload" => Held(row') \subseteq mayReturn'
        /\ mayReturn' \in SUBSET Notes
    <3>1. Held(row') \subseteq Notes BY DEF Held
    <3> QED BY <1>1, <1>2, <3>1 DEF Doubted, TypeOK
  <2>6. \A n \in Held(row') : RowOK(n)'
    <3> SUFFICES ASSUME NEW n \in Notes, row'[n] # NoRow PROVE RowOK(n)'
      BY DEF Held
    <3> QED BY <1>4, <2>2 DEF RowOK, Held
  <2>7. Dirty(row') \subseteq mayReturn
    <3> SUFFICES ASSUME NEW n \in Notes, row'[n] # NoRow, row'[n].dirty PROVE n \in mayReturn
      BY DEF Dirty, Held
    <3> QED BY <1>7, <1>8, <2>2 DEF Dirty, Held
  <2>8. ASSUME run.page # "upload", NEW n \in Notes, row'[n] # NoRow
        PROVE  /\ row'[n].file \in remote \cup run.pos \cup {NoFile}
               /\ row'[n].file \in remote \cup {NoFile} \/ n \in deleted
    <3>1. CASE row'[n].file = NoFile BY <3>1
    <3>2. CASE row'[n].file # NoFile
      <4>1. row'[n].file \in Spoken BY <2>1, <2>2, <2>8, <3>2
      <4>2. row'[n].file[1] = n BY <2>6, <2>8, <3>2 DEF Held, RowOK
      <4> QED BY <1>6, <2>8, <4>1, <4>2
    <3> QED BY <3>1, <3>2
  <2>9. ASSUME NEW f \in remote PROVE f \in run.pos \/ Has(f)'
    <3>1. f[1] \in Notes BY <1>2, FileFacts
    <3>2. f \in run.pos \/ (f \in seen /\ rows[f[1]] # NoRow /\ rows[f[1]].file = f)
      BY <1>4, <1>6, <2>1
    <3>3. CASE f \notin run.pos
      <4>1. f \in seen /\ rows[f[1]] # NoRow /\ rows[f[1]].file = f BY <3>2, <3>3
      <4>2. row'[f[1]] = rows[f[1]]
        BY <1>1, <1>12, <3>1, <4>1 DEF Reconcile
      <4> QED BY <4>1, <4>2 DEF Has
    <3> QED BY <3>3
  <2>10. RowsOK'
    <3>1. cursor' # "upload" => \A n \in Held(row') : row'[n].file \in remote' \cup {NoFile} \/ n \in deleted'
      BY <1>1, <2>4, <2>8 DEF Held
    <3>2. cursor' = "good" =>
            /\ \A f \in remote' : f \in news' \/ Has(f)'
            /\ \A n \in Held(row') : row'[n].file \in remote' \cup news' \cup {NoFile}
            /\ \A f \in news' \ remote' : f[1] \in deleted'
      BY <1>1, <1>6, <2>4, <2>8, <2>9 DEF Held
    <3> QED BY <1>9, <2>5, <2>6, <2>7, <3>1, <3>2 DEF RowsOK
  <2>11. run' \in Runs /\ pc' \in Stages /\ RunOK' /\ RoundOK' /\ ScanOK'
    BY <2>3, <2>4, AtPush
  <2>12. TypeOK' BY <1>1, <1>2, <1>5, <2>3, <2>4, <2>5, <2>11 DEF TypeOK
  <2> QED BY <1>10, <2>10, <2>11, <2>12 DEF IInv
<1> QED BY <1>11, <1>12

-----------------------------------------------------------------------------
(* The push, and a request of it whose answer is lost.                       *)

LEMMA AtPushing ==
  ASSUME IInv, pc = "push", UNCHANGED <<pc, cursor>>, NEW n \in Notes, Sent(n)
  PROVE  run' \in Runs /\ RunOK' /\ RoundOK' /\ ScanOK'
<1>1. run \in Runs /\ run = [Idle EXCEPT !.renewed = run.renewed, !.todo = run.todo]
  BY DEF IInv, TypeOK, RunOK, Round, Scan
<1>2. run' = [Idle EXCEPT !.renewed = run.renewed, !.todo = run.todo \ {n}]
  BY <1>1 DEF Sent, Idle
<1>3. /\ run' \in Runs /\ run'.page = "stored" /\ run'.rescan = "no"
      /\ run'.renewed = run.renewed /\ run'.todo = run.todo \ {n}
  BY <1>1, <1>2, RunFacts, IdleOK DEF Idle, Runs
<1> QED BY <1>2, <1>3 DEF RunOK, RoundOK, ScanOK, Round, Scan

\* A note with no file there has births left, and its next is a new file.
LEMMA MakeOK ==
  ASSUME IInv, NEW n \in Notes, Make(n)
  PROVE  /\ remote' \in SUBSET Files /\ births' \in [Notes -> 0..MaxBirths] /\ news' \in SUBSET Files
         /\ WorldOK' /\ births'[n] = births[n] + 1 /\ <<n, births'[n]>> \in remote'
         /\ remote' = remote \cup {<<n, births'[n]>>} /\ news' = news \cup {<<n, births'[n]>>}
         /\ \A m \in Notes \ {n} : births'[m] = births[m]
<1>1. /\ remote \in SUBSET Files /\ births \in [Notes -> 0..MaxBirths] /\ news \in SUBSET Files
      /\ WorldOK
  BY DEF IInv, TypeOK
<1>2. /\ {f \in remote : f[1] = n} = {}
      /\ remote' = remote \cup {<<n, births[n] + 1>>}
      /\ births' = [births EXCEPT ![n] = @ + 1]
      /\ news' = news \cup {<<n, births[n] + 1>>}
  BY DEF Make
<1>3. births[n] \in 0..MaxBirths /\ births[n] # MaxBirths
  <2>1. <<n, births[n]>> \notin remote BY <1>2
  <2> QED BY <1>1, <2>1 DEF WorldOK
<1>4. births[n] + 1 \in 1..MaxBirths BY <1>3, PullRunAssumption
<1>5. <<n, births[n] + 1>> \in Files BY <1>4 DEF Files
<1>6. births' \in [Notes -> 0..MaxBirths] BY <1>1, <1>2, <1>4
<1>7. births'[n] = births[n] + 1 /\ \A m \in Notes \ {n} : births'[m] = births[m]
  BY <1>1, <1>2
<1>8. \A f \in remote' : Latest(f)'
  <2>1. \A f \in remote : f[1] \in Notes \ {n} BY <1>1, <1>2, FileFacts
  <2> QED BY <1>1, <1>2, <1>7, <2>1 DEF WorldOK, Latest
<1>9. \A m \in Notes : births'[m] = MaxBirths => <<m, births'[m]>> \in remote'
  BY <1>1, <1>2, <1>7 DEF WorldOK
<1> QED BY <1>1, <1>2, <1>5, <1>6, <1>7, <1>8, <1>9 DEF WorldOK

\* A note settled on the one file of it there is.
LEMMA SettledOK ==
  ASSUME IInv, NEW n \in Notes, NEW f \in Files, Settled(n, f), UNCHANGED <<cursor, deleted, mayReturn>>,
         row[n] # NoRow, f \in remote', f[1] = n, \A g \in remote' : g[1] = n => g = f,
         remote \subseteq remote', remote' \subseteq remote \cup news', news \subseteq news',
         news' \ remote' \subseteq news \ remote
  PROVE  RowsOK' /\ row' \in [Notes -> Rows \cup {NoRow}]
<1>1. row \in [Notes -> Rows \cup {NoRow}] BY DEF IInv, TypeOK
<1> DEFINE r == [file |-> f, dirty |-> FALSE]
<1>2. r \in Rows /\ r.file = f /\ r.dirty = FALSE /\ f # NoFile BY FileFacts DEF Rows
<1>3. r # NoRow BY <1>2, RowFacts
<1>4. row' = [row EXCEPT ![n] = r] BY DEF Settled
<1> HIDE DEF r
<1>5. row'[n] = r /\ \A m \in Notes \ {n} : row'[m] = row[m] BY <1>1, <1>4
<1>6. Held(row') = Held(row) BY <1>3, <1>5 DEF Held
<1>7. \A m \in Held(row') : RowOK(m)' BY <1>2, <1>5, <1>6 DEF IInv, RowsOK, RowOK, Held
<1>8. Dirty(row') \subseteq mayReturn' BY <1>2, <1>5, <1>6 DEF IInv, RowsOK, Dirty, Held
<1>9. cursor' = "upload" => Held(row') \subseteq mayReturn' BY <1>6 DEF IInv, RowsOK
<1>10. ASSUME cursor' # "upload", NEW m \in Held(row')
       PROVE  row'[m].file \in remote' \cup {NoFile} \/ m \in deleted'
  BY <1>2, <1>5, <1>6, <1>10 DEF IInv, RowsOK, Held
<1>11. ASSUME cursor' = "good"
       PROVE  /\ \A g \in remote' : g \in news' \/ Has(g)'
              /\ \A m \in Held(row') : row'[m].file \in remote' \cup news' \cup {NoFile}
              /\ \A g \in news' \ remote' : g[1] \in deleted'
  <2>1. ASSUME NEW g \in remote' PROVE g \in news' \/ Has(g)'
    <3>1. CASE g[1] = n BY <1>2, <1>3, <1>5, <3>1 DEF Has
    <3>2. CASE g[1] # n
      <4>1. g \in news' \/ (g \in remote /\ Has(g)) BY <1>11 DEF IInv, RowsOK
      <4>2. g \in remote => g[1] \in Notes BY FileFacts DEF IInv, TypeOK
      <4> QED BY <1>5, <3>2, <4>1, <4>2 DEF Has
    <3> QED BY <3>1, <3>2
  <2>2. ASSUME NEW m \in Held(row') PROVE row'[m].file \in remote' \cup news' \cup {NoFile}
    <3>1. m \in Held(row) /\ (m # n => row[m].file \in remote \cup news \cup {NoFile})
      BY <1>6, <1>11 DEF IInv, RowsOK
    <3> QED BY <1>2, <1>5, <3>1 DEF Held
  <2>3. \A g \in news' \ remote' : g[1] \in deleted' BY <1>11 DEF IInv, RowsOK
  <2> QED BY <2>1, <2>2, <2>3
<1> QED BY <1>1, <1>2, <1>4, <1>7, <1>8, <1>9, <1>10, <1>11 DEF RowsOK

LEMMA PushStep == ASSUME IInv, NEW n \in Notes, Push(n) PROVE IInv'
<1>1. pc = "push" /\ Sent(n) /\ UNCHANGED <<cursor, pc, calm, deleted, mayReturn>> BY DEF Push
<1>2. run' \in Runs /\ RunOK' /\ RoundOK' /\ ScanOK' BY <1>1, AtPushing
<1>3. CASE UNCHANGED <<row, world>>
  BY <1>1, <1>2, <1>3, SameOK DEF IInv, TypeOK, Same, world
<1>4. ASSUME row[n] # NoRow, NEW f \in remote, f[1] = n, Settled(n, f), UNCHANGED world PROVE IInv'
  <2>1. remote' = remote /\ births' = births /\ news' = news BY <1>4 DEF world
  <2>2. f \in Files /\ remote \subseteq Files BY DEF IInv, TypeOK
  <2>3. \A g \in remote' : g[1] = n => g = f
    BY <1>4, <2>1, <2>2, FileFacts DEF IInv, WorldOK, Latest
  <2>4. \A g \in remote : g \in news \/ cursor # "good" \/ Has(g) BY DEF IInv, RowsOK
  <2>5. RowsOK' /\ row' \in [Notes -> Rows \cup {NoRow}]
    BY <1>1, <1>4, <2>1, <2>2, <2>3, SettledOK
  <2>6. WorldOK' BY <2>1 DEF IInv, WorldOK, Latest
  <2> QED BY <1>1, <1>2, <2>1, <2>5, <2>6 DEF IInv, TypeOK
<1>5. ASSUME row[n] # NoRow, Make(n), Settled(n, <<n, births'[n]>>) PROVE IInv'
  <2> DEFINE f == <<n, births'[n]>>
  <2>1. /\ remote' \in SUBSET Files /\ births' \in [Notes -> 0..MaxBirths] /\ news' \in SUBSET Files
        /\ WorldOK' /\ f \in remote' /\ remote' = remote \cup {f} /\ news' = news \cup {f}
    BY <1>5, MakeOK
  <2>2. f \in Files /\ f[1] = n BY <2>1
  <2>3. \A g \in remote' : g[1] = n => g = f
    BY <2>1, FileFacts DEF WorldOK, Latest
  <2>4. Settled(n, f) BY <1>5
  <2> HIDE DEF f
  <2>5. RowsOK' /\ row' \in [Notes -> Rows \cup {NoRow}]
    BY <1>1, <1>5, <2>1, <2>2, <2>3, <2>4, SettledOK
  <2> QED BY <1>1, <1>2, <2>1, <2>5 DEF IInv, TypeOK
<1> QED BY <1>3, <1>4, <1>5 DEF Push

\* A file made and the answer lost: nobody but the cursor tells of it.
LEMMA InterruptedStep == ASSUME IInv, Interrupted PROVE IInv'
<1>1. Ends /\ UNCHANGED <<row, cursor, calm, deleted, mayReturn>> BY DEF Interrupted
<1>2. CASE UNCHANGED world BY <1>1, <1>2, EndsStep DEF Same, world
<1>3. ASSUME NEW n \in Notes, Make(n) PROVE IInv'
  <2>1. /\ remote' \in SUBSET Files /\ births' \in [Notes -> 0..MaxBirths] /\ news' \in SUBSET Files
        /\ WorldOK' /\ remote' = remote \cup {<<n, births'[n]>>} /\ news' = news \cup {<<n, births'[n]>>}
    BY <1>3, MakeOK
  <2>2. run' \in Runs /\ pc' \in Stages /\ RunOK' /\ RoundOK' /\ ScanOK' BY <1>1, AtIdle DEF Ends
  <2>3. RowsOK' BY <1>1, <2>1 DEF IInv, RowsOK, RowOK, Has, Held, Dirty
  <2> QED BY <1>1, <2>1, <2>2, <2>3 DEF IInv, TypeOK
<1>4. Dirty(row) \subseteq Notes BY DEF Dirty, Held
<1> QED BY <1>2, <1>3, <1>4 DEF Interrupted

-----------------------------------------------------------------------------
(* The provider, the user and the other devices.                             *)

\* A run not among its pages holds no page's cursor and awaits no file.
LEMMA NoPages ==
  ASSUME IInv, pc \notin Round \cup {"listing", "apply"}
  PROVE  run.page = "stored" /\ run.due = {}
BY DEF IInv, RunOK, Round, Scan, Idle

LEMMA CursorDiesStep == ASSUME IInv, CursorDies PROVE IInv'
<1>1. /\ cursor' = IF cursor = "good" THEN "reset" ELSE cursor
      /\ run' = [run EXCEPT !.page = IF @ = "good" THEN "reset" ELSE @]
      /\ UNCHANGED <<row, remote, births, news, pc, calm, deleted, mayReturn>>
  BY DEF CursorDies, world
<1>2. TypeOK /\ run \in Runs BY DEF IInv, TypeOK
<1>3. /\ run' \in Runs /\ run'.page = (IF run.page = "good" THEN "reset" ELSE run.page)
      /\ run'.pos = run.pos /\ run'.told = run.told /\ run'.due = run.due /\ run'.pages = run.pages
      /\ run'.seen = run.seen /\ run'.rescan = run.rescan /\ run'.renewed = run.renewed
      /\ run'.todo = run.todo /\ (run.page # "good" => run' = run)
  BY <1>1, <1>2 DEF Runs, Kinds
<1>4. TypeOK' BY <1>1, <1>2, <1>3 DEF TypeOK, Cursors, Kinds
<1>5. WorldOK' BY <1>1 DEF IInv, WorldOK, Latest
<1>6. RowsOK' BY <1>1 DEF IInv, RowsOK, RowOK, Held, Dirty, Has
<1>7. RunOK'
  <2>1. pc \notin Round \cup {"listing", "apply"} => run' = run BY <1>3, NoPages
  <2> QED BY <1>1, <1>3, <2>1 DEF IInv, RunOK, Round, Scan
<1>8. RoundOK' BY <1>1, <1>3 DEF IInv, RoundOK, Latest
<1>9. Spoken' = Spoken BY <1>3 DEF Spoken
<1>10. ScanOK' BY <1>1, <1>3, <1>9 DEF IInv, ScanOK, Latest, Held, Has
<1> QED BY <1>4, <1>5, <1>6, <1>7, <1>8, <1>10 DEF IInv

\* What is gone with no word of it: every cursor there is has lost something.
LEMMA LoseStep == ASSUME IInv, NEW f \in remote, Lose(f) PROVE IInv'
<1>1. /\ f[2] < MaxBirths /\ cursor # "none" /\ run.rescan # "reset"
      /\ remote' = remote \ {f} /\ cursor' = "upload"
      /\ run' = [run EXCEPT !.page = IF @ = "stored" THEN @ ELSE "upload", !.due = @ \ {f}]
      /\ mayReturn' = mayReturn \cup Held(row)
      /\ UNCHANGED <<row, births, news, pc, calm, deleted>>
  BY DEF Lose, Losable
<1>2. TypeOK /\ run \in Runs /\ remote \in SUBSET Files BY DEF IInv, TypeOK
<1>3. /\ run' \in Runs /\ run'.page = (IF run.page = "stored" THEN "stored" ELSE "upload")
      /\ run'.pos = run.pos /\ run'.told = run.told /\ run'.due = run.due \ {f}
      /\ run'.pages = run.pages /\ run'.seen = run.seen /\ run'.rescan = run.rescan
      /\ run'.renewed = run.renewed /\ run'.todo = run.todo
      /\ (run.page = "stored" /\ run.due = {} => run' = run)
  BY <1>1, <1>2 DEF Runs, Kinds
<1>4. Held(row) \in SUBSET Notes BY DEF Held
<1>5. TypeOK' BY <1>1, <1>2, <1>3, <1>4 DEF TypeOK, Cursors, Kinds
<1>6. WorldOK'
  <2>1. \A n \in Notes : births[n] = MaxBirths => <<n, births[n]>> # f
    BY <1>1, PullRunAssumption
  <2> QED BY <1>1, <2>1 DEF IInv, WorldOK, Latest
<1>7. RowsOK' BY <1>1 DEF IInv, RowsOK, RowOK, Held, Dirty
<1>8. RunOK'
  <2>1. pc \notin Round \cup {"listing", "apply"} => run' = run BY <1>3, NoPages
  <2>2. run.rescan \in {"no", "upload"} BY <1>1, <1>2, RunFacts DEF Kinds
  <2> QED BY <1>1, <1>3, <2>1, <2>2 DEF IInv, RunOK, Round, Scan
<1>9. RoundOK' BY <1>1, <1>3 DEF IInv, RoundOK, Latest
<1>10. Spoken' = Spoken BY <1>3 DEF Spoken
<1>11. ScanOK'
  <2>1. pc \in {"listing", "apply"} => run.page # "stored" BY DEF IInv, RunOK
  <2> QED BY <1>1, <1>3, <1>10, <2>1 DEF IInv, ScanOK, Latest, Held, Has
<1> QED BY <1>5, <1>6, <1>7, <1>8, <1>9, <1>11 DEF IInv

LEMMA WriteStep == ASSUME IInv, NEW n \in Notes, Write(n) PROVE IInv'
<1> DEFINE r == IF row[n] = NoRow THEN [file |-> NoFile, dirty |-> TRUE]
                ELSE [row[n] EXCEPT !.dirty = TRUE]
<1>1. /\ row' = [row EXCEPT ![n] = r] /\ mayReturn' = mayReturn \cup {n}
      /\ UNCHANGED <<cursor, remote, births, news, pc, run, calm, deleted>>
  BY DEF Write, world
<1>2. row \in [Notes -> Rows \cup {NoRow}] /\ remote \in SUBSET Files BY DEF IInv, TypeOK
<1>3. /\ r \in Rows /\ r.dirty = TRUE
      /\ r.file = IF row[n] = NoRow THEN NoFile ELSE row[n].file
  BY <1>2 DEF Rows
<1>4. r # NoRow BY <1>3, RowFacts
<1> HIDE DEF r
<1>5. /\ row' \in [Notes -> Rows \cup {NoRow}]
      /\ row'[n] = r /\ \A m \in Notes \ {n} : row'[m] = row[m]
  BY <1>1, <1>2, <1>3
<1>6. Held(row') = Held(row) \cup {n} BY <1>4, <1>5 DEF Held
<1>7. TypeOK' /\ WorldOK' /\ RunOK' /\ RoundOK'
  BY <1>1, <1>5 DEF IInv, TypeOK, WorldOK, RunOK, RoundOK, Latest
<1>8. ASSUME NEW g, g[1] \in Notes, Has(g) PROVE Has(g)'
  BY <1>3, <1>4, <1>5, <1>8 DEF Has
<1>9. NoFile \notin remote /\ \A g \in remote : g[1] \in Notes BY <1>2, FileFacts
<1>10. \A m \in Held(row') : /\ m \in Notes
                             /\ (m \in Held(row) /\ row'[m].file = row[m].file) \/ (m = n /\ row'[m].file = NoFile)
  BY <1>3, <1>5, <1>6 DEF Held
<1>11. RowsOK'
  <2>1. \A m \in Held(row') : RowOK(m)'
    BY <1>3, <1>5, <1>6 DEF IInv, RowsOK, RowOK, Held
  <2>2. Dirty(row') \subseteq mayReturn'
    BY <1>1, <1>5, <1>6 DEF IInv, RowsOK, Dirty, Held
  <2> QED BY <1>1, <1>6, <1>8, <1>9, <1>10, <2>1, <2>2 DEF IInv, RowsOK
<1>12. Spoken' = Spoken BY <1>1 DEF Spoken, Named
<1>13. ScanOK'
  <2> SUFFICES ASSUME pc \in {"listing", "apply"} PROVE ScanOK' BY <1>1 DEF ScanOK
  <2>1. \A m \in Held(row') : row'[m].file \in remote => row'[m].file \in Spoken \cup run.due
    BY <1>9, <1>10 DEF IInv, ScanOK
  <2>2. \A g \in run.seen \cap remote : g \in run.pos \/ Has(g)'
    BY <1>8, <1>9 DEF IInv, ScanOK
  <2>3. \A g \in Spoken : Latest(g)' BY <1>1 DEF IInv, ScanOK, Latest
  <2> QED BY <1>1, <1>12, <2>1, <2>2, <2>3 DEF IInv, ScanOK
<1> QED BY <1>7, <1>11, <1>13 DEF IInv

\* A user who has everything read again is told what goes.
LEMMA ResyncStep == ASSUME IInv, Resync PROVE IInv'
<1>1. /\ pc = "idle" /\ cursor' = "none"
      /\ deleted' = deleted \cup {n \in Held(row) : row[n].file \notin remote}
      /\ UNCHANGED <<row, remote, births, news, pc, run, calm, mayReturn>>
  BY DEF Resync, world
<1>2. run = Idle BY <1>1 DEF IInv, RunOK
<1>3. TypeOK' BY <1>1 DEF IInv, TypeOK, Cursors, Held
<1>4. WorldOK' BY <1>1 DEF IInv, WorldOK, Latest
<1>5. RowsOK' BY <1>1 DEF IInv, RowsOK, RowOK, Held, Dirty
<1>6. RunOK' /\ RoundOK' /\ ScanOK' BY <1>1, <1>2, AtIdle
<1> QED BY <1>3, <1>4, <1>5, <1>6 DEF IInv

\* What a change by another does to the run's record.
LEMMA ChangedRun ==
  ASSUME IInv, NEW f \in Files, Changed(f)
  PROVE  /\ run' \in Runs /\ news' = news \cup {f}
         /\ run'.pos = (IF run.page = "stored" THEN run.pos ELSE run.pos \cup {f})
         /\ run'.due = (IF f \in remote' THEN run.due ELSE run.due \ {f})
         /\ run'.page = run.page /\ run'.told = run.told /\ run'.pages = run.pages
         /\ run'.seen = run.seen /\ run'.rescan = run.rescan
         /\ run'.renewed = run.renewed /\ run'.todo = run.todo
         /\ Spoken' = Spoken
         /\ pc \notin Round \cup {"listing", "apply"} => run' = run
<1>1. run \in Runs BY DEF IInv, TypeOK
<1> DEFINE pos == IF run.page = "stored" THEN run.pos ELSE run.pos \cup {f}
           due == IF f \in remote' THEN run.due ELSE run.due \ {f}
<1>2. run' = [run EXCEPT !.pos = pos, !.due = due] /\ news' = news \cup {f} BY DEF Changed
<1>3. pos \in SUBSET Files /\ due \in SUBSET Files BY <1>1, RunFacts
<1>4. run.page = "stored" /\ run.due = {} => pos = run.pos /\ due = run.due OBVIOUS
<1> HIDE DEF pos, due
<1>5. /\ run' \in Runs /\ run'.pos = pos /\ run'.due = due
      /\ run'.page = run.page /\ run'.told = run.told /\ run'.pages = run.pages
      /\ run'.seen = run.seen /\ run'.rescan = run.rescan
      /\ run'.renewed = run.renewed /\ run'.todo = run.todo
      /\ (pos = run.pos /\ due = run.due => run' = run)
  BY <1>1, <1>2, <1>3 DEF Runs
<1>6. Spoken' = Spoken BY <1>5 DEF Spoken
<1> QED BY <1>2, <1>4, <1>5, <1>6, NoPages DEF pos, due

LEMMA OtherMakesStep == ASSUME IInv, NEW n \in Notes, OtherMakes(n) PROVE IInv'
<1> DEFINE f == <<n, 1>>
<1>1. /\ births[n] = 0 /\ row[n] = NoRow /\ Changed(f)
      /\ births' = [births EXCEPT ![n] = 1] /\ remote' = remote \cup {f}
      /\ UNCHANGED <<row, cursor, pc, calm, deleted, mayReturn>>
  BY DEF OtherMakes
<1>2. f \in Files /\ f[1] = n /\ f[2] = 1 BY PullRunAssumption DEF Files
<1>3. /\ TypeOK /\ births \in [Notes -> 0..MaxBirths] /\ remote \in SUBSET Files /\ run \in Runs
      /\ news \in SUBSET Files
  BY DEF IInv, TypeOK
<1> HIDE DEF f
<1>4. births'[n] = 1 /\ (\A m \in Notes \ {n} : births'[m] = births[m])
      /\ births' \in [Notes -> 0..MaxBirths]
  BY <1>1, <1>3, PullRunAssumption
<1>5. /\ run' \in Runs /\ news' = news \cup {f}
      /\ run'.pos = (IF run.page = "stored" THEN run.pos ELSE run.pos \cup {f})
      /\ run'.due = run.due
      /\ run'.page = run.page /\ run'.told = run.told /\ run'.pages = run.pages
      /\ run'.seen = run.seen /\ run'.rescan = run.rescan
      /\ run'.renewed = run.renewed /\ run'.todo = run.todo
      /\ Spoken' = Spoken
      /\ pc \notin Round \cup {"listing", "apply"} => run' = run
  BY <1>1, <1>2, ChangedRun
\* No file is the latest of a note that has had none.
<1>6. ASSUME NEW g \in Files, Latest(g) PROVE g[1] # n /\ Latest(g)'
  BY <1>1, <1>4, <1>6, FileFacts DEF Latest
<1>7. TypeOK' BY <1>1, <1>2, <1>3, <1>4, <1>5 DEF TypeOK
<1>8. WorldOK'
  <2>1. Latest(f)' BY <1>2, <1>4 DEF Latest
  <2>2. f = <<n, births'[n]>> BY <1>4 DEF f
  <2> QED BY <1>1, <1>3, <1>4, <1>6, <2>1, <2>2 DEF IInv, WorldOK
<1>9. RowsOK' BY <1>1, <1>5 DEF IInv, RowsOK, RowOK, Held, Dirty, Has
<1>10. RunOK' BY <1>1, <1>5 DEF IInv, RunOK, Round, Scan
<1>11. RoundOK'
  <2> SUFFICES ASSUME pc \in Round PROVE RoundOK' BY <1>1 DEF RoundOK
  <2>1. DOMAIN run.told \in SUBSET Files /\ \A g \in DOMAIN run.told : run.told[g] \in BOOLEAN
    BY <1>3, RunFacts, TellingFacts
  <2>2. \A g \in DOMAIN run.told : IF run.told[g] THEN Latest(g)' ELSE g[1] \in deleted'
    BY <1>1, <1>6, <2>1 DEF IInv, RoundOK
  <2> QED BY <1>1, <1>5, <2>2 DEF IInv, RoundOK
<1>12. ScanOK'
  <2> SUFFICES ASSUME pc \in {"listing", "apply"} PROVE ScanOK' BY <1>1 DEF ScanOK
  <2>1. run.page # "stored" BY DEF IInv, RunOK
  <2>2. Spoken \subseteq Files
    BY <1>3, RunFacts, NamedFacts DEF Spoken
  <2>3. \A g \in Spoken : g[1] # n /\ Latest(g)' BY <1>6, <2>2 DEF IInv, ScanOK
  <2>4. \A m \in Held(row') : row'[m].file \in remote' => row'[m].file \in Spoken \cup run.due
    <3> SUFFICES ASSUME NEW m \in Held(row), row[m].file = f PROVE FALSE
      BY <1>1 DEF IInv, ScanOK
    <3>1. m # n /\ RowOK(m) BY <1>1 DEF Held, IInv, RowsOK
    <3> QED BY <1>2, <3>1, FileFacts DEF RowOK
  <2>5. \A g \in run.seen \cap remote' : g \in run'.pos \/ Has(g)'
    BY <1>1, <1>5, <2>1 DEF IInv, ScanOK, Has
  <2> QED BY <1>1, <1>5, <2>1, <2>3, <2>4, <2>5 DEF IInv, ScanOK
<1> QED BY <1>7, <1>8, <1>9, <1>10, <1>11, <1>12 DEF IInv

LEMMA OtherDeletesStep == ASSUME IInv, NEW f \in remote, OtherDeletes(f) PROVE IInv'
<1>1. /\ f[2] < MaxBirths /\ Changed(f)
      /\ remote' = remote \ {f} /\ deleted' = deleted \cup {f[1]}
      /\ UNCHANGED <<row, cursor, births, pc, calm, mayReturn>>
  BY DEF OtherDeletes, Losable
<1>2. /\ TypeOK /\ remote \in SUBSET Files /\ f \in Files /\ run \in Runs BY DEF IInv, TypeOK
<1>3. /\ run' \in Runs /\ news' = news \cup {f}
      /\ run'.pos = (IF run.page = "stored" THEN run.pos ELSE run.pos \cup {f})
      /\ run'.due = run.due \ {f}
      /\ run'.page = run.page /\ run'.told = run.told /\ run'.pages = run.pages
      /\ run'.seen = run.seen /\ run'.rescan = run.rescan
      /\ run'.renewed = run.renewed /\ run'.todo = run.todo
      /\ Spoken' = Spoken
      /\ pc \notin Round \cup {"listing", "apply"} => run' = run
  BY <1>1, <1>2, ChangedRun
<1>4. f[1] \in Notes /\ f # NoFile BY <1>2, FileFacts
<1>5. TypeOK' BY <1>1, <1>2, <1>3, <1>4 DEF TypeOK
<1>6. WorldOK'
  <2>1. \A n \in Notes : births[n] = MaxBirths => <<n, births[n]>> # f
    BY <1>1, PullRunAssumption
  <2> QED BY <1>1, <2>1 DEF IInv, WorldOK, Latest
<1>7. RowsOK'
  <2>1. \A n \in Held(row) : row[n].file = f => n \in deleted'
    BY <1>1, <1>4 DEF IInv, RowsOK, RowOK
  <2> QED BY <1>1, <1>3, <2>1 DEF IInv, RowsOK, RowOK, Held, Dirty, Has
<1>8. RunOK' BY <1>1, <1>3 DEF IInv, RunOK, Round, Scan
<1>9. RoundOK' BY <1>1, <1>3 DEF IInv, RoundOK, Latest
<1>10. ScanOK'
  <2>1. pc \in {"listing", "apply"} => run.page # "stored" BY DEF IInv, RunOK
  <2> QED BY <1>1, <1>3, <2>1 DEF IInv, ScanOK, Latest, Held, Has
<1> QED BY <1>5, <1>6, <1>7, <1>8, <1>9, <1>10 DEF IInv

-----------------------------------------------------------------------------
(* The theorems.                                                             *)

LEMMA NextOK == IInv /\ [Next]_vars => IInv'
<1> SUFFICES ASSUME IInv, [Next]_vars PROVE IInv' OBVIOUS
<1>1. CASE Engine
  BY <1>1, StartStep, ReadPageStep, RefusedCursorStep, ApplyRoundStep, ListPageStep, ApplyPageStep,
     PushStep, PushEndsStep DEF Engine
<1>2. CASE Others
  BY <1>2, RefusedTokenStep, InterruptedStep, CursorDiesStep, ResyncStep, CalmStep, LoseStep,
     OtherDeletesStep, WriteStep, OtherMakesStep DEF Others
<1>3. CASE UNCHANGED vars
  <2>1. Same /\ UNCHANGED <<pc, run, calm>> BY <1>3 DEF vars, Same
  <2>2. RunOK' /\ RoundOK' BY <2>1 DEF IInv, RunOK, RoundOK, Same, Latest
  <2>3. ScanOK' BY <2>1 DEF IInv, ScanOK, Same, Spoken, Named, Latest, Held, Has
  <2> QED BY <2>1, <2>2, <2>3, SameOK DEF IInv, TypeOK
<1> QED BY <1>1, <1>2, <1>3 DEF Next

LEMMA Invariance == Spec => []IInv
BY InitOK, NextOK, PTL DEF Spec

\* Every variable has its type: a run's record, the pages it has listed and
\* what they say of files included (runPull's state, pull/run.ts).
THEOREM TypesHold == Spec => []TypeOK
BY Invariance, PTL DEF IInv

\* A device that has heard everything its cursor has to tell and owes nothing
\* has a row for each file there is and no other: whatever was refused, cut
\* short or scanned in pages before (applyScan and reconcile, pull/run.ts).
THEOREM QuietMeansEqual == Spec => []QuietAgree
<1>1. IInv => QuietAgree
  <2> SUFFICES ASSUME IInv, cursor = "good", news = {}, Dirty(row) = {}, NEW n \in Notes
               PROVE  /\ row[n] = NoRow <=> {f \in remote : f[1] = n} = {}
                      /\ row[n] # NoRow => row[n].file \in remote
    BY DEF QuietAgree, AsOnTheRemote
  <2>1. row[n] # NoRow => row[n].file \in remote /\ row[n].file[1] = n
    <3> SUFFICES ASSUME row[n] # NoRow PROVE row[n].file \in remote /\ row[n].file[1] = n
      OBVIOUS
    <3>1. n \in Held(row) /\ ~row[n].dirty BY DEF Held, Dirty
    <3> QED BY <3>1 DEF IInv, RowsOK, RowOK
  <2>2. \A f \in remote : Has(f) BY DEF IInv, RowsOK
  <2> QED BY <2>1, <2>2 DEF Has
<1> QED BY <1>1, Invariance, PTL

\* A row goes only with a file said to be gone that somebody deleted, or with
\* one no page of a whole scan has named (decide, pull/decide.ts; reconcile,
\* pull/run.ts).
LEMMA GoneByDecision ==
  ASSUME IInv, NEW told \in Tellings, NEW n \in Notes, row[n] # NoRow, DecideAll(told)[n] = NoRow
  PROVE  row[n].file \in DOMAIN told /\ There(n, told) = {} /\ ~row[n].dirty
<1>1. Decided(n, told, NoRow) BY Decisions DEF IInv, TypeOK
<1> QED BY <1>1 DEF Decided

\* Neither the push nor the user takes a row away.
LEMMA HeldStays ==
  ASSUME IInv, NEW m \in Notes, Push(m) \/ Write(m)
  PROVE  Held(row) \subseteq Held(row')
<1>1. row \in [Notes -> Rows \cup {NoRow}] /\ remote \in SUBSET Files BY DEF IInv, TypeOK
<1>2. ASSUME NEW f \in Files, Settled(m, f) PROVE Held(row) \subseteq Held(row')
  <2>1. [file |-> f, dirty |-> FALSE] \in Rows BY DEF Rows
  <2>2. [file |-> f, dirty |-> FALSE] # NoRow BY <2>1, RowFacts
  <2> QED BY <1>1, <1>2, <2>2 DEF Settled, Held
<1>3. CASE Push(m)
  <2>1. Make(m) => <<m, births'[m]>> \in Files BY MakeOK
  <2>2. UNCHANGED row => Held(row) \subseteq Held(row') OBVIOUS
  <2> QED BY <1>1, <1>2, <1>3, <2>1, <2>2 DEF Push
<1>4. CASE Write(m)
  <2>1. PICK r : r \in Rows /\ row' = [row EXCEPT ![m] = r]
    <3>1. [file |-> NoFile, dirty |-> TRUE] \in Rows BY DEF Rows
    <3>2. row[m] # NoRow => [row[m] EXCEPT !.dirty = TRUE] \in Rows BY <1>1 DEF Rows
    <3> QED BY <1>4, <3>1, <3>2 DEF Write
  <2>2. r # NoRow BY <2>1, RowFacts
  <2> QED BY <1>1, <2>1, <2>2 DEF Held
<1> QED BY <1>3, <1>4

\* A note goes from this device only if somebody deleted it: neither a page
\* that had not named it yet nor a loss of the provider's takes it (a run's
\* batches, and reconcile with upload, pull/run.ts).
THEOREM NotesGoOnlyIfDeleted == Spec => GoesOnlyIfDeleted
<1>1. ASSUME IInv, ApplyRound, NEW n \in Notes, row[n] # NoRow, row'[n] = NoRow
      PROVE  n \in deleted
  <2>1. pc = "decided" /\ DecideAll(run.told)[n] = NoRow BY <1>1 DEF ApplyRound
  <2>2. run.told \in Tellings BY <1>1, RunFacts DEF IInv, TypeOK
  <2>3. row[n].file \in DOMAIN run.told /\ There(n, run.told) = {}
    BY <1>1, <2>1, <2>2, GoneByDecision
  <2>4. row[n].file \in Files BY <2>2, <2>3, TellingFacts
  <2>5. row[n].file[1] = n BY <1>1, <2>4, FileFacts DEF IInv, RowsOK, RowOK, Held
  <2>6. ~run.told[row[n].file] BY <2>3, <2>5 DEF There
  <2> QED BY <1>1, <2>1, <2>3, <2>5, <2>6 DEF IInv, RoundOK, Round
<1>2. ASSUME IInv, ApplyPage, NEW n \in Notes, row[n] # NoRow, row'[n] = NoRow
      PROVE  n \in deleted
  <2> DEFINE page == Head(run.pages)
             last == Len(run.pages) = 1
             seen == run.seen \cup page
             rows == DecideAll([f \in page |-> TRUE])
  <2>1. pc = "apply" /\ row' = Reconcile(rows, seen, Upload, last) BY <1>2 DEF ApplyPage
  <2>2. rows \in [Notes -> Rows \cup {NoRow}] /\ Paged(n, page, rows[n])
    BY <1>2, <2>1, PageFacts
  <2>3. /\ run \in Runs /\ remote \in SUBSET Files
        /\ run.pages # <<>> /\ run.pages \in Seq(SUBSET Files)
    BY <1>2, <2>1, RunFacts DEF IInv, TypeOK, ScanOK
  <2>4. page \in SUBSET Files /\ (last => Spoken = seen) BY <2>3, NamedFacts DEF Spoken
  <2> HIDE DEF rows, page, last
  <2>5. /\ rows[n] # NoRow
        /\ NoRow = IF ~last \/ rows[n].file \in seen \cup {NoFile} THEN rows[n]
                   ELSE IF Upload THEN SentBack(rows[n]) ELSE Forgotten(rows[n])
    BY <1>2, <2>1, <2>2 DEF Reconcile, Paged
  <2>6. last /\ rows[n].file \notin seen \cup {NoFile} BY <2>5
  <2>7. ~Upload
    <3>1. SentBack(rows[n]) \in Rows BY DEF SentBack, Rows
    <3> QED BY <2>5, <2>6, <3>1, RowFacts
  <2>8. rows[n] = row[n] BY <1>2, <2>2, <2>6 DEF Paged
  \* The whole listing does not name its file, so it is not there.
  <2>9. row[n].file \notin remote /\ row[n].file # NoFile
    BY <1>2, <2>1, <2>4, <2>6, <2>8 DEF IInv, ScanOK, Held
  <2>10. cursor # "upload" BY <1>2, <2>1, <2>7 DEF IInv, RunOK, Scan, Upload
  <2> QED BY <1>2, <2>9, <2>10 DEF IInv, RowsOK, Held
<1>3. ASSUME IInv, [Next]_vars, NEW n \in Notes, row[n] # NoRow, row'[n] = NoRow
      PROVE  n \in deleted
  <2>1. row' # row /\ ~(Held(row) \subseteq Held(row')) BY <1>3 DEF Held
  <2>2. ApplyRound \/ ApplyPage \/ \E m \in Notes : Push(m) \/ Write(m)
    BY <1>3, <2>1 DEF Next, Engine, Others, vars, Start, ReadPage, RefusedCursor, ListPage, PushEnds,
       RefusedToken, Interrupted, CursorDies, Resync, Calm, Lose, OtherDeletes, OtherMakes
  <2> QED BY <1>1, <1>2, <1>3, <2>1, <2>2, HeldStays
<1>4. IInv /\ [Next]_vars => [\A n \in Notes : row[n] # NoRow /\ row'[n] = NoRow => n \in deleted]_vars
  BY <1>3
<1> QED BY <1>4, Invariance, PTL DEF Spec, GoesOnlyIfDeleted

\* A note another device deleted goes back to the remote only if it was
\* written here, or was held while the provider said it may have lost
\* something (rescan and its flag, pull/run.ts).
THEOREM SendsForCause == Spec => SentForCause
<1>1. ASSUME IInv, [Next]_vars, NEW n \in Notes, births'[n] > births[n], row[n] # NoRow
      PROVE  n \in mayReturn
  <2>1. births' # births /\ births \in [Notes -> 0..MaxBirths] BY <1>1 DEF IInv, TypeOK
  <2>2. \/ \E m \in Notes : Push(m) /\ Make(m) /\ row[m] # NoRow /\ row[m].dirty
        \/ \E m \in Dirty(row) : Make(m)
        \/ \E m \in Notes : OtherMakes(m)
    BY <1>1, <2>1 DEF Next, Engine, Others, vars, world, Start, ReadPage, RefusedCursor, ApplyRound,
       ListPage, ApplyPage, Push, PushEnds, RefusedToken, Interrupted, CursorDies, Resync, Calm, Lose,
       OtherDeletes, Write
  <2>3. CASE \E m \in Notes : OtherMakes(m)
    <3>1. PICK m \in Notes : OtherMakes(m) BY <2>3
    <3>2. births'[n] = IF n = m THEN 1 ELSE births[n] BY <2>1, <3>1 DEF OtherMakes
    <3> QED BY <1>1, <2>1, <3>1, <3>2 DEF OtherMakes
  <2>4. ASSUME NEW m \in Dirty(row), Make(m) PROVE n \in mayReturn
    <3>1. births'[n] = IF n = m THEN births[n] + 1 ELSE births[n] BY <2>1, <2>4 DEF Make
    <3>2. n = m BY <1>1, <2>1, <3>1
    <3> QED BY <1>1, <2>4, <3>2 DEF IInv, RowsOK
  <2> QED BY <2>2, <2>3, <2>4 DEF Dirty, Held
<1>2. IInv /\ [Next]_vars => [\A n \in Notes : births'[n] > births[n] /\ row[n] # NoRow => n \in mayReturn]_vars
  BY <1>1
<1> QED BY <1>2, Invariance, PTL DEF Spec, SentForCause
=============================================================================

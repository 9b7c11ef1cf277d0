------------------------- MODULE FilePushOwed_proofs -------------------------
(* With nothing owed the two sides agree (FilePush.QuietAgree), and the      *)
(* directories the user let go of are gone (FilePush.FolderGone), for any    *)
(* notebooks, any number of files here and on the remote, and however often  *)
(* the user acts and requests fail.                                          *)
(*                                                                           *)
(* What is to be shown of a moment at rest is shown of every moment, with    *)
(* the ops that are still owed for what does not agree yet: Owed.  The       *)
(* writers keep it whatever the drain is about; the drain keeps it because   *)
(* the request under way has its part in it (Env): a file that was sent and  *)
(* no row names yet, a file that was moved and whose row does not say so     *)
(* yet, a directory about to go.                                             *)
(*                                                                           *)
(* A directory that is to go needs more (GInv): that its rmdir stays queued  *)
(* until it is gone or may stay, and that when the drain looks into it,      *)
(* every op queued ahead that takes a file out of it has been sent or held   *)
(* back with it.                                                             *)
EXTENDS FilePush_proofs

-----------------------------------------------------------------------------
(* What is owed.                                                             *)

UploadOf(o, f) == o.kind = "upload" /\ o.file = f
MoveOf(o, f) == o.kind = "move-file" /\ o.file = f
MkdirOf(o, d) == o.kind = "mkdir" /\ o.at.dir = d

\* rows, ds and Q are a store's files, notebooks and ops; e says what the
\* remote has, but for what the request under way makes of it:
\*   files        the remote's files;
\*   moving       the file that is moved just now, or none;
\*   known        files nothing here need account for;
\*   dirs         the notebooks whose directory is there to stay.
SendsOwed(rows, Q) ==
  \A f \in FileIds : rows[f] # NoRow /\ ~Bound(rows[f]) => \E o \in Q : UploadOf(o, f)
MovesMeant(rows, Q) ==
  \A o \in Q : o.kind = "move-file" => Bound(rows[o.file]) /\ o.to = rows[o.file].at
OneMove(Q) == \A o, p \in Q : o.kind = "move-file" /\ MoveOf(p, o.file) => o = p
NamedThere(rows, e) == \A f \in FileIds : Bound(rows[f]) => e.files[rows[f].remote] # NoFile
Standing(rows, Q, e) ==
  \A f \in FileIds : Bound(rows[f]) /\ f # e.moving =>
    /\ \A o \in Q : MoveOf(o, f) => o.at = e.files[rows[f].remote].at
    /\ (\A o \in Q : ~MoveOf(o, f)) => rows[f].at = e.files[rows[f].remote].at
Accounted(rows, Q, e) ==
  \A r \in Ids : e.files[r] # NoFile =>
    r \in e.known \/ (\E f \in FileIds : BoundTo(rows, f, r)) \/ \E o \in Q : DeleteOf(o, r)
DirsOwed(ds, Q, e) ==
  \A d \in Notebooks : ds[d] # NoRow => d \in e.dirs \/ \E o \in Q : MkdirOf(o, d)

Owed(rows, ds, Q, e) ==
  /\ SendsOwed(rows, Q) /\ MovesMeant(rows, Q) /\ OneMove(Q) /\ NamedThere(rows, e)
  /\ Standing(rows, Q, e) /\ Accounted(rows, Q, e) /\ DirsOwed(ds, Q, e)

\* An op as it was, in what counts here.
Like(o, p) ==
  /\ p.tag = o.tag /\ p.kind = o.kind /\ p.file = o.file /\ p.remote = o.remote
  /\ o.kind # "upload" => p.at = o.at /\ p.to = o.to
\* What the run has read is as it was.
LikeFrom(Q, P, kept) == \A p \in P : p.tag \in kept => \E o \in Q : Like(o, p)

\* Withdrawn is what was done, or what nothing needs.
LEMMA PaidOwed ==
  ASSUME NEW rows, NEW ds, NEW Q, NEW e, Owed(rows, ds, Q, e), NEW gone,
         \A o \in Q \cap gone :
           /\ o.kind # "move-file"
           /\ o.kind = "delete-file" => e.files[o.remote] = NoFile
           /\ o.kind = "upload" => rows[o.file] = NoRow \/ Bound(rows[o.file])
           /\ o.kind = "mkdir" => ds[o.at.dir] = NoRow \/ o.at.dir \in e.dirs
  PROVE  Owed(rows, ds, Q \ gone, e)
  <1>1. SendsOwed(rows, Q \ gone)
    BY DEF Owed, SendsOwed, UploadOf
  <1>2. MovesMeant(rows, Q \ gone) /\ OneMove(Q \ gone) /\ NamedThere(rows, e)
    BY DEF Owed, MovesMeant, OneMove
  <1>3. \A f : (\A o \in Q \ gone : ~MoveOf(o, f)) => \A o \in Q : ~MoveOf(o, f)
    BY DEF MoveOf
  <1>4. Standing(rows, Q \ gone, e)
    BY <1>3 DEF Owed, Standing
  <1>5. Accounted(rows, Q \ gone, e)
    BY DEF Owed, Accounted, DeleteOf
  <1>6. DirsOwed(ds, Q \ gone, e)
    BY DEF Owed, DirsOwed, MkdirOf
  <1> QED BY <1>1, <1>2, <1>4, <1>5, <1>6 DEF Owed

\* One more op, that moves nothing.
LEMMA MoreOwed ==
  ASSUME NEW rows, NEW ds, NEW Q, NEW e, Owed(rows, ds, Q, e), NEW p, p.kind # "move-file"
  PROVE  Owed(rows, ds, Q \cup {p}, e)
  <1>1. SendsOwed(rows, Q \cup {p}) /\ Accounted(rows, Q \cup {p}, e) /\ DirsOwed(ds, Q \cup {p}, e)
    BY DEF Owed, SendsOwed, Accounted, DirsOwed
  <1>2. MovesMeant(rows, Q \cup {p}) /\ OneMove(Q \cup {p}) /\ NamedThere(rows, e)
    BY DEF Owed, MovesMeant, OneMove, MoveOf
  <1>3. Standing(rows, Q \cup {p}, e)
    BY DEF Owed, Standing, MoveOf
  <1> QED BY <1>1, <1>2, <1>3 DEF Owed

\* Rows in the same places, ops of the same kinds.
SameRows(rows, rows2) ==
  \A f \in FileIds : /\ rows[f] # NoRow <=> rows2[f] # NoRow
                     /\ rows[f] # NoRow => rows2[f].at = rows[f].at /\ rows2[f].remote = rows[f].remote

\* The same is owed for them.
LEMMA AlikeOwed ==
  ASSUME NEW rows, NEW ds, NEW Q \in SUBSET OwedOps, NEW e, Owed(rows, ds, Q, e),
         NEW rows2, SameRows(rows, rows2),
         NEW n, \A o \in Q : Like(o, n[o])
  PROVE  Owed(rows2, ds, {n[o] : o \in Q}, e)
  <1> DEFINE P == {n[o] : o \in Q}
  <1>0. \A o \in Q : o.kind = "move-file" => o.file \in FileIds
    BY DEF OwedOps, OpOK
  <1>r. \A f \in FileIds : /\ rows[f] # NoRow <=> rows2[f] # NoRow
                           /\ rows[f] # NoRow => rows2[f].at = rows[f].at /\ rows2[f].remote = rows[f].remote
    BY DEF SameRows
  <1>b. \A f \in FileIds : Bound(rows[f]) <=> Bound(rows2[f])
    BY <1>r DEF Bound
  <1>p. \A p \in P : \E o \in Q : Like(o, p) /\ p = n[o]
    OBVIOUS
  <1>q. \A o \in Q : \E p \in P : Like(o, p)
    OBVIOUS
  <1> HIDE DEF P
  <1>1. SendsOwed(rows2, P)
    BY <1>r, <1>b, <1>q DEF Owed, SendsOwed, Like, UploadOf
  <1>2. MovesMeant(rows2, P)
    BY <1>0, <1>r, <1>b, <1>p DEF Owed, MovesMeant, Like, Bound
  <1>3. OneMove(P)
    BY <1>p DEF Owed, OneMove, Like, MoveOf
  <1>4. NamedThere(rows2, e)
    BY <1>r, <1>b DEF Owed, NamedThere, Bound
  <1>5. Standing(rows2, P, e)
    <2> SUFFICES ASSUME NEW f \in FileIds, Bound(rows2[f]), f # e.moving
                 PROVE  /\ \A p \in P : MoveOf(p, f) => p.at = e.files[rows2[f].remote].at
                        /\ (\A p \in P : ~MoveOf(p, f)) => rows2[f].at = e.files[rows2[f].remote].at
      BY DEF Standing
    <2>1. Bound(rows[f]) /\ rows2[f].remote = rows[f].remote /\ rows2[f].at = rows[f].at
      BY <1>r, <1>b DEF Bound
    <2>2. /\ \A o \in Q : MoveOf(o, f) => o.at = e.files[rows[f].remote].at
          /\ (\A o \in Q : ~MoveOf(o, f)) => rows[f].at = e.files[rows[f].remote].at
      BY <2>1 DEF Owed, Standing
    <2>3. \A p \in P : MoveOf(p, f) => \E o \in Q : MoveOf(o, f) /\ p.at = o.at
      BY <1>p DEF Like, MoveOf
    <2>4. (\A p \in P : ~MoveOf(p, f)) => \A o \in Q : ~MoveOf(o, f)
      BY <1>q DEF Like, MoveOf
    <2> QED BY <2>1, <2>2, <2>3, <2>4
  <1>6. Accounted(rows2, P, e)
    <2>1. \A r : \A f \in FileIds : BoundTo(rows, f, r) => BoundTo(rows2, f, r)
      BY <1>r DEF BoundTo
    <2>2. \A r : (\E o \in Q : DeleteOf(o, r)) => \E p \in P : DeleteOf(p, r)
      BY <1>q DEF Like, DeleteOf
    <2> QED BY <2>1, <2>2 DEF Owed, Accounted
  <1>7. DirsOwed(ds, P, e)
    <2>1. \A d : (\E o \in Q : MkdirOf(o, d)) => \E p \in P : MkdirOf(p, d)
      BY <1>q DEF Like, MkdirOf
    <2> QED BY <2>1 DEF Owed, DirsOwed
  <1> QED BY <1>1, <1>2, <1>3, <1>4, <1>5, <1>6, <1>7 DEF Owed, P

\* A row that goes, with its uploads and its moves: it is to be deleted there.
LEMMA GoneOwed ==
  ASSUME NEW rows, NEW ds, NEW Q \in SUBSET OwedOps, NEW e, Owed(rows, ds, Q, e), NEW f \in FileIds,
         NEW rows2, rows2[f] = NoRow, \A g \in FileIds \ {f} : rows2[g] = rows[g],
         NEW P, \A o \in Q : ~UploadOf(o, f) /\ ~MoveOf(o, f) => o \in P,
         \A p \in P : ~MoveOf(p, f) /\ (p \in Q \/ p.kind = "delete-file"),
         Bound(rows[f]) => \E p \in P : DeleteOf(p, rows[f].remote)
  PROVE  Owed(rows2, ds, P, e)
  <1>0. \A o \in Q : o.kind = "move-file" => o.file \in FileIds
    BY DEF OwedOps, OpOK
  <1>1. SendsOwed(rows2, P)
    BY DEF Owed, SendsOwed, UploadOf, MoveOf, Bound
  <1>2. MovesMeant(rows2, P)
    BY <1>0 DEF Owed, MovesMeant, MoveOf
  <1>3. OneMove(P)
    BY DEF Owed, OneMove, MoveOf
  <1>4. NamedThere(rows2, e)
    BY DEF Owed, NamedThere, Bound
  <1>5. Standing(rows2, P, e)
    <2>1. ASSUME NEW g \in FileIds, g # f, \A p \in P : ~MoveOf(p, g) PROVE \A o \in Q : ~MoveOf(o, g)
      BY <2>1 DEF MoveOf, UploadOf
    <2>2. \A g : \A p \in P : MoveOf(p, g) => p \in Q
      BY DEF MoveOf
    <2>3. ~Bound(rows2[f])
      BY DEF Bound
    <2> QED BY <2>1, <2>2, <2>3 DEF Owed, Standing
  <1>6. Accounted(rows2, P, e)
    <2> SUFFICES ASSUME NEW r \in Ids, e.files[r] # NoFile, r \notin e.known
                 PROVE  (\E g \in FileIds : BoundTo(rows2, g, r)) \/ \E p \in P : DeleteOf(p, r)
      BY DEF Accounted
    <2>1. (\E g \in FileIds : BoundTo(rows, g, r)) \/ \E o \in Q : DeleteOf(o, r)
      BY DEF Owed, Accounted
    <2>2. CASE \E o \in Q : DeleteOf(o, r)
      BY <2>2 DEF DeleteOf, UploadOf, MoveOf
    <2>3. CASE \E g \in FileIds : BoundTo(rows, g, r)
      <3>1. PICK g \in FileIds : BoundTo(rows, g, r)
        BY <2>3
      <3>2. CASE g = f
        <4>1. r # NoFile
          BY NothingAssumption, FilePushAssumption DEF Ids
        <4> QED BY <3>1, <3>2, <4>1 DEF Bound, BoundTo
      <3>3. CASE g # f
        BY <3>1, <3>3 DEF BoundTo
      <3> QED BY <3>2, <3>3
    <2> QED BY <2>1, <2>2, <2>3
  <1>7. DirsOwed(ds, P, e)
    BY DEF Owed, DirsOwed, MkdirOf, UploadOf, MoveOf
  <1> QED BY <1>1, <1>2, <1>3, <1>4, <1>5, <1>6, <1>7 DEF Owed

\* Another moment of the remote, and of the request under way.
LEMMA AnewOwed ==
  ASSUME NEW rows, NEW ds, NEW Q, NEW e, Owed(rows, ds, Q, e), NEW e2,
         \A f \in FileIds : Bound(rows[f]) =>
           /\ e2.files[rows[f].remote] # NoFile
           /\ f # e2.moving => /\ f # e.moving
                               /\ e2.files[rows[f].remote].at = e.files[rows[f].remote].at,
         \A r \in Ids : e2.files[r] # NoFile /\ r \notin e2.known => e.files[r] # NoFile /\ r \notin e.known,
         \A d \in Notebooks : ds[d] # NoRow /\ d \in e.dirs => d \in e2.dirs \/ \E o \in Q : MkdirOf(o, d)
  PROVE  Owed(rows, ds, Q, e2)
  <1>1. NamedThere(rows, e2) /\ Standing(rows, Q, e2)
    BY DEF Owed, NamedThere, Standing
  <1>2. Accounted(rows, Q, e2)
    BY DEF Owed, Accounted
  <1>3. DirsOwed(ds, Q, e2)
    BY DEF Owed, DirsOwed
  <1> QED BY <1>1, <1>2, <1>3 DEF Owed

\* A row still to be sent, born or elsewhere.
LEMMA PendingOwed ==
  ASSUME NEW rows, NEW ds, NEW Q \in SUBSET OwedOps, NEW e, Owed(rows, ds, Q, e), NEW f \in FileIds, ~Bound(rows[f]),
         NEW rows2, ~Bound(rows2[f]), \A g \in FileIds \ {f} : rows2[g] = rows[g],
         \E o \in Q : UploadOf(o, f)
  PROVE  Owed(rows2, ds, Q, e)
  <1>1. SendsOwed(rows2, Q) /\ NamedThere(rows2, e) /\ Standing(rows2, Q, e)
    BY DEF Owed, SendsOwed, NamedThere, Standing
  <1>2. MovesMeant(rows2, Q)
    <2>1. \A o \in Q : o.kind = "move-file" => o.file \in FileIds
      BY DEF OwedOps, OpOK
    <2> QED BY <2>1 DEF Owed, MovesMeant
  <1>3. \A r \in Ids : \A g \in FileIds : BoundTo(rows, g, r) => BoundTo(rows2, g, r)
    <2>1. \A r \in Ids : r # NoFile
      BY NothingAssumption DEF Ids
    <2> QED BY <2>1 DEF Bound, BoundTo
  <1>4. Accounted(rows2, Q, e)
    BY <1>3 DEF Owed, Accounted
  <1> QED BY <1>1, <1>2, <1>4 DEF Owed

\* From Q to P only the moves of f change: P has one at most, which takes the
\* file to where the row is; with none it is there.
Moves(Q, P, f, row, e) ==
  /\ \A o \in Q : ~MoveOf(o, f) => o \in P
  /\ \A p \in P : p \in Q \/ MoveOf(p, f)
  /\ \A p \in P : MoveOf(p, f) =>
       /\ p.to = row.at /\ (f # e.moving => p.at = e.files[row.remote].at)
       /\ \A q \in P : MoveOf(q, f) => q = p
  /\ (\A p \in P : ~MoveOf(p, f)) /\ f # e.moving => row.at = e.files[row.remote].at

\* A row that names a file that is there, and the one move its file is owed if
\* it is not where the row is.
LEMMA PlacedOwed ==
  ASSUME NEW rows, NEW ds, NEW Q \in SUBSET OwedOps, NEW e, Owed(rows, ds, Q, e), NEW f \in FileIds,
         NEW rows2, Bound(rows2[f]), \A g \in FileIds \ {f} : rows2[g] = rows[g],
         NEW e2, e2.files = e.files, e2.dirs = e.dirs, e.moving \in {f, NoRow, e2.moving},
         \A r \in e.known : r \in e2.known \/ r = rows2[f].remote,
         e.files[rows2[f].remote] # NoFile,
         \A r \in Ids : BoundTo(rows, f, r) => r \in e2.known \/ r = rows2[f].remote,
         NEW P, Moves(Q, P, f, rows2[f], e2)
  PROVE  Owed(rows2, ds, P, e2)
  <1>m. /\ \A o \in Q : ~MoveOf(o, f) => o \in P
        /\ \A p \in P : p \in Q \/ MoveOf(p, f)
        /\ \A p \in P : MoveOf(p, f) =>
             /\ p.to = rows2[f].at /\ (f # e2.moving => p.at = e.files[rows2[f].remote].at)
             /\ \A q \in P : MoveOf(q, f) => q = p
        /\ (\A p \in P : ~MoveOf(p, f)) /\ f # e2.moving => rows2[f].at = e.files[rows2[f].remote].at
    BY DEF Moves
  <1>0. NoRow \notin FileIds
    BY NothingAssumption
  <1>1. SendsOwed(rows2, P)
    BY <1>m DEF Owed, SendsOwed, UploadOf, MoveOf
  <1>2. MovesMeant(rows2, P)
    <2>1. \A o \in Q : o.kind = "move-file" => o.file \in FileIds
      BY DEF OwedOps, OpOK
    <2> QED BY <1>m, <2>1 DEF Owed, MovesMeant, MoveOf
  <1>3. OneMove(P)
    BY <1>m DEF Owed, OneMove, MoveOf
  <1>4. NamedThere(rows2, e2)
    BY DEF Owed, NamedThere
  <1>5. Standing(rows2, P, e2)
    <2> SUFFICES ASSUME NEW g \in FileIds, Bound(rows2[g]), g # e2.moving
                 PROVE  /\ \A p \in P : MoveOf(p, g) => p.at = e2.files[rows2[g].remote].at
                        /\ (\A p \in P : ~MoveOf(p, g)) => rows2[g].at = e2.files[rows2[g].remote].at
      BY DEF Standing
    <2>1. CASE g = f
      BY <1>m, <2>1
    <2>2. CASE g # f
      <3>1. rows2[g] = rows[g] /\ g # e.moving
        BY <1>0, <2>2
      <3>2. /\ \A o \in Q : MoveOf(o, g) => o.at = e.files[rows[g].remote].at
            /\ (\A o \in Q : ~MoveOf(o, g)) => rows[g].at = e.files[rows[g].remote].at
        BY <3>1 DEF Owed, Standing
      <3>3. \A p \in P : MoveOf(p, g) => p \in Q
        BY <1>m, <2>2 DEF MoveOf
      <3>4. \A o \in Q : MoveOf(o, g) => o \in P
        BY <1>m, <2>2 DEF MoveOf
      <3> QED BY <3>1, <3>2, <3>3, <3>4
    <2> QED BY <2>1, <2>2
  <1>6. Accounted(rows2, P, e2)
    <2> SUFFICES ASSUME NEW r \in Ids, e.files[r] # NoFile, r \notin e2.known, r # rows2[f].remote
                 PROVE  (\E g \in FileIds : BoundTo(rows2, g, r)) \/ \E p \in P : DeleteOf(p, r)
      BY DEF Accounted, BoundTo, Bound
    <2>1. (\E g \in FileIds : BoundTo(rows, g, r)) \/ \E o \in Q : DeleteOf(o, r)
      BY DEF Owed, Accounted
    <2>2. \A g \in FileIds : BoundTo(rows, g, r) => BoundTo(rows2, g, r)
      BY DEF BoundTo
    <2>3. \A o \in Q : DeleteOf(o, r) => o \in P
      BY <1>m DEF DeleteOf, MoveOf
    <2> QED BY <2>1, <2>2, <2>3
  <1>7. DirsOwed(ds, P, e2)
    BY <1>m DEF Owed, DirsOwed, MkdirOf, MoveOf
  <1> QED BY <1>1, <1>2, <1>3, <1>4, <1>5, <1>6, <1>7 DEF Owed

\* A notebook's row is made, changed or gone.
LEMMA DirOwed ==
  ASSUME NEW rows, NEW ds, NEW Q, NEW e, Owed(rows, ds, Q, e), NEW ds2,
         \A d \in Notebooks : ds2[d] # NoRow =>
           ds[d] # NoRow \/ d \in e.dirs \/ \E o \in Q : MkdirOf(o, d)
  PROVE  Owed(rows, ds2, Q, e)
  BY DEF Owed, DirsOwed

-----------------------------------------------------------------------------
(* The queue of a store, as a set.                                           *)

OwedBy(st, e) == Owed(st.files, st.dirs, Queued(st), e)
\* Owed it still is, and what the run has read is as it was.
OwedStill(st, s, e) == OwedBy(s, e) /\ LikeFrom(Queued(st), Queued(s), st.kept)

LEMMA QueueTyped ==
  ASSUME NEW st \in Stores
  PROVE  Queued(st) \in SUBSET OwedOps
  BY StoreTyped DEF Queued

LEMMA OwedItself ==
  ASSUME NEW st, NEW e, OwedBy(st, e)
  PROVE  OwedStill(st, st, e)
  BY DEF OwedStill, LikeFrom, Like

LEMMA LikeTrans ==
  ASSUME NEW o, NEW p, NEW q, Like(o, p), Like(p, q)
  PROVE  Like(o, q)
  BY DEF Like

LEMMA OwedTrans ==
  ASSUME NEW a, NEW b, NEW c, NEW e, OwedStill(a, b, e), b.kept = a.kept, OwedStill(b, c, e)
  PROVE  OwedStill(a, c, e)
  <1>1. ASSUME NEW p \in Queued(c), p.tag \in a.kept PROVE \E o \in Queued(a) : Like(o, p)
    <2>1. PICK q \in Queued(b) : Like(q, p)
      BY <1>1 DEF OwedStill, LikeFrom
    <2>2. PICK o \in Queued(a) : Like(o, q)
      BY <1>1, <2>1 DEF OwedStill, LikeFrom, Like
    <2> QED BY <2>1, <2>2, LikeTrans
  <1> QED BY <1>1 DEF OwedStill, LikeFrom

LEMMA QueueLess ==
  ASSUME NEW st \in Stores, NEW gone
  PROVE  /\ Withdraw(st, gone) \in Stores /\ Queued(Withdraw(st, gone)) = Queued(st) \ gone
         /\ Withdraw(st, gone).files = st.files /\ Withdraw(st, gone).dirs = st.dirs
         /\ Withdraw(st, gone).kept = st.kept
  <1> DEFINE w == Withdraw(st, gone)
  <1>1. /\ w \in Stores /\ w = [st EXCEPT !.ops = w.ops] /\ Part(st.ops, w.ops)
        /\ \A k \in DOMAIN w.ops : w.ops[k] \notin gone
        /\ \A i \in DOMAIN st.ops : st.ops[i] \notin gone => \E k \in DOMAIN w.ops : w.ops[k] = st.ops[i]
    BY WithdrawIs
  <1> HIDE DEF w
  <1>2. w.files = st.files /\ w.dirs = st.dirs /\ w.kept = st.kept
    BY <1>1 DEF Stores
  <1>3. Queued(w) = Queued(st) \ gone
    BY <1>1 DEF Queued, Part
  <1> QED BY <1>1, <1>2, <1>3 DEF w

\* A new op is what was to be queued, but for its tag.
NewOp(p, op, kept) == p \in OwedOps /\ p.tag \notin kept /\ p = [op EXCEPT !.tag = p.tag]

LEMMA QueueMore ==
  ASSUME NEW st \in Stores, NEW op \in OwedOps
  PROVE  /\ Add(st, op) \in Stores
         /\ \E p : /\ NewOp(p, op, st.kept) /\ Queued(Add(st, op)) = Queued(st) \cup {p}
                   /\ \A o \in Queued(st) : o.tag # p.tag
         /\ Add(st, op).files = st.files /\ Add(st, op).dirs = st.dirs /\ Add(st, op).kept = st.kept
  <1> DEFINE a == Add(st, op)
  <1>1. a \in Stores /\ a = [st EXCEPT !.ops = a.ops]
    BY AddIs
  <1>2. PICK t \in Nat \ {0} :
              /\ a.ops = Append(st.ops, [op EXCEPT !.tag = t])
              /\ [op EXCEPT !.tag = t] \in OwedOps
              /\ t \notin st.kept /\ \A i \in DOMAIN st.ops : st.ops[i].tag # t
    BY AddIs
  <1> DEFINE p == [op EXCEPT !.tag = t]
  <1> HIDE DEF a
  <1>3. p.tag = t
    BY DEF OwedOps, QueuedOps
  <1>4. NewOp(p, op, st.kept)
    BY <1>2, <1>3 DEF NewOp
  <1> HIDE DEF p
  <1>5. st.ops \in Seq(OwedOps) /\ p \in OwedOps /\ a.ops = Append(st.ops, p)
    BY <1>2, <1>4, StoreTyped DEF NewOp, p
  <1>6. {a.ops[i] : i \in DOMAIN a.ops} = {st.ops[i] : i \in DOMAIN st.ops} \cup {p}
    <2>1. /\ DOMAIN st.ops = 1..Len(st.ops) /\ Len(st.ops) \in Nat
          /\ DOMAIN a.ops = 1..(Len(st.ops) + 1) /\ a.ops[Len(st.ops) + 1] = p
          /\ \A i \in 1..Len(st.ops) : a.ops[i] = st.ops[i]
      BY <1>5
    <2>2. \A i \in DOMAIN a.ops : a.ops[i] = p \/ \E j \in DOMAIN st.ops : a.ops[i] = st.ops[j]
      BY <2>1
    <2>3. \A j \in DOMAIN st.ops : \E i \in DOMAIN a.ops : a.ops[i] = st.ops[j]
      BY <2>1
    <2>4. \E i \in DOMAIN a.ops : a.ops[i] = p
      BY <2>1
    <2> QED BY <2>2, <2>3, <2>4
  <1>7. Queued(a) = Queued(st) \cup {p} /\ \A o \in Queued(st) : o.tag # p.tag
    BY <1>2, <1>3, <1>6 DEF Queued, p
  <1>8. a.files = st.files /\ a.dirs = st.dirs /\ a.kept = st.kept
    BY <1>1 DEF Stores
  <1> QED BY <1>1, <1>4, <1>7, <1>8 DEF a

LEMMA NewOpIs ==
  ASSUME NEW op \in OwedOps, NEW kept, NEW p, NewOp(p, op, kept)
  PROVE  /\ p.kind = op.kind /\ p.file = op.file /\ p.remote = op.remote /\ p.at = op.at /\ p.to = op.to
         /\ p.tag \notin kept
  BY DEF NewOp, OwedOps, QueuedOps

LEMMA WithdrawStill ==
  ASSUME NEW st \in Stores, NEW e, OwedBy(st, e), NEW gone,
         \A o \in Queued(st) \cap gone :
           /\ o.kind \notin {"move-file", "delete-file"}
           /\ o.kind = "upload" => st.files[o.file] = NoRow \/ Bound(st.files[o.file])
           /\ o.kind = "mkdir" => st.dirs[o.at.dir] = NoRow \/ o.at.dir \in e.dirs
  PROVE  OwedStill(st, Withdraw(st, gone), e)
  <1> DEFINE w == Withdraw(st, gone)
  <1>1. Queued(w) = Queued(st) \ gone /\ w.files = st.files /\ w.dirs = st.dirs
    BY QueueLess
  <1> HIDE DEF w
  <1>2. Owed(st.files, st.dirs, Queued(st) \ gone, e)
    BY PaidOwed DEF OwedBy
  <1>3. LikeFrom(Queued(st), Queued(st) \ gone, st.kept)
    BY DEF LikeFrom, Like
  <1> QED BY <1>1, <1>2, <1>3 DEF OwedStill, OwedBy, w

LEMMA AddStill ==
  ASSUME NEW st \in Stores, NEW e, OwedBy(st, e), NEW op \in OwedOps, op.kind # "move-file"
  PROVE  OwedStill(st, Add(st, op), e)
  <1> DEFINE a == Add(st, op)
  <1>1. PICK p : NewOp(p, op, st.kept) /\ Queued(a) = Queued(st) \cup {p}
    BY QueueMore
  <1>2. a.files = st.files /\ a.dirs = st.dirs
    BY QueueMore
  <1> HIDE DEF a
  <1>3. p.kind # "move-file" /\ p.tag \notin st.kept
    BY <1>1, NewOpIs
  <1>4. Owed(st.files, st.dirs, Queued(st) \cup {p}, e)
    BY <1>3, MoreOwed DEF OwedBy
  <1>5. LikeFrom(Queued(st), Queued(st) \cup {p}, st.kept)
    BY <1>3 DEF LikeFrom, Like
  <1> QED BY <1>1, <1>2, <1>4, <1>5 DEF OwedStill, OwedBy, a

\* Ops rewritten in place, and rows where they were.
LEMMA RewriteStill ==
  ASSUME NEW st \in Stores, NEW e, OwedBy(st, e), NEW s, SameRows(st.files, s.files), s.dirs = st.dirs,
         NEW n, \A o \in Queued(st) : Like(o, n[o]), s.ops = [i \in DOMAIN st.ops |-> n[st.ops[i]]]
  PROVE  OwedStill(st, s, e)
  <1>1. Queued(s) = {n[o] : o \in Queued(st)}
    BY DEF Queued
  <1>2. Owed(s.files, st.dirs, {n[o] : o \in Queued(st)}, e)
    <2> DEFINE Q == Queued(st)
    <2>1. Q \in SUBSET OwedOps /\ Owed(st.files, st.dirs, Q, e) /\ \A o \in Q : Like(o, n[o])
      BY QueueTyped DEF OwedBy
    <2> HIDE DEF Q
    <2>2. Owed(s.files, st.dirs, {n[o] : o \in Q}, e)
      BY <2>1, AlikeOwed
    <2> QED BY <2>2 DEF Q
  <1>3. LikeFrom(Queued(st), {n[o] : o \in Queued(st)}, st.kept)
    BY DEF LikeFrom
  <1> QED BY <1>1, <1>2, <1>3 DEF OwedStill, OwedBy

-----------------------------------------------------------------------------
(* The writers.                                                              *)

\* moveFileTo: a file the remote has is owed one move, from where it has it,
\* unless that is where it now is.
LEMMA MoveFileStill ==
  ASSUME NEW st \in Stores, NEW A, NEW m, StoreOK(st, A, m), NEW e, OwedBy(st, e),
         NEW f \in FileIds, st.files[f] # NoRow, NEW d \in Folders
  PROVE  OwedStill(st, MoveFileTo(st, f, d), e)
  <1> DEFINE row == [st.files[f] EXCEPT !.at.dir = d]
             u == PutFile(st, f, row)
             from == st.files[f].at
             Q == Queued(st)
  <1>1. st.files[f] \in Rows /\ from \in Paths
    BY StoreTyped DEF Rows
  <1>2. row \in Rows /\ row.remote = st.files[f].remote /\ row # NoRow
    <2>1. row \in Rows /\ row.remote = st.files[f].remote
      BY <1>1 DEF Rows, Paths
    <2> QED BY <2>1, NothingAssumption
  <1>3. MoveFileTo(st, f, d) = QueueMoveFile(u, f, from)
    BY DEF MoveFileTo
  <1>4. Q \in SUBSET OwedOps /\ Owed(st.files, st.dirs, Q, e)
    BY QueueTyped DEF OwedBy
  <1> HIDE DEF row, from, Q
  <1>5. /\ u \in Stores /\ u.ops = st.ops /\ u.dirs = st.dirs /\ u.kept = st.kept
        /\ u.files[f] = row /\ \A g \in FileIds \ {f} : u.files[g] = st.files[g]
    BY <1>2 DEF PutFile, Stores
  <1> HIDE DEF u
  <1>6. Queued(u) = Q
    BY <1>5 DEF Queued, Q
  <1> DEFINE at == row.at
             moves == MovesOf(u, f)
             ups == UploadsOf(u, f)
             origin == IF moves = {} THEN from ELSE (CHOOSE o \in moves : TRUE).at
             rest == Withdraw(u, moves)
             new == MoveOp(f, origin, at)
  <1>7. moves = {o \in Q : MoveOf(o, f)}
    BY <1>6 DEF MovesOf, OpsForFile, MoveOf
  <1>8. CASE row.remote = NoFile
    <2> DEFINE n == [o \in Q |-> IF o \in ups THEN [o EXCEPT !.at = at, !.to = at] ELSE o]
               s == [u EXCEPT !.ops = [i \in DOMAIN u.ops |-> n[u.ops[i]]]]
    <2>1. QueueMoveFile(u, f, from) = s
      <3>1. QueueMoveFile(u, f, from) =
              [u EXCEPT !.ops = [i \in DOMAIN u.ops |-> IF u.ops[i] \in ups
                                                       THEN [u.ops[i] EXCEPT !.at = at, !.to = at]
                                                       ELSE u.ops[i]]]
        BY <1>5, <1>8 DEF QueueMoveFile, Rewrite
      <3>2. \A i \in DOMAIN u.ops : u.ops[i] \in Q
        BY <1>6 DEF Queued
      <3> HIDE DEF ups, at
      <3> QED BY <3>1, <3>2
    <2>2. \E o \in Q : UploadOf(o, f)
      BY <1>2, <1>4, <1>8 DEF Owed, SendsOwed, Bound
    <2>3. Owed(u.files, st.dirs, Q, e)
      BY <1>2, <1>4, <1>5, <1>8, <2>2, PendingOwed DEF Bound
    <2>4. OwedBy(u, e)
      BY <1>5, <1>6, <2>3 DEF OwedBy
    <2>5. \A o \in Q : Like(o, n[o])
      <3> SUFFICES ASSUME NEW o \in Q PROVE Like(o, n[o])
        OBVIOUS
      <3>1. o \in QueuedOps
        BY <1>4 DEF OwedOps
      <3>2. CASE o \in ups
        <4>1. o.kind = "upload"
          BY <3>2 DEF UploadsOf
        <4>2. n[o] = [o EXCEPT !.at = at, !.to = at]
          BY <3>2
        <4> HIDE DEF n, at
        <4> QED BY <3>1, <4>1, <4>2 DEF Like, QueuedOps
      <3>3. CASE o \notin ups
        BY <3>3 DEF Like
      <3> QED BY <3>2, <3>3
    <2> HIDE DEF n
    <2>6. /\ s.files = u.files /\ s.dirs = u.dirs /\ s.ops = [i \in DOMAIN u.ops |-> n[u.ops[i]]]
          /\ SameRows(u.files, s.files)
      BY <1>5 DEF Stores, SameRows
    <2> HIDE DEF s
    <2>7. OwedStill(u, s, e)
      BY <1>5, <1>6, <2>4, <2>5, <2>6, RewriteStill
    <2> QED BY <1>3, <1>5, <1>6, <2>1, <2>7 DEF OwedStill, Q
  <1>9. CASE row.remote # NoFile
    <2>1. Bound(st.files[f]) /\ Bound(row) /\ row.remote = st.files[f].remote
      BY <1>2, <1>9 DEF Bound
    <2>2. \A o \in moves : moves = {o}
      BY <1>4, <1>7 DEF Owed, OneMove, MoveOf
    <2>3. moves # {} => origin \in {o.at : o \in moves}
      OBVIOUS
    <2>4. f # e.moving => origin = e.files[row.remote].at
      <3>1. f # e.moving =>
              /\ \A o \in Q : MoveOf(o, f) => o.at = e.files[row.remote].at
              /\ (\A o \in Q : ~MoveOf(o, f)) => from = e.files[row.remote].at
        BY <1>4, <2>1 DEF Owed, Standing, from
      <3> HIDE DEF moves
      <3>2. CASE moves = {}
        BY <1>7, <3>1, <3>2
      <3>3. CASE moves # {}
        <4> HIDE DEF origin
        <4> QED BY <1>7, <2>3, <3>1, <3>3
      <3> QED BY <3>2, <3>3
    <2>5. at \in Paths /\ origin \in Paths
      <3>1. at \in Paths
        BY <1>2 DEF Rows
      <3>2. \A o \in moves : o.at \in Paths
        BY <1>4, <1>7 DEF OwedOps, QueuedOps
      <3>3. moves = {} => origin = from
        OBVIOUS
      <3> HIDE DEF moves, origin
      <3> QED BY <1>1, <2>3, <3>1, <3>2, <3>3
    <2>6. \/ (\E o \in moves : moves = {o} /\ o.to = at) /\ QueueMoveFile(u, f, from) = u
          \/ origin = at /\ QueueMoveFile(u, f, from) = rest
          \/ QueueMoveFile(u, f, from) = Add(rest, new)
      <3> HIDE DEF rest, new
      <3> QED BY <1>5, <1>9 DEF QueueMoveFile, rest, new
    <2>7. new \in OwedOps /\ new.kind = "move-file" /\ new.file = f /\ new.at = origin /\ new.to = at
      <3> HIDE DEF origin, at
      <3> QED BY <2>5 DEF MoveOp, Op, OwedOps, OpOK, QueuedOps, Kinds
    <2> HIDE DEF moves, origin, new, at
    <2>8. /\ rest \in Stores /\ Queued(rest) = Q \ moves
          /\ rest.files = u.files /\ rest.dirs = u.dirs /\ rest.kept = u.kept
      BY <1>5, <1>6, QueueLess
    <2> HIDE DEF rest
    <2>9. ASSUME NEW P, P \subseteq Q \/ \E p : NewOp(p, new, st.kept) /\ P \subseteq Q \cup {p},
                 Q \ moves \subseteq P, \A p \in P : p \in Q \/ MoveOf(p, f),
                 \A p \in P : MoveOf(p, f) => p.to = at /\ (f # e.moving => p.at = origin)
                                              /\ \A q \in P : MoveOf(q, f) => q = p,
                 (\A p \in P : ~MoveOf(p, f)) => origin = at
          PROVE  Owed(u.files, u.dirs, P, e) /\ LikeFrom(Q, P, st.kept)
      <3>1. e.files[row.remote] # NoFile
        BY <1>4, <2>1 DEF Owed, NamedThere
      <3>2. \A r \in Ids : BoundTo(st.files, f, r) => r = row.remote
        BY <2>1 DEF BoundTo
      <3>4. Owed(u.files, st.dirs, P, e)
        <4> DEFINE rows2 == u.files
        <4>1. rows2[f] = row /\ \A g \in FileIds \ {f} : rows2[g] = st.files[g]
          BY <1>5
        <4> HIDE DEF rows2
        <4>2. Moves(Q, P, f, row, e)
          BY <1>7, <2>4, <2>9 DEF Moves, at
        <4>3. /\ Bound(rows2[f]) /\ e.files[rows2[f].remote] # NoFile
              /\ \A r \in Ids : BoundTo(st.files, f, r) => r \in e.known \/ r = rows2[f].remote
          BY <2>1, <3>1, <3>2, <4>1
        <4>5. Owed(rows2, st.dirs, P, e)
          BY <1>4, <4>1, <4>2, <4>3, PlacedOwed
        <4> QED BY <4>5 DEF rows2
      <3>5. LikeFrom(Q, P, st.kept)
        BY <2>9 DEF LikeFrom, Like, NewOp
      <3> QED BY <1>5, <3>4, <3>5
    <2>10. CASE (\E o \in moves : moves = {o} /\ o.to = at) /\ QueueMoveFile(u, f, from) = u
      <3>1. \A p \in Q : MoveOf(p, f) => /\ p.to = at /\ (f # e.moving => p.at = origin)
                                         /\ \A q \in Q : MoveOf(q, f) => q = p
        <4>1. \A o \in moves : o.at = origin
          BY <2>2, <2>3
        <4> QED BY <1>7, <2>2, <2>10, <4>1
      <3>2. \E p \in Q : MoveOf(p, f)
        BY <1>7, <2>10
      <3>3. Owed(u.files, u.dirs, Q, e) /\ LikeFrom(Q, Q, st.kept)
        BY <2>9, <3>1, <3>2
      <3> QED BY <1>3, <1>6, <2>10, <3>3 DEF OwedStill, OwedBy, Q
    <2>11. CASE origin = at /\ QueueMoveFile(u, f, from) = rest
      <3>1. \A p \in Q \ moves : ~MoveOf(p, f)
        BY <1>7
      <3>2. Owed(u.files, u.dirs, Q \ moves, e) /\ LikeFrom(Q, Q \ moves, st.kept)
        BY <2>9, <2>11, <3>1
      <3> QED BY <1>3, <2>8, <2>11, <3>2 DEF OwedStill, OwedBy, Q
    <2>12. CASE QueueMoveFile(u, f, from) = Add(rest, new)
      <3>1. PICK p : NewOp(p, new, rest.kept) /\ Queued(Add(rest, new)) = Queued(rest) \cup {p}
        BY <2>7, <2>8, QueueMore
      <3>2. Add(rest, new).files = u.files /\ Add(rest, new).dirs = u.dirs
        BY <2>7, <2>8, QueueMore
      <3>3. MoveOf(p, f) /\ p.at = origin /\ p.to = at
        BY <2>7, <3>1, NewOpIs DEF MoveOf
      <3>4. Queued(Add(rest, new)) = (Q \ moves) \cup {p}
        BY <2>8, <3>1
      <3>5. \A q \in (Q \ moves) \cup {p} : MoveOf(q, f) => q = p
        BY <1>7
      <3>6. NewOp(p, new, st.kept)
        BY <1>5, <2>8, <3>1
      <3>7. /\ Owed(u.files, u.dirs, (Q \ moves) \cup {p}, e)
            /\ LikeFrom(Q, (Q \ moves) \cup {p}, st.kept)
        BY <2>9, <3>3, <3>5, <3>6
      <3> QED BY <1>3, <2>12, <3>2, <3>4, <3>7 DEF OwedStill, OwedBy, Q
    <2> QED BY <2>6, <2>10, <2>11, <2>12
  <1> QED BY <1>8, <1>9

\* handOverToCopies: rows and ops change only in their bytes.
LEMMA HandOverStill ==
  ASSUME NEW st \in Stores, NEW e, OwedBy(st, e), NEW f \in FileIds
  PROVE  OwedStill(st, HandOver(st, f), e)
  <1> DEFINE row == st.files[f]
             copies == {o \in Queued(st) : o.kind = "upload" /\ o.copyOf = row.remote}
             has(g, r) == IF r # NoRow /\ \E o \in copies : o.file = g
                          THEN [r EXCEPT !.held = TRUE] ELSE r
             n == [o \in Queued(st) |-> IF o \in copies THEN [o EXCEPT !.copyOf = NoFile] ELSE o]
             ops2 == [i \in DOMAIN st.ops |-> n[st.ops[i]]]
             rows == [g \in FileIds |-> has(g, st.files[g])]
             s == [st EXCEPT !.ops = ops2, !.files = rows]
  <1>1. CASE row.remote = NoFile \/ ~row.held
    <2>1. HandOver(st, f) = st
      BY <1>1 DEF HandOver
    <2> QED BY <2>1, OwedItself
  <1>2. CASE ~(row.remote = NoFile \/ ~row.held)
    <2>1. HandOver(st, f) = s
      <3>1. DOMAIN st.files = FileIds
        BY StoreTyped
      <3>2. HandOver(st, f) = [Rewrite(st, LAMBDA o : IF o \in copies THEN [o EXCEPT !.copyOf = NoFile] ELSE o)
                                EXCEPT !.files = [g \in DOMAIN @ |-> has(g, @[g])]]
        BY <1>2 DEF HandOver
      <3>3. \A i \in DOMAIN st.ops : st.ops[i] \in Queued(st)
        BY DEF Queued
      <3>4. ops2 = [i \in DOMAIN st.ops |-> IF st.ops[i] \in copies
                                            THEN [st.ops[i] EXCEPT !.copyOf = NoFile] ELSE st.ops[i]]
        <4> HIDE DEF copies
        <4> QED BY <3>3
      <3> HIDE DEF n, ops2, copies
      <3> QED BY <3>1, <3>2, <3>4 DEF Rewrite, Stores
    <2>2. \A o \in Queued(st) : Like(o, n[o])
      <3> SUFFICES ASSUME NEW o \in Queued(st) PROVE Like(o, n[o])
        OBVIOUS
      <3>1. o \in QueuedOps
        BY QueueTyped DEF OwedOps
      <3>2. n[o] \in {[o EXCEPT !.copyOf = NoFile], o}
        OBVIOUS
      <3> HIDE DEF n
      <3> QED BY <3>1, <3>2 DEF Like, QueuedOps
    <2>3. ASSUME NEW g \in FileIds
          PROVE  /\ st.files[g] # NoRow <=> rows[g] # NoRow
                 /\ st.files[g] # NoRow => rows[g].at = st.files[g].at /\ rows[g].remote = st.files[g].remote
      <3>1. rows[g] \in {[st.files[g] EXCEPT !.held = TRUE], st.files[g]}
            /\ (st.files[g] = NoRow => rows[g] = NoRow)
        OBVIOUS
      <3> HIDE DEF rows
      <3>2. CASE st.files[g] = NoRow
        BY <3>1, <3>2
      <3>3. CASE st.files[g] # NoRow
        <4>1. st.files[g] \in Rows
          BY <3>3, StoreTyped
        <4>2. rows[g] \in Rows /\ rows[g].at = st.files[g].at /\ rows[g].remote = st.files[g].remote
          BY <3>1, <4>1 DEF Rows
        <4> QED BY <3>3, <4>2, NothingAssumption
      <3> QED BY <3>2, <3>3
    <2> HIDE DEF n, rows
    <2>4. s.ops = [i \in DOMAIN st.ops |-> n[st.ops[i]]] /\ s.files = rows /\ s.dirs = st.dirs
      <3> HIDE DEF ops2
      <3>1. s.ops = ops2 /\ s.files = rows /\ s.dirs = st.dirs
        BY DEF Stores
      <3> QED BY <3>1 DEF ops2
    <2> HIDE DEF s
    <2>5. SameRows(st.files, s.files)
      BY <2>3, <2>4 DEF SameRows
    <2>6. OwedStill(st, s, e)
      BY <2>2, <2>4, <2>5, RewriteStill
    <2> QED BY <2>1, <2>6
  <1> QED BY <1>1, <1>2

\* The row goes, and what is queued for it; the remote's file is to go too.
LEMMA DropFileStill ==
  ASSUME NEW st \in Stores, NEW A, NEW m, StoreOK(st, A, m), NEW e, OwedBy(st, e),
         NEW f \in FileIds, st.files[f] # NoRow
  PROVE  OwedStill(st, DropFile(st, f), e)
  <1> DEFINE h == HandOver(st, f)
             moves == MovesOf(h, f)
             at == IF moves = {} THEN h.files[f].at ELSE (CHOOSE o \in moves : TRUE).at
             gone == moves \cup UploadsOf(h, f)
             rest == Withdraw(h, gone)
             D == DeleteOp(at, h.files[f].remote)
             t == QueueDeleteFile(h, f)
             s == DropFile(st, f)
             Q == Queued(h)
  <1>1. OwedStill(st, h, e)
    BY HandOverStill
  <1>2. h \in Stores /\ h.kept = st.kept /\ h.files[f] # NoRow
    BY HandOverOK DEF FineForUser, Fine
  <1> HIDE DEF h
  <1>3. Q \in SUBSET OwedOps /\ Owed(h.files, h.dirs, Q, e)
    BY <1>1, <1>2, QueueTyped DEF OwedStill, OwedBy
  <1>4. \A o \in Q : o \in gone <=> UploadOf(o, f) \/ MoveOf(o, f)
    BY DEF UploadsOf, MovesOf, OpsForFile, UploadOf, MoveOf
  <1>5. h.files[f] \in Rows
    BY <1>2, StoreTyped
  <1>6. at \in Paths
    <2>1. moves # {} => at \in {o.at : o \in moves}
      OBVIOUS
    <2>2. \A o \in moves : o.at \in Paths
      BY <1>2, OpsOfTyped DEF OwedOps, QueuedOps
    <2>3. moves = {} => at = h.files[f].at
      OBVIOUS
    <2> HIDE DEF moves, at
    <2> QED BY <1>5, <2>1, <2>2, <2>3 DEF Rows
  <1>7. t = IF h.files[f].remote = NoFile THEN rest ELSE Add(rest, D)
    BY DEF QueueDeleteFile
  <1> HIDE DEF gone, at, moves
  <1>8. /\ rest \in Stores /\ Queued(rest) = Q \ gone
        /\ rest.files = h.files /\ rest.dirs = h.dirs /\ rest.kept = h.kept
    BY <1>2, QueueLess
  <1> HIDE DEF rest, D, t
  <1>9. /\ t \in Stores /\ t.files = h.files /\ t.dirs = h.dirs
        /\ \A o \in Q : ~UploadOf(o, f) /\ ~MoveOf(o, f) => o \in Queued(t)
        /\ \A p \in Queued(t) : ~MoveOf(p, f) /\ (p \in Q \/ (p.kind = "delete-file" /\ p.tag \notin st.kept))
        /\ Bound(h.files[f]) => \E p \in Queued(t) : DeleteOf(p, h.files[f].remote)
    <2>1. CASE h.files[f].remote = NoFile
      <3>1. t = rest
        BY <1>7, <2>1
      <3> QED BY <1>4, <1>8, <2>1, <3>1 DEF Bound
    <2>2. CASE h.files[f].remote # NoFile
      <3>1. t = Add(rest, D)
        BY <1>7, <2>2
      <3>2. D \in OwedOps /\ D.kind = "delete-file" /\ D.remote = h.files[f].remote
        <4>1. h.files[f].remote \in Ids
          BY <1>5, <2>2 DEF Rows
        <4> QED BY <1>6, <4>1 DEF D, DeleteOp, Op, OwedOps, OpOK, QueuedOps, Kinds, Ids
      <3>3. PICK p : NewOp(p, D, rest.kept) /\ Queued(t) = Queued(rest) \cup {p}
        BY <1>8, <3>1, <3>2, QueueMore
      <3>4. t \in Stores /\ t.files = rest.files /\ t.dirs = rest.dirs
        BY <1>8, <3>1, <3>2, QueueMore
      <3>5. p.kind = "delete-file" /\ p.remote = h.files[f].remote /\ p.tag \notin st.kept
        BY <1>2, <1>8, <3>2, <3>3, NewOpIs
      <3>6. DeleteOf(p, h.files[f].remote) /\ ~MoveOf(p, f) /\ p \in Queued(t)
        BY <3>3, <3>5 DEF DeleteOf, MoveOf
      <3>7. Queued(t) = (Q \ gone) \cup {p}
        BY <1>8, <3>3
      <3> QED BY <1>4, <1>8, <3>4, <3>5, <3>6, <3>7
    <2> QED BY <2>1, <2>2
  <1>10. s = PutFile(t, f, NoRow)
    BY DEF DropFile, t, h
  <1> HIDE DEF s
  <1>11. /\ s.dirs = h.dirs /\ Queued(s) = Queued(t) /\ s.files[f] = NoRow
         /\ \A g \in FileIds \ {f} : s.files[g] = h.files[g]
    BY <1>9, <1>10 DEF PutFile, Stores, Queued
  <1>12. Owed(s.files, h.dirs, Queued(t), e)
    <2> DEFINE P == Queued(t)
               rows2 == s.files
    <2>1. /\ rows2[f] = NoRow /\ \A g \in FileIds \ {f} : rows2[g] = h.files[g]
      BY <1>11
    <2>2. /\ \A o \in Q : ~UploadOf(o, f) /\ ~MoveOf(o, f) => o \in P
          /\ \A p \in P : ~MoveOf(p, f) /\ (p \in Q \/ p.kind = "delete-file")
          /\ Bound(h.files[f]) => \E p \in P : DeleteOf(p, h.files[f].remote)
      BY <1>9
    <2> HIDE DEF P, rows2, Q
    <2>3. Owed(rows2, h.dirs, P, e)
      BY <1>3, <2>1, <2>2, GoneOwed
    <2> QED BY <2>3 DEF P, rows2
  <1>13. LikeFrom(Q, Queued(t), st.kept)
    BY <1>9 DEF LikeFrom, Like
  <1>14. OwedStill(h, s, e)
    BY <1>2, <1>11, <1>12, <1>13 DEF OwedStill, OwedBy
  <1> QED BY <1>1, <1>2, <1>14, OwedTrans DEF s

\* What is reached by what keeps it, and owed.
StillReached(st, A, m, e) == {s \in Reached(st, A, m) : OwedStill(st, s, e)}

LEMMA ReachedThen ==
  ASSUME NEW st \in Stores, NEW A, NEW m, NEW e, NEW s \in StillReached(st, A, m, e), NEW t,
         FineForUser(s, t, {}, A, m), t.dirs = s.dirs, OwedStill(s, t, e)
  PROVE  t \in StillReached(st, A, m, e)
  <1>1. s \in Stores /\ FineForUser(st, s, {}, A, m) /\ s.dirs = st.dirs /\ OwedStill(st, s, e)
        /\ s.kept = st.kept
    BY DEF StillReached, Reached, FineForUser, Fine
  <1>2. FineForUser(st, t, {}, A, m) /\ OwedStill(st, t, e)
    BY <1>1, UserTrans, OwedTrans
  <1>3. t \in Stores
    BY DEF FineForUser, Fine
  <1> QED BY <1>1, <1>2, <1>3 DEF StillReached, Reached

LEMMA DropFilesStill ==
  ASSUME NEW st \in Stores, NEW A \in SUBSET Ids, NEW m, \A r \in A : r <= m,
         StoreOK(st, A, m), NEW e, OwedBy(st, e), NEW fs, \A f \in fs : f \in FileIds => st.files[f] # NoRow
  PROVE  DropFiles(st, fs) \in StillReached(st, A, m, e)
  <1> DEFINE G == StillReached(st, A, m, e)
  <1>1. G \in SUBSET Stores /\ st \in G
    BY FineItself, OwedItself DEF StillReached, Reached
  <1>2. ASSUME NEW s \in G, NEW f \in FileIds, s.files[f] # NoRow
        PROVE  DropFile(s, f) \in G /\ OthersStay(s, DropFile(s, f), f)
    <2>1. s \in Stores /\ StoreOK(s, A, m) /\ OwedBy(s, e)
      BY DEF StillReached, Reached, FineForUser, Fine, OwedStill
    <2>2. /\ FineForUser(s, DropFile(s, f), {}, A, m) /\ DropFile(s, f).dirs = s.dirs
          /\ \A g \in FileIds \ {f} : DropFile(s, f).files[g] = NoRow <=> s.files[g] = NoRow
      BY <1>2, <2>1, DropFileOK
    <2>3. OwedStill(s, DropFile(s, f), e)
      BY <1>2, <2>1, DropFileStill
    <2> QED BY <2>2, <2>3, ReachedThen DEF OthersStay
  <1> HIDE DEF G
  <1>3. DropFiles(st, fs) \in G
    BY <1>1, <1>2, DropFilesIn
  <1> QED BY <1>3 DEF G

LEMMA MoveFilesStill ==
  ASSUME NEW st \in Stores, NEW A, NEW m, StoreOK(st, A, m), NEW e, OwedBy(st, e),
         NEW fs, \A f \in fs : f \in FileIds => st.files[f] # NoRow, NEW d \in Folders
  PROVE  MoveFilesTo(st, fs, d) \in StillReached(st, A, m, e)
  <1> DEFINE G == StillReached(st, A, m, e)
  <1>1. G \in SUBSET Stores /\ st \in G
    BY FineItself, OwedItself DEF StillReached, Reached
  <1>2. ASSUME NEW s \in G, NEW f \in FileIds, s.files[f] # NoRow
        PROVE  MoveFileTo(s, f, d) \in G /\ OthersStay(s, MoveFileTo(s, f, d), f)
    <2>1. s \in Stores /\ StoreOK(s, A, m) /\ OwedBy(s, e)
      BY DEF StillReached, Reached, FineForUser, Fine, OwedStill
    <2>2. /\ FineForUser(s, MoveFileTo(s, f, d), {}, A, m) /\ MoveFileTo(s, f, d).dirs = s.dirs
          /\ \A g \in FileIds : MoveFileTo(s, f, d).files[g] # NoRow <=> s.files[g] # NoRow
      BY <1>2, <2>1, MoveFileOK
    <2>3. OwedStill(s, MoveFileTo(s, f, d), e)
      BY <1>2, <2>1, MoveFileStill
    <2> QED BY <2>2, <2>3, ReachedThen DEF OthersStay
  <1> HIDE DEF G
  <1>3. MoveFilesTo(st, fs, d) \in G
    BY <1>1, <1>2, MoveFilesIn
  <1> QED BY <1>3 DEF G

\* queueMkdir: the one notebook that is new is owed its directory.
LEMMA QueueMkdirStill ==
  ASSUME NEW st \in Stores, NEW e, NEW ds, Owed(st.files, ds, Queued(st), e), NEW d \in Notebooks,
         \A c \in Notebooks \ {d} : st.dirs[c] # NoRow => ds[c] # NoRow
  PROVE  OwedStill(st, QueueMkdir(st, d), e)
  <1> DEFINE kept == Withdraw(st, OpsAt(st, "rmdir", d))
             op == Op("mkdir", NoRow, Path(d, 0))
             s == QueueMkdir(st, d)
             Q == Queued(st)
             P == Queued(kept)
  <1>1. /\ kept \in Stores /\ P = Q \ OpsAt(st, "rmdir", d)
        /\ kept.files = st.files /\ kept.dirs = st.dirs /\ kept.kept = st.kept
    BY QueueLess
  <1>2. op \in OwedOps /\ op.kind = "mkdir" /\ op.at.dir = d
    BY DEF Op, Path, OwedOps, OpOK, QueuedOps, Kinds, Paths, Notebooks
  <1>3. s = IF OpsAt(st, "mkdir", d) # {} THEN kept ELSE Add(kept, op)
    BY DEF QueueMkdir
  <1>4. /\ \A o \in Q : o \in OpsAt(st, "rmdir", d) => o.kind = "rmdir"
        /\ \A o : o \in OpsAt(st, "mkdir", d) <=> o \in Q /\ MkdirOf(o, d)
    BY DEF OpsAt, MkdirOf
  <1> HIDE DEF kept, op, P, Q, s
  <1>5. Owed(st.files, ds, P, e)
    <2>1. Owed(st.files, ds, Q, e)
      BY DEF Q
    <2>2. \A o \in Q \cap OpsAt(st, "rmdir", d) :
            /\ o.kind \notin {"move-file", "delete-file"}
            /\ o.kind = "upload" => st.files[o.file] = NoRow \/ Bound(st.files[o.file])
            /\ o.kind = "mkdir" => ds[o.at.dir] = NoRow \/ o.at.dir \in e.dirs
      BY <1>4
    <2> QED BY <1>1, <2>1, <2>2, PaidOwed
  <1>6. /\ Owed(s.files, ds, Queued(s), e) /\ s.dirs = st.dirs
        /\ \E o \in Queued(s) : MkdirOf(o, d)
        /\ LikeFrom(Q, Queued(s), st.kept)
    <2>1. CASE OpsAt(st, "mkdir", d) # {}
      <3>1. s = kept
        BY <1>3, <2>1
      <3>2. \E o \in P : MkdirOf(o, d)
        BY <1>1, <1>4, <2>1 DEF MkdirOf
      <3>3. LikeFrom(Q, P, st.kept)
        BY <1>1 DEF LikeFrom, Like
      <3> QED BY <1>1, <1>5, <3>1, <3>2, <3>3 DEF P
    <2>2. CASE OpsAt(st, "mkdir", d) = {}
      <3>1. s = Add(kept, op)
        BY <1>3, <2>2
      <3>2. PICK p : NewOp(p, op, kept.kept) /\ Queued(s) = P \cup {p}
        BY <1>1, <1>2, <3>1, QueueMore DEF P
      <3>3. s.files = st.files /\ s.dirs = st.dirs
        BY <1>1, <1>2, <3>1, QueueMore
      <3>4. p.kind = "mkdir" /\ p.at.dir = d /\ p.tag \notin st.kept
        BY <1>1, <1>2, <3>2, NewOpIs
      <3>5. Owed(st.files, ds, P \cup {p}, e)
        BY <1>5, <3>4, MoreOwed
      <3>6. MkdirOf(p, d)
        BY <3>4 DEF MkdirOf
      <3>7. LikeFrom(Q, P \cup {p}, st.kept)
        BY <1>1, <3>4 DEF LikeFrom, Like
      <3> QED BY <3>2, <3>3, <3>5, <3>6, <3>7
    <2> QED BY <2>1, <2>2
  <1>7. \A c \in Notebooks : st.dirs[c] # NoRow =>
          ds[c] # NoRow \/ c \in e.dirs \/ \E o \in Queued(s) : MkdirOf(o, c)
    BY <1>6
  <1>8. Owed(s.files, st.dirs, Queued(s), e)
    BY <1>6, <1>7, DirOwed
  <1> QED BY <1>6, <1>8 DEF OwedStill, OwedBy, s, Q

\* queueRmdir.
LEMMA QueueRmdirStill ==
  ASSUME NEW st \in Stores, NEW e, OwedBy(st, e), NEW d \in Notebooks, NEW id \in {NoDir} \cup Nat
  PROVE  OwedStill(st, QueueRmdir(st, d, id), e)
  <1> DEFINE op == [Op("rmdir", NoRow, Path(d, 0)) EXCEPT !.remote = id]
  <1>1. CASE QueueRmdir(st, d, id) = st
    BY <1>1, OwedItself
  <1>2. CASE QueueRmdir(st, d, id) # st
    <2>1. QueueRmdir(st, d, id) = Add(st, op) /\ id \in Nat
      BY <1>2 DEF QueueRmdir
    <2>2. op \in OwedOps /\ op.kind = "rmdir"
      BY <2>1 DEF Op, Path, OwedOps, OpOK, QueuedOps, Kinds, Paths, Notebooks
    <2> HIDE DEF op
    <2> QED BY <2>1, <2>2, AddStill
  <1> QED BY <1>1, <1>2

\* createFolder.
LEMMA CreateFolderStill ==
  ASSUME NEW st \in Stores, NEW e, OwedBy(st, e), NEW d \in Notebooks
  PROVE  OwedStill(st, CreateFolder(st, d), e)
  <1> DEFINE u == [st EXCEPT !.dirs[d] = NoDir]
  <1>1. /\ u \in Stores /\ u.files = st.files /\ u.ops = st.ops /\ u.kept = st.kept
        /\ \A c \in Notebooks \ {d} : u.dirs[c] = st.dirs[c]
    BY DEF Stores
  <1>2. CreateFolder(st, d) = QueueMkdir(u, d)
    BY DEF CreateFolder
  <1> HIDE DEF u
  <1>3. Queued(u) = Queued(st)
    BY <1>1 DEF Queued
  <1>4. OwedStill(u, QueueMkdir(u, d), e)
    BY <1>1, <1>3, QueueMkdirStill DEF OwedBy
  <1> QED BY <1>1, <1>2, <1>3, <1>4 DEF OwedStill

\* What deleteFolder and moveFolder end with: there is no row by then.
LEMMA LetGoStill ==
  ASSUME NEW st \in Stores, NEW e, OwedBy(st, e), NEW d \in Notebooks, st.dirs[d] = NoRow,
         NEW id \in {NoDir} \cup Nat
  PROVE  OwedStill(st, QueueRmdir(WithdrawMkdirs(st, d), d, id), e)
  <1> DEFINE w == WithdrawMkdirs(st, d)
  <1>1. w \in Stores /\ w.kept = st.kept
    BY QueueLess DEF WithdrawMkdirs
  <1>2. OwedStill(st, w, e)
    <2>1. \A o \in Queued(st) \cap OpsAt(st, "mkdir", d) : o.kind = "mkdir" /\ o.at.dir = d
      BY DEF OpsAt
    <2> QED BY <2>1, WithdrawStill DEF WithdrawMkdirs
  <1> HIDE DEF w
  <1>3. OwedStill(w, QueueRmdir(w, d, id), e)
    BY <1>1, <1>2, QueueRmdirStill DEF OwedStill
  <1> QED BY <1>1, <1>2, <1>3, OwedTrans DEF w

\* deleteFolder.
LEMMA DeleteFolderStill ==
  ASSUME NEW st \in Stores, NEW A \in SUBSET Ids, NEW m, \A r \in A : r <= m,
         StoreOK(st, A, m), NEW e, OwedBy(st, e), NEW d \in Notebooks, st.dirs[d] # NoRow
  PROVE  OwedStill(st, DeleteFolder(st, d), e)
  <1> DEFINE u == [st EXCEPT !.dirs[d] = NoRow]
             ds == [st.dirs EXCEPT ![d] = NoRow]
             fs == FilesIn(st, d)
             v == DropFiles(u, fs)
  <1>1. /\ ds \in [Notebooks -> {NoRow, NoDir} \cup Nat] /\ u = [st EXCEPT !.dirs = ds]
        /\ ds[d] = NoRow /\ \A c \in Notebooks : ds[c] # NoRow => st.dirs[c] # NoRow
    BY StoreTyped DEF Stores
  <1>2. DeleteFolder(st, d) = QueueRmdir(WithdrawMkdirs(v, d), d, st.dirs[d])
    BY DEF DeleteFolder
  <1>3. st.dirs[d] \in {NoDir} \cup Nat
    BY StoreTyped
  <1> HIDE DEF ds, u
  <1>4. /\ u \in Stores /\ u.files = st.files /\ u.ops = st.ops /\ u.kept = st.kept /\ u.dirs = ds
    BY <1>1 DEF Stores
  <1>5. StoreOK(u, A, m)
    BY <1>4 DEF StoreOK
  <1>6. Queued(u) = Queued(st) /\ OwedBy(u, e)
    <2>1. Queued(u) = Queued(st)
      BY <1>4 DEF Queued
    <2>2. Owed(st.files, ds, Queued(st), e)
      BY <1>1, DirOwed DEF OwedBy
    <2> QED BY <1>4, <2>1, <2>2 DEF OwedBy
  <1>7. \A f \in fs : f \in FileIds => u.files[f] # NoRow
    BY <1>4 DEF FilesIn
  <1> HIDE DEF fs
  <1>8. v \in StillReached(u, A, m, e)
    BY <1>4, <1>5, <1>6, <1>7, DropFilesStill
  <1> HIDE DEF v
  <1>9. v \in Stores /\ v.dirs[d] = NoRow /\ OwedStill(u, v, e) /\ v.kept = u.kept
    BY <1>1, <1>4, <1>8 DEF StillReached, Reached, FineForUser, Fine
  <1>10. OwedStill(v, DeleteFolder(st, d), e)
    BY <1>2, <1>3, <1>9, LetGoStill DEF OwedStill
  <1>11. OwedStill(u, DeleteFolder(st, d), e)
    BY <1>9, <1>10, OwedTrans
  <1> QED BY <1>4, <1>6, <1>11 DEF OwedStill

\* moveFolder.
LEMMA RenameFolderStill ==
  ASSUME NEW st \in Stores, NEW A, NEW m, StoreOK(st, A, m), NEW e, OwedBy(st, e),
         NEW d \in Notebooks, NEW c \in Notebooks, st.dirs[d] # NoRow, st.dirs[c] = NoRow
  PROVE  OwedStill(st, RenameFolder(st, d, c), e)
  <1> DEFINE ds == [st.dirs EXCEPT ![d] = NoRow, ![c] = NoDir]
             w == [st EXCEPT !.dirs[d] = NoRow, !.dirs[c] = NoDir]
             made == QueueMkdir(w, c)
             fs == FilesIn(st, d)
             v == MoveFilesTo(made, fs, c)
  <1>1. /\ ds \in [Notebooks -> {NoRow, NoDir} \cup Nat] /\ w = [st EXCEPT !.dirs = ds]
        /\ ds[d] = NoRow /\ \A b \in Notebooks \ {c} : ds[b] # NoRow => st.dirs[b] # NoRow
    BY StoreTyped DEF Stores
  <1>2. RenameFolder(st, d, c) = QueueRmdir(WithdrawMkdirs(v, d), d, st.dirs[d])
    BY DEF RenameFolder
  <1>3. st.dirs[d] \in {NoDir} \cup Nat
    BY StoreTyped
  <1> HIDE DEF ds, w
  <1>4. /\ w \in Stores /\ w.files = st.files /\ w.ops = st.ops /\ w.kept = st.kept /\ w.dirs = ds
    BY <1>1 DEF Stores
  <1>5. StoreOK(w, A, m) /\ Queued(w) = Queued(st)
    BY <1>4 DEF StoreOK, Queued
  <1>6. OwedStill(w, made, e)
    BY <1>1, <1>4, <1>5, QueueMkdirStill DEF OwedBy
  <1>7. FineForUser(w, made, {}, A, m) /\ made.files = w.files /\ made.dirs = w.dirs
    BY <1>4, <1>5, QueueMkdirOK
  <1> HIDE DEF made
  <1>8. made \in Stores /\ StoreOK(made, A, m) /\ made.kept = w.kept
    BY <1>7 DEF FineForUser, Fine
  <1>9. \A f \in fs : f \in FileIds => made.files[f] # NoRow
    BY <1>4, <1>7 DEF FilesIn
  <1>10. c \in Folders
    BY DEF Notebooks
  <1> HIDE DEF fs
  <1>11. v \in StillReached(made, A, m, e)
    BY <1>6, <1>8, <1>9, <1>10, MoveFilesStill DEF OwedStill
  <1> HIDE DEF v
  <1>12. v \in Stores /\ v.dirs[d] = NoRow /\ OwedStill(made, v, e) /\ v.kept = made.kept
    BY <1>1, <1>4, <1>7, <1>11 DEF StillReached, Reached, FineForUser, Fine
  <1>13. OwedStill(v, RenameFolder(st, d, c), e)
    BY <1>2, <1>3, <1>12, LetGoStill DEF OwedStill
  <1>14. OwedStill(w, v, e)
    BY <1>6, <1>8, <1>12, OwedTrans
  <1>15. OwedStill(w, RenameFolder(st, d, c), e)
    BY <1>8, <1>12, <1>13, <1>14, OwedTrans
  <1> QED BY <1>4, <1>5, <1>15 DEF OwedStill

\* A row that is new, and the upload queued for it.
LEMMA BirthStill ==
  ASSUME NEW st \in Stores, NEW e, OwedBy(st, e), NEW g \in FileIds, st.files[g] = NoRow,
         \A o \in Queued(st) : o.file # g,
         NEW at \in Paths, NEW held \in BOOLEAN, NEW copyOf \in Ids \cup {NoFile}
  PROVE  OwedStill(st, QueueUpload(PutFile(st, g, PendingRow(at, held)), g, copyOf), e)
  <1> DEFINE row == PendingRow(at, held)
             u == PutFile(st, g, row)
             op == [Op("upload", g, at) EXCEPT !.copyOf = copyOf]
             s == Add(u, op)
  <1>1. row \in Rows /\ row.remote = NoFile /\ row.at = at /\ row # NoRow
    <2>1. row \in Rows /\ row.remote = NoFile /\ row.at = at
      BY DEF PendingRow, Rows
    <2> QED BY <2>1, NothingAssumption
  <1> HIDE DEF row
  <1>2. /\ u \in Stores /\ u.ops = st.ops /\ u.kept = st.kept /\ u.dirs = st.dirs
        /\ u.files[g] = row /\ \A f \in FileIds \ {g} : u.files[f] = st.files[f]
    BY <1>1 DEF Stores, PutFile
  <1> HIDE DEF u
  <1>3. op \in OwedOps /\ op.kind = "upload" /\ op.file = g
    BY DEF Op, OwedOps, OpOK, QueuedOps, Kinds
  <1>4. QueueUpload(u, g, copyOf) = s
    <2>1. UploadsOf(u, g) = {}
      BY <1>2 DEF UploadsOf, OpsForFile, Queued
    <2> QED BY <1>1, <1>2, <2>1 DEF QueueUpload
  <1> HIDE DEF op
  <1>5. PICK p : NewOp(p, op, u.kept) /\ Queued(s) = Queued(u) \cup {p}
    BY <1>2, <1>3, QueueMore
  <1>6. s.files = u.files /\ s.dirs = u.dirs
    BY <1>2, <1>3, QueueMore
  <1> HIDE DEF s
  <1>7. p \in OwedOps /\ p.kind = "upload" /\ p.file = g /\ p.tag \notin st.kept
    BY <1>2, <1>3, <1>5, NewOpIs DEF NewOp
  <1>8. Queued(u) = Queued(st)
    BY <1>2 DEF Queued
  <1>9. Owed(u.files, st.dirs, Queued(s), e)
    <2> DEFINE P == Queued(st) \cup {p}
               rows2 == u.files
    <2>1. Owed(st.files, st.dirs, P, e)
      BY <1>7, MoreOwed DEF OwedBy
    <2>2. P \in SUBSET OwedOps
      BY <1>7, QueueTyped
    <2>3. \E o \in P : UploadOf(o, g)
      BY <1>7 DEF UploadOf
    <2>4. ~Bound(st.files[g]) /\ ~Bound(rows2[g]) /\ \A f \in FileIds \ {g} : rows2[f] = st.files[f]
      BY <1>1, <1>2 DEF Bound
    <2> HIDE DEF P, rows2
    <2>5. Owed(rows2, st.dirs, P, e)
      BY <2>1, <2>2, <2>3, <2>4, PendingOwed
    <2> QED BY <1>5, <1>8, <2>5 DEF P, rows2
  <1>10. LikeFrom(Queued(st), Queued(s), st.kept)
    BY <1>5, <1>7, <1>8 DEF LikeFrom, Like
  <1> QED BY <1>2, <1>4, <1>6, <1>9, <1>10 DEF OwedStill, OwedBy, u, row

\* addAttachment and copyFileTo.
LEMMA AddFileStill ==
  ASSUME NEW st \in Stores, NEW e, OwedBy(st, e), NEW g \in FileIds, st.files[g] = NoRow,
         \A o \in Queued(st) : o.file # g, NEW d \in Folders
  PROVE  OwedStill(st, AddFile(st, g, d), e)
  <1>1. Path(d, 0) \in Paths
    BY DEF Path, Paths
  <1> QED BY <1>1, BirthStill DEF AddFile

LEMMA CopyFileStill ==
  ASSUME NEW st \in Stores, NEW e, OwedBy(st, e), NEW g \in FileIds, st.files[g] = NoRow,
         \A o \in Queued(st) : o.file # g, NEW d \in Folders, NEW f \in FileIds, st.files[f] # NoRow
  PROVE  OwedStill(st, CopyFileTo(st, f, g, d), e)
  <1> DEFINE row == st.files[f]
             copyOf == IF row.held THEN NoFile ELSE row.remote
             at == Path(d, row.at.k)
  <1>1. row \in Rows
    BY StoreTyped
  <1>2. at \in Paths /\ copyOf \in Ids \cup {NoFile} /\ row.held \in BOOLEAN
    BY <1>1 DEF Path, Paths, Rows
  <1>3. CopyFileTo(st, f, g, d) = QueueUpload(PutFile(st, g, PendingRow(at, row.held)), g, copyOf)
    BY DEF CopyFileTo
  <1> HIDE DEF copyOf, at, row
  <1> QED BY <1>2, <1>3, BirthStill

-----------------------------------------------------------------------------
(* What is settled.                                                          *)

\* failOp and resetAttempts.
LEMMA CountedStill ==
  ASSUME NEW st \in Stores, NEW e, OwedBy(st, e), NEW tag,
         NEW s \in {FailOp(st, tag), ResetAttempts(st)}
  PROVE  OwedStill(st, s, e)
  <1> DEFINE failed == [o \in Queued(st) |-> IF o.tag = tag THEN [o EXCEPT !.attempts = @ + 1] ELSE o]
             reset == [o \in Queued(st) |-> [o EXCEPT !.attempts = 0]]
  <1>1. ASSUME NEW o \in Queued(st) PROVE Like(o, failed[o]) /\ Like(o, reset[o])
    <2>1. o \in QueuedOps
      BY QueueTyped DEF OwedOps
    <2>2. failed[o] \in {[o EXCEPT !.attempts = @ + 1], o} /\ reset[o] = [o EXCEPT !.attempts = 0]
      OBVIOUS
    <2> HIDE DEF failed, reset
    <2> QED BY <2>1, <2>2 DEF Like, QueuedOps
  <1>2. \A i \in DOMAIN st.ops : st.ops[i] \in Queued(st)
    BY DEF Queued
  <1>3. \E n \in {failed, reset} : s = [st EXCEPT !.ops = [i \in DOMAIN st.ops |-> n[st.ops[i]]]]
    <2>1. FailOp(st, tag) = [st EXCEPT !.ops = [i \in DOMAIN st.ops |-> failed[st.ops[i]]]]
      BY <1>2 DEF FailOp, Rewrite
    <2>2. ResetAttempts(st) = [st EXCEPT !.ops = [i \in DOMAIN st.ops |-> reset[st.ops[i]]]]
      BY <1>2 DEF ResetAttempts, Rewrite
    <2> HIDE DEF failed, reset
    <2> QED BY <2>1, <2>2
  <1> HIDE DEF failed, reset
  <1>4. PICK n \in {failed, reset} : s = [st EXCEPT !.ops = [i \in DOMAIN st.ops |-> n[st.ops[i]]]]
    BY <1>3
  <1>5. s.files = st.files /\ s.dirs = st.dirs /\ s.ops = [i \in DOMAIN st.ops |-> n[st.ops[i]]]
    BY <1>4 DEF Stores
  <1>6. SameRows(st.files, s.files)
    BY <1>5 DEF SameRows
  <1> QED BY <1>1, <1>5, <1>6, RewriteStill

\* forgetFile, of a row that has no file there.
LEMMA ForgetFileStill ==
  ASSUME NEW st \in Stores, NEW e, OwedBy(st, e), NEW f \in FileIds, ~Bound(st.files[f])
  PROVE  /\ ForgetFile(st, f) \in Stores /\ ForgetFile(st, f).kept = st.kept
         /\ ForgetFile(st, f).files[f] = NoRow /\ OwedStill(st, ForgetFile(st, f), e)
  <1> DEFINE gone == UploadsOf(st, f) \cup MovesOf(st, f)
             w == Withdraw(st, gone)
             s == ForgetFile(st, f)
             Q == Queued(st)
  <1>1. /\ w \in Stores /\ Queued(w) = Q \ gone
        /\ w.files = st.files /\ w.dirs = st.dirs /\ w.kept = st.kept
    BY QueueLess
  <1>2. \A o \in Q : o \in gone <=> UploadOf(o, f) \/ MoveOf(o, f)
    BY DEF UploadsOf, MovesOf, OpsForFile, UploadOf, MoveOf
  <1>3. s = PutFile(w, f, NoRow)
    BY DEF ForgetFile
  <1> HIDE DEF w, gone, s
  <1>4. /\ s \in Stores /\ s.files[f] = NoRow /\ \A g \in FileIds \ {f} : s.files[g] = st.files[g]
        /\ Queued(s) = Q \ gone /\ s.dirs = st.dirs /\ s.kept = st.kept
    BY <1>1, <1>3 DEF PutFile, Stores, Queued
  <1>5. Owed(s.files, st.dirs, Q \ gone, e)
    <2> DEFINE rows2 == s.files
               P == Q \ gone
    <2>1. Q \in SUBSET OwedOps /\ Owed(st.files, st.dirs, Q, e)
      BY QueueTyped DEF OwedBy
    <2>2. rows2[f] = NoRow /\ \A g \in FileIds \ {f} : rows2[g] = st.files[g]
      BY <1>4
    <2>3. /\ \A o \in Q : ~UploadOf(o, f) /\ ~MoveOf(o, f) => o \in P
          /\ \A p \in P : ~MoveOf(p, f) /\ (p \in Q \/ p.kind = "delete-file")
      BY <1>2
    <2> HIDE DEF P, Q, rows2
    <2>4. Owed(rows2, st.dirs, P, e)
      BY <2>1, <2>2, <2>3, GoneOwed
    <2> QED BY <2>4 DEF P, rows2
  <1>6. LikeFrom(Q, Q \ gone, st.kept)
    BY DEF LikeFrom, Like
  <1> QED BY <1>4, <1>5, <1>6 DEF OwedStill, OwedBy, s

\* rmdirsBehind: only rmdirs change.
LEMMA RmdirsBehindStill ==
  ASSUME NEW st \in Stores, NEW e, OwedBy(st, e), NEW at
  PROVE  /\ RmdirsBehind(st, at) \in Stores /\ RmdirsBehind(st, at).kept = st.kept
         /\ RmdirsBehind(st, at).files = st.files
         /\ OwedStill(st, RmdirsBehind(st, at), e)
  <1> DEFINE G == {s \in Stores : s.kept = st.kept /\ s.files = st.files /\ OwedStill(st, s, e)}
             over == OpsAt(st, "rmdir", at.dir)
  <1>1. Withdraw(st, over) \in G
    <2>1. \A o \in Queued(st) \cap over : o.kind = "rmdir"
      BY DEF OpsAt
    <2> HIDE DEF over
    <2>2. OwedStill(st, Withdraw(st, over), e)
      BY <2>1, WithdrawStill
    <2> QED BY <2>2, QueueLess
  <1>2. ASSUME NEW s \in G, NEW o \in OwedOps, o.kind = "rmdir" PROVE Add(s, o) \in G
    <2>1. s \in Stores /\ s.kept = st.kept /\ s.files = st.files /\ OwedStill(st, s, e)
      OBVIOUS
    <2>2. OwedStill(s, Add(s, o), e)
      BY <1>2, <2>1, AddStill DEF OwedStill
    <2>3. Add(s, o) \in Stores /\ Add(s, o).files = s.files /\ Add(s, o).kept = s.kept
      BY <2>1, QueueMore
    <2>4. OwedStill(st, Add(s, o), e)
      BY <2>1, <2>2, OwedTrans
    <2> QED BY <2>1, <2>3, <2>4
  <1>3. G \in SUBSET Stores
    OBVIOUS
  <1>4. RmdirsBehind(st, at) \in G
    <2> HIDE DEF G
    <2> QED BY <1>1, <1>2, <1>3, RmdirsBehindIn
  <1> QED BY <1>4

\* A file that is to be deleted is accounted for.
LEMMA DeletedOwed ==
  ASSUME NEW rows, NEW ds, NEW Q, NEW e, Owed(rows, ds, Q, e), NEW r, \E o \in Q : DeleteOf(o, r),
         NEW e2, e2.files = e.files, e2.dirs = e.dirs, e2.moving = e.moving,
         \A i \in e.known : i \in e2.known \/ i = r
  PROVE  Owed(rows, ds, Q, e2)
  <1>1. NamedThere(rows, e2) /\ Standing(rows, Q, e2) /\ DirsOwed(ds, Q, e2)
    BY DEF Owed, NamedThere, Standing, DirsOwed
  <1>2. Accounted(rows, Q, e2)
    BY DEF Owed, Accounted
  <1> QED BY <1>1, <1>2 DEF Owed

\* settleUpload: from here on it is known as the row's, or to be deleted.
LEMMA UploadedStill ==
  ASSUME NEW st \in Stores, NEW e, OwedBy(st, e), e.moving = NoRow,
         NEW f \in FileIds, ~Bound(st.files[f]),
         NEW entry \in Answers, e.files[entry.id] # NoFile, e.files[entry.id].at = entry.at, NEW sent,
         NEW e2, e2.files = e.files, e2.dirs = e.dirs, e2.moving = e.moving,
         \A i \in e.known : i \in e2.known \/ i = entry.id
  PROVE  LET s == Uploaded(st, f, entry, sent)
         IN  /\ s \in Stores /\ s.kept = st.kept /\ (s.files[f] = NoRow \/ Bound(s.files[f]))
             /\ OwedStill(st, s, e2)
  <1> DEFINE s == Uploaded(st, f, entry, sent)
             Q == Queued(st)
  <1>1. entry.id \in Ids /\ entry.at \in Paths
    BY DEF Answers
  <1>2. Q \in SUBSET OwedOps /\ Owed(st.files, st.dirs, Q, e)
    BY QueueTyped DEF OwedBy
  <1> HIDE DEF Q
  <1>3. CASE st.files[f] = NoRow
    <2> DEFINE D == DeleteOp(entry.at, entry.id)
               u == Add(st, D)
    <2>1. s = RmdirsBehind(u, entry.at)
      BY <1>3 DEF Uploaded
    <2>2. D \in OwedOps /\ D.kind = "delete-file" /\ D.remote = entry.id
      BY <1>1 DEF DeleteOp, Op, OwedOps, OpOK, QueuedOps, Kinds, Ids
    <2> HIDE DEF D, s
    <2>3. PICK p : NewOp(p, D, st.kept) /\ Queued(u) = Q \cup {p}
      BY <2>2, QueueMore DEF Q
    <2>4. u \in Stores /\ u.files = st.files /\ u.dirs = st.dirs /\ u.kept = st.kept
      BY <2>2, QueueMore
    <2> HIDE DEF u
    <2>5. p.kind = "delete-file" /\ p.remote = entry.id /\ p.tag \notin st.kept
      BY <2>2, <2>3, NewOpIs
    <2>6. Owed(st.files, st.dirs, Q \cup {p}, e)
      BY <1>2, <2>5, MoreOwed
    <2>7. Owed(st.files, st.dirs, Q \cup {p}, e2)
      <3>1. \E o \in Q \cup {p} : DeleteOf(o, entry.id)
        BY <2>5 DEF DeleteOf
      <3> QED BY <2>6, <3>1, DeletedOwed
    <2>8. LikeFrom(Q, Q \cup {p}, st.kept)
      BY <2>5 DEF LikeFrom, Like
    <2>9. OwedStill(st, u, e2)
      BY <2>3, <2>4, <2>7, <2>8 DEF OwedStill, OwedBy, Q
    <2>10. /\ s \in Stores /\ s.kept = u.kept /\ s.files = u.files /\ OwedStill(u, s, e2)
      BY <2>1, <2>4, <2>9, RmdirsBehindStill DEF OwedStill
    <2>11. OwedStill(st, s, e2)
      BY <2>4, <2>9, <2>10, OwedTrans
    <2> QED BY <1>3, <2>4, <2>10, <2>11 DEF s
  <1>4. CASE st.files[f] # NoRow
    <2> DEFINE was == st.files[f]
               moved == was.at # sent
               row == [at |-> IF moved THEN was.at ELSE entry.at, remote |-> entry.id, held |-> was.held]
               u == PutFile(st, f, row)
               M == MoveOp(f, entry.at, was.at)
               v == Add(u, M)
    <2>1. was \in Rows
      BY <1>4, StoreTyped
    <2>2. s = IF moved THEN RmdirsBehind(v, entry.at) ELSE u
      BY <1>4 DEF Uploaded
    <2>3. /\ row \in Rows /\ row.remote = entry.id
          /\ row.at = IF moved THEN was.at ELSE entry.at
      BY <1>1, <2>1 DEF Rows
    <2>4. Bound(row)
      BY <1>1, <2>3, NothingAssumption, FilePushAssumption DEF Bound, Ids
    <2>5. M \in OwedOps /\ M.kind = "move-file" /\ M.file = f /\ M.at = entry.at /\ M.to = was.at
      BY <1>1, <2>1 DEF MoveOp, Op, OwedOps, OpOK, QueuedOps, Kinds, Rows
    <2> HIDE DEF row, M, moved, s
    <2>6. /\ u \in Stores /\ Queued(u) = Q /\ u.dirs = st.dirs /\ u.kept = st.kept
          /\ u.files[f] = row /\ \A g \in FileIds \ {f} : u.files[g] = st.files[g]
      BY <2>3 DEF PutFile, Stores, Queued, Q
    <2> HIDE DEF u
    <2>7. \A o \in Q : ~MoveOf(o, f)
      BY <1>2 DEF Owed, MovesMeant, MoveOf
    <2>8. ASSUME NEW P, Moves(Q, P, f, row, e2)
          PROVE  Owed(u.files, u.dirs, P, e2)
      <3> DEFINE rows2 == u.files
      <3>1. /\ Bound(rows2[f]) /\ rows2[f] = row /\ \A g \in FileIds \ {f} : rows2[g] = st.files[g]
        BY <2>4, <2>6
      <3> HIDE DEF rows2
      <3>2. e.files[rows2[f].remote] # NoFile /\ \A i \in e.known : i \in e2.known \/ i = rows2[f].remote
        BY <2>3, <3>1
      <3>3. \A r \in Ids : BoundTo(st.files, f, r) => r \in e2.known \/ r = rows2[f].remote
        BY NothingAssumption, FilePushAssumption DEF Bound, BoundTo, Ids
      <3>4. Owed(rows2, st.dirs, P, e2)
        BY <1>2, <2>8, <3>1, <3>2, <3>3, PlacedOwed
      <3> QED BY <2>6, <3>4 DEF rows2
    <2>9. CASE ~moved
      <3>1. Moves(Q, Q, f, row, e2)
        BY <2>3, <2>7, <2>9 DEF Moves
      <3>2. LikeFrom(Q, Q, st.kept)
        BY DEF LikeFrom, Like
      <3>3. OwedStill(st, u, e2)
        BY <2>6, <2>8, <3>1, <3>2 DEF OwedStill, OwedBy, Q
      <3> QED BY <2>2, <2>4, <2>6, <2>9, <3>3 DEF s
    <2>10. CASE moved
      <3>1. PICK p : NewOp(p, M, u.kept) /\ Queued(v) = Queued(u) \cup {p}
        BY <2>5, <2>6, QueueMore
      <3>2. v \in Stores /\ v.files = u.files /\ v.dirs = u.dirs /\ v.kept = u.kept
        BY <2>5, <2>6, QueueMore
      <3> HIDE DEF v
      <3>3. p.kind = "move-file" /\ p.file = f /\ p.at = entry.at /\ p.to = was.at /\ p.tag \notin st.kept
        BY <2>5, <2>6, <3>1, NewOpIs
      <3>4. Moves(Q, Q \cup {p}, f, row, e2)
        <4>1. MoveOf(p, f)
          BY <3>3 DEF MoveOf
        <4> QED BY <2>3, <2>7, <2>10, <3>3, <4>1 DEF Moves
      <3>5. LikeFrom(Q, Q \cup {p}, st.kept)
        BY <3>3 DEF LikeFrom, Like
      <3>6. OwedStill(st, v, e2)
        BY <2>6, <2>8, <3>1, <3>2, <3>4, <3>5 DEF OwedStill, OwedBy, Q
      <3>7. /\ s \in Stores /\ s.kept = v.kept /\ s.files = v.files /\ OwedStill(v, s, e2)
        BY <2>2, <2>10, <3>2, <3>6, RmdirsBehindStill DEF OwedStill
      <3>8. OwedStill(st, s, e2)
        BY <2>6, <3>2, <3>6, <3>7, OwedTrans
      <3> QED BY <2>4, <2>6, <3>2, <3>7, <3>8 DEF s
    <2> QED BY <2>9, <2>10
  <1> QED BY <1>3, <1>4

\* complete: the op goes, unless another device of the store took it.
LEMMA CompleteIs ==
  ASSUME NEW st \in Stores, NEW tag
  PROVE  /\ Complete(st, tag) \in Stores
         /\ Queued(Complete(st, tag)) = {o \in Queued(st) : o.tag # tag}
         /\ Complete(st, tag).files = st.files /\ Complete(st, tag).dirs = st.dirs
         /\ Complete(st, tag).kept = st.kept
  <1>1. Queued(st) \ ByTag(st, tag) = {o \in Queued(st) : o.tag # tag}
    BY DEF ByTag
  <1> QED BY <1>1, QueueLess DEF Complete

\* settleFileMove, and the op completed: the file is where the row is, or is
\* owed the move from where it landed.
LEMMA MovedStill ==
  ASSUME NEW st \in Stores, NEW e, OwedBy(st, e), NEW f \in FileIds, e.moving = f,
         NEW tag \in st.kept, \A o \in Queued(st) : o.tag = tag => MoveOf(o, f),
         NEW entry \in Answers, e.files[entry.id] # NoFile, e.files[entry.id].at = entry.at,
         NEW e2, e2.files = e.files, e2.dirs = e.dirs, e2.moving = NoRow, e2.known = e.known,
         \A r \in Ids : BoundTo(st.files, f, r) => r \in e.known \/ r = entry.id
  PROVE  OwedBy(Complete(MovedFile(st, f, entry, ByTag(st, tag) = {}), tag), e2)
  <1> DEFINE withdrawn == ByTag(st, tag) = {}
             s == MovedFile(st, f, entry, withdrawn)
             t == Complete(s, tag)
             Q == Queued(st)
             was == st.files[f]
  <1>0. NoRow \notin FileIds
    BY NothingAssumption
  <1>1. entry.id \in Ids /\ entry.at \in Paths
    BY DEF Answers
  <1>2. Q \in SUBSET OwedOps /\ Owed(st.files, st.dirs, Q, e)
    BY QueueTyped DEF OwedBy
  <1>3. withdrawn <=> \A o \in Q : o.tag # tag
    BY DEF ByTag
  <1>4. \A o \in Q : o.tag = tag => MoveOf(o, f)
    OBVIOUS
  <1>5. CASE was = NoRow
    <2>1. s = st
      BY <1>5 DEF MovedFile
    <2> HIDE DEF Q, s, withdrawn
    <2>2. \A o \in Q : ~MoveOf(o, f)
      BY <1>2, <1>5 DEF Owed, MovesMeant, MoveOf, Bound
    <2>3. Queued(t) = Q /\ t.files = st.files /\ t.dirs = st.dirs
      <3>1. t = Complete(st, tag)
        BY <2>1
      <3> HIDE DEF t
      <3>2. Queued(t) = {o \in Q : o.tag # tag} /\ t.files = st.files /\ t.dirs = st.dirs
        BY <3>1, CompleteIs DEF Q
      <3> QED BY <1>4, <2>2, <3>2
    <2>4. Owed(st.files, st.dirs, Q, e2)
      <3>1. \A g \in FileIds : Bound(st.files[g]) =>
              /\ e2.files[st.files[g].remote] # NoFile
              /\ g # e2.moving => g # e.moving
                                  /\ e2.files[st.files[g].remote].at = e.files[st.files[g].remote].at
        BY <1>2, <1>5 DEF Owed, NamedThere, Bound
      <3> QED BY <1>2, <3>1, AnewOwed
    <2> QED BY <2>3, <2>4 DEF OwedBy, s, withdrawn
  <1>6. CASE was # NoRow
    <2> DEFINE held == was.held /\ was.remote = entry.id
               landed == [was EXCEPT !.remote = entry.id, !.held = held]
               row == IF withdrawn THEN landed ELSE [landed EXCEPT !.at = entry.at]
               u == PutFile(st, f, row)
               n == [o \in Q |-> IF o.kind = "move-file" /\ o.file = f THEN [o EXCEPT !.at = entry.at] ELSE o]
               v == FileOriginIsNow(u, f, entry.at)
               M == MoveOp(f, entry.at, was.at)
    <2>1. was \in Rows
      BY <1>6, StoreTyped
    <2>2. s = IF withdrawn /\ MovesOf(st, f) = {} /\ was.at # entry.at THEN Add(v, M) ELSE v
      BY <1>6 DEF MovedFile
    <2>3. /\ row \in Rows /\ row.remote = entry.id
          /\ row.at = IF withdrawn THEN was.at ELSE entry.at
      <3>1. held \in BOOLEAN
        OBVIOUS
      <3>2. landed \in Rows /\ landed.remote = entry.id /\ landed.at = was.at
        <4> HIDE DEF held
        <4> QED BY <2>1, <3>1, <1>1 DEF Rows
      <3> HIDE DEF landed, withdrawn
      <3> QED BY <3>2, <1>1 DEF Rows
    <2>4. M \in OwedOps /\ M.kind = "move-file" /\ M.file = f /\ M.at = entry.at /\ M.to = was.at
      BY <1>1, <2>1 DEF MoveOp, Op, OwedOps, OpOK, QueuedOps, Kinds, Rows
    <2>5. Bound(row)
      <3> HIDE DEF row
      <3> QED BY <1>1, <2>3, NothingAssumption, FilePushAssumption DEF Bound, Ids
    <2> HIDE DEF row, M, withdrawn, s
    <2>6. /\ u \in Stores /\ u.ops = st.ops /\ u.dirs = st.dirs /\ u.kept = st.kept
          /\ u.files[f] = row /\ \A g \in FileIds \ {f} : u.files[g] = st.files[g]
      BY <2>3 DEF PutFile, Stores
    <2> HIDE DEF u
    <2>7. ASSUME NEW o \in Q
          PROVE  /\ n[o] \in OwedOps /\ n[o].tag = o.tag /\ (MoveOf(n[o], f) <=> MoveOf(o, f))
                 /\ ~MoveOf(o, f) => n[o] = o
                 /\ MoveOf(o, f) => n[o].at = entry.at /\ n[o].to = o.to
      <3>1. o \in OwedOps
        BY <1>2
      <3>2. n[o] = IF o.kind = "move-file" /\ o.file = f THEN [o EXCEPT !.at = entry.at] ELSE o
        OBVIOUS
      <3> HIDE DEF n
      <3> QED BY <1>1, <3>1, <3>2 DEF MoveOf, OwedOps, OpOK, QueuedOps
    <2>8. /\ v \in Stores /\ v.files = u.files /\ v.dirs = u.dirs /\ v.kept = u.kept
          /\ Queued(v) = {n[o] : o \in Q}
      <3>1. \A i \in DOMAIN st.ops : st.ops[i] \in Q
        BY DEF Queued
      <3> DEFINE q == [i \in DOMAIN st.ops |-> n[st.ops[i]]]
      <3>2. v = [u EXCEPT !.ops = q]
        <4>1. v = [u EXCEPT !.ops = [i \in DOMAIN st.ops |->
                                       IF st.ops[i].kind = "move-file" /\ st.ops[i].file = f
                                       THEN [st.ops[i] EXCEPT !.at = entry.at] ELSE st.ops[i]]]
          BY <2>6 DEF FileOriginIsNow, Rewrite
        <4> HIDE DEF Q
        <4> QED BY <3>1, <4>1
      <3>3. q \in Seq(OwedOps)
        <4>1. Len(st.ops) \in Nat /\ DOMAIN st.ops = 1..Len(st.ops)
          BY StoreTyped
        <4> HIDE DEF n, Q
        <4>2. q \in [1..Len(st.ops) -> OwedOps]
          BY <2>7, <3>1, <4>1
        <4> HIDE DEF q
        <4> QED BY <4>1, <4>2
      <3>4. {q[i] : i \in DOMAIN st.ops} = {n[o] : o \in Q}
        <4> HIDE DEF n
        <4> QED BY DEF Queued
      <3> HIDE DEF n, v, q
      <3>5. v \in Stores /\ v.files = u.files /\ v.dirs = u.dirs /\ v.kept = u.kept /\ v.ops = q
        BY <2>6, <3>2, <3>3 DEF Stores
      <3>6. DOMAIN q = DOMAIN st.ops
        BY DEF q
      <3> QED BY <3>4, <3>5, <3>6 DEF Queued
    <2> HIDE DEF n, v
    <2>9. \A o, p \in Q : MoveOf(o, f) /\ MoveOf(p, f) => o = p
      BY <1>2 DEF Owed, OneMove, MoveOf
    <2>10. \A o \in Q : MoveOf(o, f) => o.to = was.at
      BY <1>2 DEF Owed, MovesMeant, MoveOf
    <2>11. ASSUME NEW P, Moves(Q, P, f, row, e2) PROVE Owed(u.files, u.dirs, P, e2)
      <3> DEFINE rows2 == u.files
      <3>1. /\ Bound(rows2[f]) /\ rows2[f] = row /\ \A g \in FileIds \ {f} : rows2[g] = st.files[g]
        BY <2>5, <2>6
      <3> HIDE DEF rows2
      <3>2. e.files[rows2[f].remote] # NoFile /\ \A i \in e.known : i \in e2.known \/ i = rows2[f].remote
        BY <2>3, <3>1
      <3>3. \A r \in Ids : BoundTo(st.files, f, r) => r \in e2.known \/ r = rows2[f].remote
        BY <2>3, <3>1
      <3>4. Owed(rows2, st.dirs, P, e2)
        BY <1>2, <2>11, <3>1, <3>2, <3>3, PlacedOwed
      <3> QED BY <2>6, <3>4 DEF rows2
    <2>12. e2.files[row.remote].at = entry.at
      BY <2>3
    <2> DEFINE R == {n[o] : o \in Q}
    <2>13. /\ \A p \in R : MoveOf(p, f) => p.at = entry.at /\ p.to = was.at /\ \A q \in R : MoveOf(q, f) => q = p
           /\ \A p \in R : p \in Q \/ MoveOf(p, f)
           /\ \A o \in Q : ~MoveOf(o, f) => o \in R
      BY <2>7, <2>9, <2>10
    <2>14. CASE ~withdrawn
      <3>1. t = Complete(v, tag) /\ s = v
        BY <2>2, <2>14
      <3>2. Queued(t) = {p \in R : p.tag # tag} /\ t.files = u.files /\ t.dirs = u.dirs
        BY <2>8, <3>1, CompleteIs
      <3>3. PICK o1 \in Q : o1.tag = tag
        BY <1>3, <2>14
      <3> HIDE DEF Q
      <3>4. \A p \in R : p.tag # tag => ~MoveOf(p, f)
        <4>1. \A o \in Q : MoveOf(o, f) => o = o1
          BY <1>4, <2>9, <3>3
        <4> QED BY <2>7, <3>3, <4>1
      <3>5. \A o \in Q : ~MoveOf(o, f) => o.tag # tag
        BY <1>4
      <3> HIDE DEF R
      <3>6. Moves(Q, {p \in R : p.tag # tag}, f, row, e2)
        BY <2>3, <2>12, <2>13, <2>14, <3>4, <3>5 DEF Moves
      <3> QED BY <2>11, <3>2, <3>6 DEF OwedBy, s, withdrawn
    <2>15. CASE withdrawn
      <3>1. \A o \in Q : o.tag # tag
        BY <1>3, <2>15
      <3>2. \A p \in R : p.tag # tag
        <4> HIDE DEF Q
        <4> QED BY <2>7, <3>1
      <3>3. MovesOf(st, f) = {o \in Q : MoveOf(o, f)}
        BY DEF MovesOf, OpsForFile, MoveOf
      <3>4. CASE (\E o \in Q : MoveOf(o, f)) \/ was.at = entry.at
        <4>1. s = v
          BY <2>2, <3>3, <3>4
        <4>2. Queued(t) = {p \in R : p.tag # tag} /\ t.files = u.files /\ t.dirs = u.dirs
          BY <2>8, <4>1, CompleteIs
        <4>3. Queued(t) = R
          BY <3>2, <4>2
        <4>4. (\A p \in R : ~MoveOf(p, f)) => was.at = entry.at
          <5> HIDE DEF Q
          <5> QED BY <2>7, <3>4
        <4> HIDE DEF Q, R
        <4>5. Moves(Q, R, f, row, e2)
          BY <2>3, <2>12, <2>13, <2>15, <4>4 DEF Moves
        <4> QED BY <2>11, <4>2, <4>3, <4>5 DEF OwedBy, s, withdrawn
      <3>5. CASE (\A o \in Q : ~MoveOf(o, f)) /\ was.at # entry.at
        <4>1. s = Add(v, M)
          BY <2>2, <2>15, <3>3, <3>5
        <4>2. PICK p : NewOp(p, M, v.kept) /\ Queued(s) = R \cup {p}
          BY <2>4, <2>8, <4>1, QueueMore
        <4>3. s \in Stores /\ s.files = u.files /\ s.dirs = u.dirs
          BY <2>4, <2>8, <4>1, QueueMore
        <4>4. p.kind = "move-file" /\ p.file = f /\ p.at = entry.at /\ p.to = was.at /\ p.tag # tag
          BY <2>4, <2>6, <2>8, <4>2, NewOpIs
        <4>5. Queued(t) = {o \in R \cup {p} : o.tag # tag} /\ t.files = u.files /\ t.dirs = u.dirs
          BY <4>2, <4>3, CompleteIs
        <4>6. Queued(t) = R \cup {p}
          BY <3>2, <4>4, <4>5
        <4>7. \A q \in R : ~MoveOf(q, f)
          <5> HIDE DEF Q
          <5> QED BY <2>7, <3>5
        <4>8. MoveOf(p, f)
          BY <4>4 DEF MoveOf
        <4> HIDE DEF Q, R
        <4>9. Moves(Q, R \cup {p}, f, row, e2)
          BY <2>3, <2>12, <2>13, <2>15, <4>4, <4>7, <4>8 DEF Moves
        <4> QED BY <2>11, <4>5, <4>6, <4>9 DEF OwedBy, s, withdrawn
      <3> QED BY <3>4, <3>5
    <2> QED BY <2>14, <2>15
  <1> QED BY <1>5, <1>6

-----------------------------------------------------------------------------
(* The invariant.                                                            *)

Unheard(kind) == kind \in past.unheard
Undisturbed == ~past.meddled /\ ~Unheard("move-file")

\* The remote as it is, with no request under way.  What an upload that was
\* never answered made there is known to nobody.
Plain == [files  |-> remote.files,
          moving |-> NoRow,
          known  |-> IF Unheard("upload") THEN Ids ELSE {},
          dirs   |-> {d \in Notebooks : remote.dirs[d].here}]

Settling(kind) == drain.pc = "settle" /\ drain.op.kind = kind

\* And as the request under way has it: a file is where it was sent or moved
\* though no row says so yet, and the directory that goes is not there to stay.
Env == [Plain EXCEPT
          !.moving = IF Settling("move-file") THEN drain.op.file ELSE NoRow,
          !.known  = IF Settling("upload") THEN @ \cup {drain.entry.id} ELSE @,
          !.dirs   = IF drain.pc \in {"look", "rmdir"} THEN @ \ {drain.op.at.dir} ELSE @]

\* The op under way is as it was read, but for how often it failed and, if it
\* is an upload, for where its file is now.
AsRead == Flight => \A o \in Queued(Store) : o.tag = drain.op.tag => Like(drain.op, o)
\* What was answered is so.
Answered ==
  drain.pc \in {"met", "settle"} =>
    /\ remote.files[drain.entry.id] # NoFile
    /\ remote.files[drain.entry.id].at = drain.entry.at
\* A move ends at the file it was about.
ItsOwn == Settling("move-file") /\ ~Unheard("upload") => drain.entry.id = drain.from

OInv ==
  Undisturbed => past.strays = {} /\ OwedBy(Store, Env) /\ AsRead /\ Answered /\ ItsOwn

-----------------------------------------------------------------------------
(* Between two ops.                                                          *)

\* What counts of a moment of the remote.
LEMMA SameOwed ==
  ASSUME NEW rows, NEW ds, NEW Q, NEW e, Owed(rows, ds, Q, e), NEW e2,
         e2.files = e.files, e2.moving = e.moving, e2.known = e.known, e2.dirs = e.dirs
  PROVE  Owed(rows, ds, Q, e2)
  BY DEF Owed, NamedThere, Standing, Accounted, DirsOwed

\* No request is under way: what is owed is owed with the remote as it is.
LEMMA Grounded ==
  ASSUME NEW s, Becomes(s), drain'.pc \in {"idle", "turn"}, past'.strays = {}, OwedBy(s, Plain')
  PROVE  OInv'
  <1> DEFINE e == Plain'
             e2 == Env'
  <1>1. e2.files = e.files /\ e2.moving = e.moving /\ e2.known = e.known /\ e2.dirs = e.dirs
    BY DEF Env, Plain, Settling
  <1> HIDE DEF e, e2
  <1>2. Owed(s.files, s.dirs, Queued(s), e2)
    BY <1>1, SameOwed DEF OwedBy, e
  <1>3. OwedBy(Store, Env)'
    BY <1>2 DEF Becomes, OwedBy, Store, Queued, e2
  <1>4. AsRead' /\ Answered' /\ ItsOwn'
    BY DEF AsRead, Flight, Answered, ItsOwn, Settling
  <1> QED BY <1>3, <1>4 DEF OInv

LEMMA Owing ==
  ASSUME OInv, Undisturbed
  PROVE  past.strays = {} /\ OwedBy(Store, Env) /\ AsRead /\ Answered /\ ItsOwn
  BY DEF OInv

\* So it is when the request comes to nothing.
LEMMA PlainOwed ==
  ASSUME IInv, OInv, Undisturbed, drain.pc # "settle"
  PROVE  OwedBy(Store, Plain)
  <1>1. Owed(files, dirs, Queued(Store), Env)
    BY Owing, WhatHolds DEF OwedBy
  <1>2. /\ Env.files = Plain.files /\ Env.moving = NoRow /\ Plain.moving = NoRow
        /\ Env.known = Plain.known /\ Env.dirs \subseteq Plain.dirs
    BY DEF Env, Plain, Settling
  <1> HIDE DEF Env, Plain
  <1>3. \A f \in FileIds : Bound(files[f]) => Plain.files[files[f].remote] # NoFile
    BY <1>1, <1>2 DEF Owed, NamedThere
  <1>4. \A f \in FileIds : f # NoRow
    BY NothingAssumption
  <1>5. Owed(files, dirs, Queued(Store), Plain)
    BY <1>1, <1>2, <1>3, <1>4, AnewOwed
  <1> QED BY <1>5, WhatHolds DEF OwedBy

\* An op is done with, and what it owed is no longer owed.
LEMMA SettledOwed ==
  ASSUME NEW s \in Stores, NEW op, Settled(s, op), OwedBy(s, Plain'), past'.strays = {},
         \A o \in Queued(s) : o.tag = op.tag =>
           /\ o.kind # "move-file"
           /\ o.kind = "delete-file" => remote'.files[o.remote] = NoFile
           /\ o.kind = "upload" => s.files[o.file] = NoRow \/ Bound(s.files[o.file])
           /\ o.kind = "mkdir" => s.dirs[o.at.dir] = NoRow \/ o.at.dir \in Plain'.dirs
  PROVE  OInv'
  <1> DEFINE c == Complete(s, op.tag)
             gone == ByTag(s, op.tag)
             e == Plain'
  <1>1. Becomes(c) /\ drain'.pc = "turn"
    BY StoreIsOne DEF Settled, NextTurn, Rest
  <1>2. /\ Queued(c) = Queued(s) \ gone /\ c.files = s.files /\ c.dirs = s.dirs
    BY QueueLess DEF Complete
  <1>3. e.files = remote'.files
    BY DEF Plain
  <1>4. \A o \in Queued(s) \cap gone : o.tag = op.tag
    BY DEF ByTag
  <1> HIDE DEF c, gone, e
  <1>5. Owed(s.files, s.dirs, Queued(s), e)
    BY DEF OwedBy, e
  <1>6. \A o \in Queued(s) \cap gone :
          /\ o.kind # "move-file"
          /\ o.kind = "delete-file" => e.files[o.remote] = NoFile
          /\ o.kind = "upload" => s.files[o.file] = NoRow \/ Bound(s.files[o.file])
          /\ o.kind = "mkdir" => s.dirs[o.at.dir] = NoRow \/ o.at.dir \in e.dirs
    BY <1>3, <1>4 DEF e
  <1>7. Owed(s.files, s.dirs, Queued(s) \ gone, e)
    BY <1>5, <1>6, PaidOwed
  <1>8. OwedBy(c, e)
    BY <1>2, <1>7 DEF OwedBy
  <1> QED BY <1>1, <1>8, Grounded DEF e

-----------------------------------------------------------------------------
(* What a request makes of the remote.                                       *)

\* It makes a file where it is sent; it moves the file its op is about; what
\* it deletes, or removes with its directory, no row names.
LEMMA DoneFiles ==
  ASSUME IInv, past.strays = {}, drain.pc \in {"send", "move", "remove", "rmdir", "mkdir"},
         drain.pc = "send" /\ AtName(remote, drain.at) = {} => remote.made < MaxRemote,
         remote' = Done(remote)
  PROVE  /\ \A r \in Ids : remote'.files[r] # NoFile =>
              \/ remote.files[r] # NoFile
              \/ drain.pc = "send" /\ AtName(remote, drain.at) = {} /\ r = remote.made + 1
         /\ \A f \in FileIds : Bound(files[f]) /\ remote.files[files[f].remote] # NoFile =>
              /\ remote'.files[files[f].remote] # NoFile
              /\ \/ remote'.files[files[f].remote].at = remote.files[files[f].remote].at
                 \/ drain.pc = "move" /\ f = drain.op.file
  <1>1. /\ drain.op \in OwedOps /\ drain.op.kind \in KindsAt(drain.pc) /\ drain.at \in Paths
        /\ MoveOK /\ RemoveOK /\ RmdirOK
    BY UnderWay
  <1>2. remote \in Remotes
    BY DEF IInv, TypeOK, OutsideOK
  <1>3. remote.files \in [Ids -> Entries \cup {NoFile}]
    BY <1>2 DEF Remotes
  <1>4. \A f \in FileIds : Bound(files[f]) => files[f].remote \in Ids /\ files[f].remote <= remote.made
    BY WhatHolds DEF StoreOK, NamesMade
  <1>5. drain.at.dir \in Folders
    BY <1>1 DEF Paths
  <1>6. CASE remote'.files = remote.files
    BY <1>6
  <1>7. CASE drain.pc = "send" /\ AtName(remote, drain.at) = {}
    <2> DEFINE ours == TRUE
               e == [at |-> drain.at, ours |-> ours]
    <2>1. remote' = Created(remote, drain.at, ours) /\ ours \in BOOLEAN /\ remote.made < MaxRemote
      BY <1>7 DEF Done
    <2> HIDE DEF ours
    <2>2. remote'.files = [remote.files EXCEPT ![remote.made + 1] = e]
      BY <1>1, <1>2, <2>1, CreatedIs
    <2>3. remote.made \in Nat /\ \A f \in FileIds : Bound(files[f]) => files[f].remote # remote.made + 1
      BY <1>2, <1>4 DEF Remotes, Ids
    <2> HIDE DEF e
    <2> QED BY <1>3, <1>4, <1>7, <2>2, <2>3
  <1>8. CASE drain.pc = "send" /\ AtName(remote, drain.at) # {}
    BY <1>6, <1>8 DEF Done
  <1>9. CASE drain.pc = "move" /\ (remote.files[Moving] = NoFile \/ ~(AtName(remote, drain.at) \subseteq {Moving}))
    BY <1>6, <1>9 DEF Done
  <1>10. CASE drain.pc = "move" /\ remote.files[Moving] # NoFile /\ AtName(remote, drain.at) \subseteq {Moving}
    <2> DEFINE v == DirMade(remote, drain.at.dir)
               ours == remote.files[Moving].ours
               e == [at |-> drain.at, ours |-> ours]
    <2>1. remote' = Placed(v, Moving, drain.at, ours)
      BY <1>10 DEF Done
    <2>2. v \in Remotes /\ v.files = remote.files
      BY <1>2, <1>5, DirMadeIs
    <2>3. drain.op.kind = "move-file"
      BY <1>1, <1>10 DEF KindsAt
    <2>4. Moving \in Ids /\ ~OthersBoundTo(Moving)
      BY <1>1, <2>3 DEF MoveOK, Moving
    <2>5. ours \in BOOLEAN
      BY <1>3, <1>10, <2>4 DEF Entries
    <2> HIDE DEF v, ours
    <2>6. remote'.files = [remote.files EXCEPT ![Moving] = e]
      BY <1>1, <2>1, <2>2, <2>4, <2>5, PlacedIs
    <2>7. e # NoFile
      <3>1. e \in Entries
        BY <1>1, <2>5 DEF Entries
      <3> QED BY <3>1, NothingAssumption
    <2> HIDE DEF e
    <2>8. \A f \in FileIds : Bound(files[f]) /\ files[f].remote = Moving => f = drain.op.file
      BY <2>4 DEF OthersBoundTo, BoundTo, Bound
    <2> QED BY <1>3, <1>4, <1>10, <2>4, <2>6, <2>7, <2>8
  <1>11. CASE drain.pc = "remove"
    <2>1. Unwanted(drain.op.remote)
      BY <1>1, <1>11 DEF RemoveOK
    <2>2. remote'.files = [remote.files EXCEPT ![drain.op.remote] = NoFile]
      BY <1>2, <1>11 DEF Done, Remotes
    <2>3. \A f \in FileIds : Bound(files[f]) => files[f].remote # drain.op.remote
      BY <2>1 DEF Unwanted, BoundTo, Bound
    <2> QED BY <1>3, <1>4, <1>11, <2>2, <2>3
  <1>12. CASE drain.pc = "rmdir"
    <2> DEFINE d == drain.op.at.dir
    <2>1. d \in Notebooks
      BY <1>1, <1>12 DEF KindsAt, OwedOps, OpOK
    <2>2. FilesThere(remote, d) = {}
      BY <1>1, <1>12 DEF RmdirOK
    <2>3. remote' = DirGone(remote, d)
      BY <1>12 DEF Done
    <2> HIDE DEF d
    <2>4. \A r \in Ids : remote'.files[r] = remote.files[r]
      BY <1>2, <2>1, <2>2, <2>3, EmptiedIs
    <2> QED BY <1>4, <2>4
  <1>13. CASE drain.pc = "mkdir"
    <2>1. drain.op.at.dir \in Folders
      BY <1>1, <1>13 DEF KindsAt, OwedOps, OpOK, Notebooks
    <2>2. remote'.files = remote.files
      BY <1>2, <1>13, <2>1, DirMadeIs DEF Done
    <2> QED BY <1>6, <2>2
  <1> QED BY <1>7, <1>8, <1>9, <1>10, <1>11, <1>12, <1>13

\* What is owed then; of a file that is made nothing here knows, and of one
\* that is moved the row does not say so.
LEMMA DoneOwed ==
  ASSUME IInv, OInv, Undisturbed, drain.pc \in {"send", "move", "remove", "rmdir", "mkdir"},
         drain.pc = "send" /\ AtName(remote, drain.at) = {} => remote.made < MaxRemote,
         remote' = Done(remote),
         NEW e, e.files = remote'.files, e.dirs = {d \in Notebooks : remote'.dirs[d].here},
         Plain.known \subseteq e.known,
         drain.pc = "send" /\ AtName(remote, drain.at) = {} => remote.made + 1 \in e.known,
         drain.pc = "move" => e.moving = drain.op.file
  PROVE  OwedBy(Store, e)
  <1>1. past.strays = {} /\ OwedBy(Store, Env)
    BY Owing
  <1>2. Owed(files, dirs, Queued(Store), Env)
    BY <1>1, WhatHolds DEF OwedBy
  <1>3. /\ \A r \in Ids : remote'.files[r] # NoFile =>
             \/ remote.files[r] # NoFile
             \/ drain.pc = "send" /\ AtName(remote, drain.at) = {} /\ r = remote.made + 1
        /\ \A f \in FileIds : Bound(files[f]) /\ remote.files[files[f].remote] # NoFile =>
             /\ remote'.files[files[f].remote] # NoFile
             /\ \/ remote'.files[files[f].remote].at = remote.files[files[f].remote].at
                \/ drain.pc = "move" /\ f = drain.op.file
    BY <1>1, DoneFiles
  <1>4. /\ Env.files = remote.files /\ Env.moving = NoRow /\ Env.known = Plain.known
        /\ Env.dirs = IF drain.pc = "rmdir" THEN {d \in Notebooks : remote.dirs[d].here} \ {drain.op.at.dir}
                      ELSE {d \in Notebooks : remote.dirs[d].here}
    BY DEF Env, Plain, Settling
  <1> HIDE DEF Env, Plain, IInv
  <1>5. \A f \in FileIds : Bound(files[f]) => remote.files[files[f].remote] # NoFile
    BY <1>2, <1>4 DEF Owed, NamedThere
  <1>6. \A f \in FileIds : f # NoRow
    BY NothingAssumption
  <1>7. \A f \in FileIds : Bound(files[f]) =>
          /\ e.files[files[f].remote] # NoFile
          /\ f # e.moving => /\ f # Env.moving
                             /\ e.files[files[f].remote].at = Env.files[files[f].remote].at
    BY <1>3, <1>4, <1>5, <1>6
  <1>8. \A r \in Ids : e.files[r] # NoFile /\ r \notin e.known => Env.files[r] # NoFile /\ r \notin Env.known
    BY <1>3, <1>4
  <1>9. \A d \in Notebooks : d \in Env.dirs => d \in e.dirs
    BY <1>4, DoneDirs
  <1>10. Owed(files, dirs, Queued(Store), e)
    BY <1>2, <1>7, <1>8, <1>9, AnewOwed
  <1> QED BY <1>10, WhatHolds DEF OwedBy

-----------------------------------------------------------------------------
(* A turn of the drain.                                                      *)

\* What is owed is as it was.
LEMMA PlainStays ==
  ASSUME UNCHANGED remote, past'.unheard = past.unheard
  PROVE  Plain' = Plain
  BY DEF Plain, Unheard

\* Nothing is written, and no request goes out.
LEMMA NothingDone ==
  ASSUME IInv, OInv, Undisturbed, drain.pc # "settle", UNCHANGED <<files, dirs, ops, remote>>,
         past'.unheard = past.unheard, past'.strays = {}, drain'.pc \in {"idle", "turn"}
  PROVE  OInv'
  <1>1. Plain' = Plain /\ Becomes(Store)
    BY PlainStays, StoreStays
  <1>2. OwedBy(Store, Plain)
    BY PlainOwed
  <1> QED BY <1>1, <1>2, Grounded

\* An op is done with that owes nothing.
LEMMA NothingOwed ==
  ASSUME IInv, OInv, Undisturbed, drain.pc # "settle", UNCHANGED remote,
         past'.unheard = past.unheard, past'.strays = {},
         NEW op, Settled(Store, op),
         \A o \in Queued(Store) : o.tag = op.tag =>
           /\ o.kind \in {"upload", "rmdir"}
           /\ o.kind = "upload" => files[o.file] = NoRow \/ Bound(files[o.file])
  PROVE  OInv'
  <1>1. OwedBy(Store, Plain')
    BY PlainStays, PlainOwed
  <1> QED BY <1>1, WhatHolds, SettledOwed

\* Only one op has its tag.
LEMMA OneTag ==
  ASSUME IInv, NEW op \in Now
  PROVE  \A o \in Queued(Store) : o.tag = op.tag => o = op
  BY TurnsOp, WhatHolds DEF Queued

\* What is not disturbed now was not before.
LEMMA Before ==
  ASSUME Undisturbed', past.meddled => past'.meddled, past.unheard \subseteq past'.unheard
  PROVE  Undisturbed
  BY DEF Undisturbed, Unheard

LEMMA DrainEndsOwes ==
  ASSUME IInv, OInv, DrainEnds \/ PassOver \/ HoldBack PROVE OInv'
  <1> SUFFICES ASSUME Undisturbed' PROVE OInv'
    BY DEF OInv
  <1>0. OutsideOK
    BY DEF IInv, TypeOK
  <1>1. /\ UNCHANGED <<files, dirs, ops, remote>> /\ drain.pc = "turn"
        /\ past' = past \/ \E crossed : past' = [past EXCEPT !.crossed = crossed]
    BY DEF DrainEnds, PassOver, HoldBack, Turn
  <1>m. /\ past'.meddled = past.meddled /\ past'.unheard = past.unheard
        /\ past'.strays = past.strays
    BY <1>0, <1>1 DEF OutsideOK, Kept
  <1>2. drain'.pc \in {"idle", "turn"}
    <2>1. CASE DrainEnds
      <3>1. drain' = Rest
        BY <2>1 DEF DrainEnds, Ends
      <3> QED BY <3>1 DEF Rest
    <2>2. CASE PassOver
      <3>1. drain' = NextTurn
        BY <2>2 DEF PassOver
      <3> QED BY <3>1 DEF NextTurn, Rest
    <2>3. CASE HoldBack
      <3>1. \E H, C : drain' = [NextTurn EXCEPT !.holding = H, !.copying = C]
        <4>1. PICK op \in Now : drain' = HeldBack(op, NextTurn)
          BY <2>3 DEF HoldBack
        <4> DEFINE H == IF op.kind = "rmdir" THEN NextTurn.holding ELSE NextTurn.holding \cup {op.at}
                   C == IF op.kind = "upload" THEN NextTurn.copying \cup {op.copyOf}
                        ELSE NextTurn.copying
        <4>2. drain' = [NextTurn EXCEPT !.holding = H, !.copying = C]
          BY <4>1 DEF HeldBack
        <4> HIDE DEF H, C
        <4> QED BY <4>2, Zenon
      <3> QED BY <3>1 DEF NextTurn, Rest
    <2> QED BY <2>1, <2>2, <2>3
  <1>3. Undisturbed /\ past'.strays = {}
    BY <1>1, <1>m, Before, Owing
  <1> QED BY <1>1, <1>m, <1>2, <1>3, NothingDone

LEMMA OutOfAttemptsOwes ==
  ASSUME IInv, OInv, OutOfAttempts PROVE OInv'
  <1> SUFFICES ASSUME Undisturbed' PROVE OInv'
    BY DEF OInv
  <1>1. PICK op \in Now :
          CASE op.kind = "rmdir"  -> Settled(Store, op) /\ past' = [past EXCEPT !.gaveUp = TRUE]
                                     /\ UNCHANGED outcome
            [] op.kind = "upload" -> /\ drain' = [StepOver(op, NextTurn) EXCEPT !.stuck = TRUE]
                                     /\ UNCHANGED <<files, dirs, ops, outcome, past>>
            [] OTHER -> Ends("blocked") /\ UNCHANGED <<files, dirs, ops, past>>
    BY DEF OutOfAttempts
  <1>2. UNCHANGED remote /\ drain.pc = "turn"
    BY DEF OutOfAttempts, Turn
  <1>3. OutsideOK
    BY DEF IInv, TypeOK
  <1> HIDE DEF IInv
  <1>4. CASE op.kind = "rmdir"
    <2>1. Settled(Store, op) /\ past' = [past EXCEPT !.gaveUp = TRUE]
      BY <1>1, <1>4
    <2>2. past'.meddled = past.meddled /\ past'.unheard = past.unheard /\ past'.strays = past.strays
      BY <1>3, <2>1 DEF OutsideOK, Kept
    <2>3. Undisturbed /\ past'.strays = {}
      BY <2>2, Before, Owing
    <2>4. \A o \in Queued(Store) : o.tag = op.tag => o.kind = "rmdir"
      BY <1>4, OneTag
    <2> QED BY <1>2, <2>1, <2>2, <2>3, <2>4, NothingOwed
  <1>5. CASE op.kind # "rmdir"
    <2>1. UNCHANGED <<files, dirs, ops, past>>
      BY <1>1, <1>5
    <2>2. drain'.pc \in {"idle", "turn"}
      <3>1. CASE op.kind = "upload"
        <4>1. drain' = [StepOver(op, NextTurn) EXCEPT !.stuck = TRUE]
          BY <1>1, <3>1
        <4> QED BY <4>1 DEF StepOver, NextTurn, Rest
      <3>2. CASE op.kind # "upload"
        <4>1. Ends("blocked")
          BY <1>1, <1>5, <3>2
        <4> QED BY <4>1 DEF Ends, Rest
      <3> QED BY <3>1, <3>2
    <2>3. Undisturbed /\ past'.strays = {}
      BY <2>1, Before, Owing
    <2> QED BY <1>2, <2>1, <2>2, <2>3, NothingDone
  <1> QED BY <1>4, <1>5

\* A request goes out for an op that is read in this turn.
LEMMA BeginsOwes ==
  ASSUME IInv, OInv, Turn, NEW op \in Now, NEW pc \in Calls \ {"rmdir"}, NEW at, NEW from, Goes(op, pc, at, from),
         UNCHANGED <<files, dirs, ops, remote, past>>, pc = "look" => dirs[op.at.dir] = NoRow
  PROVE  OInv'
  <1> SUFFICES ASSUME Undisturbed' PROVE OInv'
    BY DEF OInv
  <1>1. Undisturbed /\ past.strays = {} /\ drain.pc = "turn"
    BY Before, Owing DEF Turn
  <1>2. drain \in Drains
    BY WhatHolds
  <1> HIDE DEF IInv
  <1>3. drain' = [drain EXCEPT !.pc = pc, !.op = op, !.at = at, !.sent = at, !.from = from]
    BY DEF Goes
  <1>4. drain'.pc = pc /\ drain'.op = op
    BY <1>2, <1>3 DEF Drains
  <1>5. pc \notin {"met", "settle"}
    BY DEF Calls
  <1>6. OwedBy(Store, Plain)
    BY <1>1, PlainOwed
  <1>7. Owed(files, dirs, Queued(Store), Plain)
    BY <1>6, WhatHolds DEF OwedBy
  <1> DEFINE e == Env'
  <1>8. /\ e.files = Plain.files /\ e.moving = Plain.moving /\ e.known = Plain.known
        /\ \A d \in Notebooks : d \in Plain.dirs => d \in e.dirs \/ (pc = "look" /\ d = op.at.dir)
    BY <1>4, <1>5 DEF Env, Plain, Settling, Unheard
  <1> HIDE DEF e, Env, Plain
  <1>9. \A d \in Notebooks : dirs[d] # NoRow /\ d \in Plain.dirs => d \in e.dirs
    BY <1>8
  <1>10. \A f \in FileIds : Bound(files[f]) => Plain.files[files[f].remote] # NoFile
    BY <1>7 DEF Owed, NamedThere
  <1>11. Owed(files, dirs, Queued(Store), e)
    BY <1>7, <1>8, <1>9, <1>10, AnewOwed
  <1>12. OwedBy(Store, Env)'
    BY <1>11 DEF OwedBy, Store, Queued, e
  <1>13. Queued(Store') = Queued(Store)
    BY DEF Queued, Store
  <1>14. AsRead'
    BY <1>4, <1>13, OneTag DEF AsRead, Like
  <1>15. Answered' /\ ItsOwn'
    BY <1>4, <1>5 DEF Answered, ItsOwn, Settling
  <1> QED BY <1>1, <1>12, <1>14, <1>15 DEF OInv

\* What the run reads of the queue, it keeps.
LEMMA HeadRead ==
  ASSUME IInv, drain.todo # <<>>
  PROVE  Head(drain.todo) \in drain.read
  BY WhatHolds, Skipped DEF IInv, RunOK

\* An upload is done with, whose row is gone or names its file.
LEMMA UploadPaid ==
  ASSUME IInv, drain.todo # <<>>, NEW op, op.tag = Head(drain.todo), op.kind = "upload",
         \A o \in Queued(Store) : o.tag = op.tag => Like(op, o),
         NEW s \in Stores, s.files[op.file] = NoRow \/ Bound(s.files[op.file]),
         Settled(s, op), OwedStill(Store, s, Plain'), past'.strays = {}
  PROVE  OInv'
  <1>1. op.tag \in Store.kept
    BY HeadRead, WhatHolds
  <1>2. ASSUME NEW p \in Queued(s), p.tag = op.tag PROVE p.kind = "upload" /\ p.file = op.file
    <2>1. PICK o \in Queued(Store) : Like(o, p)
      BY <1>1, <1>2 DEF OwedStill, LikeFrom
    <2>2. Like(op, o)
      BY <1>2, <2>1 DEF Like
    <2> QED BY <2>1, <2>2 DEF Like
  <1>3. OwedBy(s, Plain')
    BY DEF OwedStill
  <1> HIDE DEF IInv
  <1> QED BY <1>2, <1>3, SettledOwed

LEMMA BeginUploadOwes ==
  ASSUME IInv, OInv, BeginUpload PROVE OInv'
  <1> SUFFICES ASSUME Undisturbed' PROVE OInv'
    BY DEF OInv
  <1>1. PICK op \in Now :
          /\ op.kind = "upload"
          /\ LET row == files[op.file]
             IN  IF row = NoRow \/ row.remote # NoFile THEN Settled(Store, op)
                 ELSE IF ~row.held /\ op.copyOf = NoFile THEN Settled(ForgetFile(Store, op.file), op)
                 ELSE Goes(op, IF row.held THEN "send" ELSE "fetch", row.at, NoFile)
                      /\ UNCHANGED <<files, dirs, ops>>
    BY DEF BeginUpload
  <1>2. Turn /\ drain.pc = "turn" /\ UNCHANGED <<remote, past>>
    BY DEF BeginUpload, Turn
  <1>3. drain.todo # <<>> /\ op.tag = Head(drain.todo) /\ op \in OwedOps
    BY TurnsOp
  <1>4. Undisturbed /\ past'.strays = {}
    BY <1>2, Before, Owing
  <1>5. \A o \in Queued(Store) : o.tag = op.tag => o = op
    BY OneTag
  <1> DEFINE row == files[op.file]
  <1>6. op.file \in FileIds
    BY <1>1, <1>3 DEF OwedOps, OpOK
  <1> HIDE DEF IInv
  <1>7. CASE row = NoRow \/ row.remote # NoFile
    <2>1. Settled(Store, op)
      BY <1>1, <1>7
    <2>2. \A o \in Queued(Store) : o.tag = op.tag =>
            /\ o.kind \in {"upload", "rmdir"}
            /\ o.kind = "upload" => files[o.file] = NoRow \/ Bound(files[o.file])
      BY <1>1, <1>5, <1>7 DEF Bound
    <2> QED BY <1>2, <1>4, <2>1, <2>2, NothingOwed
  <1>8. CASE ~(row = NoRow \/ row.remote # NoFile) /\ ~row.held /\ op.copyOf = NoFile
    <2> DEFINE s == ForgetFile(Store, op.file)
    <2>1. Settled(s, op)
      BY <1>1, <1>8
    <2>2. OwedBy(Store, Plain) /\ Plain' = Plain
      BY <1>2, <1>4, PlainOwed, PlainStays
    <2>3. s \in Stores /\ s.files[op.file] = NoRow /\ OwedStill(Store, s, Plain)
      BY <1>6, <1>8, <2>2, WhatHolds, ForgetFileStill DEF Bound
    <2>4. \A o \in Queued(Store) : o.tag = op.tag => Like(op, o)
      BY <1>5 DEF Like
    <2> HIDE DEF s
    <2> QED BY <1>1, <1>3, <1>4, <2>1, <2>2, <2>3, <2>4, UploadPaid
  <1>9. CASE ~(row = NoRow \/ row.remote # NoFile) /\ ~(~row.held /\ op.copyOf = NoFile)
    <2> DEFINE pc == IF row.held THEN "send" ELSE "fetch"
               at == row.at
    <2>1. Goes(op, pc, at, NoFile) /\ UNCHANGED <<files, dirs, ops>>
      BY <1>1, <1>9
    <2>2. pc \in Calls \ {"rmdir"} /\ pc # "look"
      BY DEF Calls
    <2> HIDE DEF pc, at
    <2> QED BY <1>2, <2>1, <2>2, BeginsOwes
  <1> QED BY <1>7, <1>8, <1>9

\* The row of a queued move names its file.
LEMMA BeginMoveOwes ==
  ASSUME IInv, OInv, BeginMove PROVE OInv'
  <1> SUFFICES ASSUME Undisturbed' PROVE OInv'
    BY DEF OInv
  <1>1. PICK op \in Now :
          /\ op.kind = "move-file"
          /\ LET row == files[op.file]
             IN  IF row = NoRow \/ row.remote = NoFile THEN Settled(Store, op)
                 ELSE Goes(op, "move", op.to, row.remote) /\ UNCHANGED <<files, dirs, ops>>
    BY DEF BeginMove
  <1>2. Turn /\ drain.pc = "turn" /\ UNCHANGED <<remote, past>>
    BY DEF BeginMove, Turn
  <1>3. Undisturbed
    BY <1>2, Before
  <1>4. op \in Queued(Store)
    BY TurnsOp, WhatHolds DEF Queued
  <1>5. Bound(files[op.file])
    BY <1>1, <1>3, <1>4, Owing, WhatHolds DEF OwedBy, Owed, MovesMeant
  <1> DEFINE from == files[op.file].remote
             at == op.to
  <1>6. Goes(op, "move", at, from) /\ UNCHANGED <<files, dirs, ops>>
    BY <1>1, <1>5 DEF Bound
  <1>7. "move" \in Calls \ {"rmdir"}
    BY DEF Calls
  <1> HIDE DEF from, at, IInv
  <1> QED BY <1>2, <1>6, <1>7, BeginsOwes

LEMMA BeginOthersOwes ==
  ASSUME IInv, OInv, BeginDelete \/ BeginMkdir PROVE OInv'
  <1>1. Turn /\ UNCHANGED <<files, dirs, ops, remote, past>>
    BY DEF BeginDelete, BeginMkdir
  <1>2. PICK op \in Now, pc \in {"remove", "mkdir"} : Goes(op, pc, op.at, NoFile)
    BY DEF BeginDelete, BeginMkdir
  <1>3. pc \in Calls \ {"rmdir"} /\ pc # "look"
    BY DEF Calls
  <1> HIDE DEF IInv
  <1> QED BY <1>1, <1>2, <1>3, BeginsOwes

\* A directory goes only where no row is.
LEMMA BeginRmdirOwes ==
  ASSUME IInv, OInv, BeginRmdir PROVE OInv'
  <1> SUFFICES ASSUME Undisturbed' PROVE OInv'
    BY DEF OInv
  <1>1. PICK op \in Now :
          /\ op.kind = "rmdir"
          /\ IF TheUsersAgain(op) THEN Settled(Store, op)
             ELSE Goes(op, "look", op.at, NoFile) /\ UNCHANGED <<files, dirs, ops>>
    BY DEF BeginRmdir
  <1>2. Turn /\ drain.pc = "turn" /\ UNCHANGED <<remote, past>>
    BY DEF BeginRmdir, Turn
  <1>3. Undisturbed /\ past'.strays = {}
    BY <1>2, Before, Owing
  <1> HIDE DEF IInv
  <1>4. CASE TheUsersAgain(op)
    <2>1. Settled(Store, op)
      BY <1>1, <1>4
    <2>2. \A o \in Queued(Store) : o.tag = op.tag => o.kind = "rmdir"
      BY <1>1, OneTag
    <2> QED BY <1>2, <1>3, <2>1, <2>2, NothingOwed
  <1>5. CASE ~TheUsersAgain(op)
    <2>1. Goes(op, "look", op.at, NoFile) /\ UNCHANGED <<files, dirs, ops>>
      BY <1>1, <1>5
    <2>2. "look" \in Calls \ {"rmdir"} /\ dirs[op.at.dir] = NoRow
      BY <1>5 DEF Calls, TheUsersAgain
    <2> QED BY <1>2, <2>1, <2>2, BeginsOwes
  <1> QED BY <1>4, <1>5

-----------------------------------------------------------------------------
(* The answers.                                                              *)

\* The request goes on, and nothing is written.
LEMMA InFlightOwes ==
  ASSUME UNCHANGED <<files, dirs, ops>>, Flight, AsRead, drain'.op = drain.op, past'.strays = {},
         OwedBy(Store, Env'), Answered', ItsOwn'
  PROVE  OInv'
  <1>1. Store'.files = Store.files /\ Store'.dirs = Store.dirs /\ Queued(Store') = Queued(Store)
    BY DEF Store, Queued
  <1>2. OwedBy(Store, Env)'
    BY <1>1 DEF OwedBy
  <1>3. AsRead'
    BY <1>1 DEF AsRead
  <1> QED BY <1>2, <1>3 DEF OInv

\* It goes on to another call.
LEMMA AnotherCall ==
  ASSUME IInv, OInv, Undisturbed, UNCHANGED <<files, dirs, ops, remote, past>>, Flight, drain.pc # "settle",
         NEW pc \in {"send", "move"}, NEW at, NEW entry, Going(drain, drain', pc, at, entry)
  PROVE  OInv'
  <1>1. past'.strays = {} /\ AsRead
    BY Owing
  <1>2. drain'.pc = pc /\ drain'.op = drain.op
    BY DEF Going
  <1>3. OwedBy(Store, Plain)
    BY PlainOwed
  <1> HIDE DEF IInv
  <1> DEFINE e == Env'
  <1>4. /\ e.files = Plain.files /\ e.moving = Plain.moving /\ e.known = Plain.known /\ e.dirs = Plain.dirs
    BY <1>2 DEF Env, Plain, Settling, Unheard
  <1> HIDE DEF e
  <1>5. OwedBy(Store, e)
    BY <1>3, <1>4, SameOwed DEF OwedBy
  <1>6. Answered' /\ ItsOwn'
    BY <1>2 DEF Answered, ItsOwn, Settling
  <1> QED BY <1>1, <1>2, <1>5, <1>6, InFlightOwes DEF e

LEMMA FetchedOwes ==
  ASSUME IInv, OInv, Fetched PROVE OInv'
  <1> SUFFICES ASSUME Undisturbed' PROVE OInv'
    BY DEF OInv
  <1>1. drain.pc = "fetch" /\ UNCHANGED <<remote, past>> /\ Flight
    BY DEF Fetched, Flight
  <1>2. /\ drain.op \in OwedOps /\ drain.op.kind = "upload" /\ drain.at \in Paths
        /\ drain.todo # <<>> /\ drain.op.tag = Head(drain.todo) /\ UploadOK
    BY <1>1, UnderWay DEF KindsAt
  <1>3. Undisturbed /\ past'.strays = {} /\ AsRead
    BY <1>1, Before, Owing
  <1>4. CASE drain' = [drain EXCEPT !.pc = "send"] /\ UNCHANGED <<files, dirs, ops>>
    <2>1. drain \in Drains
      BY DrainIs
    <2>2. "send" \in Stages
      BY LaterStages
    <2>3. Going(drain, drain', "send", drain.at, drain.entry)
      BY <1>2, <1>4, <2>1, <2>2, StageIs, Zenon
    <2> HIDE DEF IInv
    <2> QED BY <1>1, <1>3, <1>4, <2>3, AnotherCall
  <1>5. CASE Settled(ForgetFile(Store, drain.op.file), drain.op)
    <2> DEFINE op == drain.op
               s == ForgetFile(Store, op.file)
    <2>1. op.file \in FileIds /\ ~Bound(Store.files[op.file])
      BY <1>2, WhatHolds DEF OwedOps, OpOK, UploadOK, Row, Bound
    <2>2. OwedBy(Store, Plain) /\ Plain' = Plain
      BY <1>1, <1>3, PlainOwed, PlainStays
    <2>3. s \in Stores /\ s.files[op.file] = NoRow /\ OwedStill(Store, s, Plain)
      BY <2>1, <2>2, WhatHolds, ForgetFileStill
    <2>4. \A o \in Queued(Store) : o.tag = op.tag => Like(op, o)
      BY <1>1, <1>3 DEF AsRead
    <2>5. Settled(s, op)
      BY <1>5
    <2> HIDE DEF s, op, IInv
    <2>6. op.kind = "upload" /\ op.tag = Head(drain.todo)
      BY <1>2 DEF op
    <2> QED BY <1>2, <1>3, <2>2, <2>3, <2>4, <2>5, <2>6, UploadPaid
  <1> QED BY <1>4, <1>5 DEF Fetched

\* What is answered is at the name it was asked at.
LEMMA EntryAt ==
  ASSUME NEW w \in Remotes, drain.at \in Paths, AtName(w, drain.at) # {}
  PROVE  /\ w.files[Entry(w).id] # NoFile /\ w.files[Entry(w).id].at = Entry(w).at
         /\ Entry(w).id \in AtName(w, drain.at) /\ Entry(w) \in Answers
  <1>1. Entry(w).at = drain.at
    BY DEF Entry
  <1>2. Entry(w).id \in AtName(w, drain.at) /\ Entry(w) \in Answers
    BY EntryIs
  <1> QED BY <1>1, <1>2 DEF AtName

LEMMA SentToOwes ==
  ASSUME IInv, OInv, SentTo PROVE OInv'
  <1> SUFFICES ASSUME Undisturbed' PROVE OInv'
    BY DEF OInv
  <1> DEFINE clear == AtName(remote, drain.at) = {}
             pc == IF clear THEN "settle" ELSE "met"
             entry == Entry(remote')
  <1>1. /\ drain.pc = "send" /\ (clear => remote.made < MaxRemote) /\ remote' = Done(remote)
        /\ drain' = [drain EXCEPT !.entry = entry, !.pc = pc]
        /\ UNCHANGED <<files, dirs, ops, past>> /\ Flight
    BY DEF SentTo, Flight
  <1>2. drain.op.kind = "upload" /\ drain.at \in Paths
    BY <1>1, UnderWay DEF KindsAt
  <1>3. Undisturbed /\ past'.strays = {} /\ AsRead
    BY <1>1, Before, Owing
  <1>4. remote' \in Remotes
    BY <1>1, DoneOK
  <1>5. AtName(remote', drain.at) # {} /\ (clear => AtName(remote', drain.at) \subseteq {remote.made + 1})
    BY <1>1, SentThere
  <1>6. /\ remote'.files[entry.id] # NoFile /\ remote'.files[entry.id].at = entry.at
        /\ entry.id \in AtName(remote', drain.at) /\ entry \in Answers
    BY <1>2, <1>4, <1>5, EntryAt
  <1>7. pc \in Stages /\ pc \in {"settle", "met"} /\ (pc = "settle" <=> clear)
    BY LaterStages
  <1>8. drain \in Drains
    BY DrainIs
  <1> HIDE DEF IInv, entry, pc, clear
  <1>9. Going(drain, drain', pc, drain.at, entry)
    BY <1>1, <1>2, <1>6, <1>7, <1>8, StageIs, Zenon
  <1>10. drain'.pc = pc /\ drain'.op = drain.op /\ drain'.entry = entry
    BY <1>9 DEF Going
  <1>11. clear => entry.id = remote.made + 1
    BY <1>5, <1>6
  <1> DEFINE e == Env'
  <1>12. /\ e.files = remote'.files /\ e.dirs = {d \in Notebooks : remote'.dirs[d].here}
         /\ Plain.known \subseteq e.known /\ (clear => entry.id \in e.known)
    BY <1>1, <1>2, <1>7, <1>10 DEF Env, Plain, Settling, Unheard
  <1> HIDE DEF e
  <1>13. OwedBy(Store, e)
    BY <1>1, <1>3, <1>11, <1>12, DoneOwed DEF clear
  <1>14. Answered' /\ ItsOwn'
    BY <1>2, <1>6, <1>10 DEF Answered, ItsOwn, Settling
  <1> QED BY <1>1, <1>3, <1>10, <1>13, <1>14, InFlightOwes DEF e

\* The file a queued move is about is there, and is the one that moves.
LEMMA MovesTheRows ==
  ASSUME IInv, OInv, Undisturbed, drain.pc = "move", remote.files[Moving] = NoFile
  PROVE  \A o \in Queued(Store) : o.tag # drain.op.tag
  <1> SUFFICES ASSUME NEW o \in Queued(Store), o.tag = drain.op.tag PROVE FALSE
    OBVIOUS
  <1>1. drain.op.kind = "move-file" /\ drain.op \in OwedOps /\ MoveOK
    BY UnderWay DEF KindsAt
  <1>2. o.kind = "move-file" /\ o.file = drain.op.file
    BY <1>1, Owing DEF AsRead, Flight, Like
  <1>3. Owed(files, dirs, Queued(Store), Env)
    BY Owing, WhatHolds DEF OwedBy
  <1>4. Env.files = remote.files
    BY DEF Env, Plain
  <1>5. drain.op.file \in FileIds
    BY <1>1 DEF OwedOps, OpOK
  <1>6. Bound(files[drain.op.file])
    BY <1>2, <1>3 DEF Owed, MovesMeant
  <1>7. remote.files[files[drain.op.file].remote] # NoFile
    BY <1>3, <1>4, <1>5, <1>6 DEF Owed, NamedThere
  <1>8. files[drain.op.file].remote = Moving
    BY <1>1, <1>6 DEF MoveOK, Row, Bound, Moving
  <1> QED BY <1>7, <1>8

LEMMA MoveLandedOwes ==
  ASSUME IInv, OInv, MoveLanded PROVE OInv'
  <1> SUFFICES ASSUME Undisturbed' PROVE OInv'
    BY DEF OInv
  <1>1. drain.pc = "move" /\ remote' = Done(remote) /\ UNCHANGED past /\ Flight
    BY DEF MoveLanded, Flight
  <1>2. drain.op.kind = "move-file" /\ drain.op \in OwedOps /\ drain.at \in Paths
    BY <1>1, UnderWay DEF KindsAt
  <1>3. Undisturbed /\ past'.strays = {} /\ AsRead
    BY <1>1, Before, Owing
  <1>4. CASE remote.files[Moving] = NoFile
    <2>1. Settled(Store, drain.op) /\ UNCHANGED remote
      BY <1>1, <1>4 DEF MoveLanded, Done
    <2>2. \A o \in Queued(Store) : o.tag # drain.op.tag
      BY <1>1, <1>3, <1>4, MovesTheRows
    <2> HIDE DEF IInv
    <2> QED BY <1>1, <1>3, <2>1, <2>2, NothingOwed
  <1>5. CASE remote.files[Moving] # NoFile
    <2> DEFINE free == AtName(remote, drain.at) \subseteq {Moving}
               pc == IF free THEN "settle" ELSE "met"
               entry == Entry(remote')
    <2>1. drain' = [drain EXCEPT !.entry = entry, !.pc = pc] /\ UNCHANGED <<files, dirs, ops>>
      BY <1>5 DEF MoveLanded
    <2>2. remote' \in Remotes
      BY <1>1, DoneOK
    <2>3. AtName(remote', drain.at) # {} /\ (free => AtName(remote', drain.at) \subseteq {Moving})
      BY <1>1, <1>5, MovedThere
    <2>4. /\ remote'.files[entry.id] # NoFile /\ remote'.files[entry.id].at = entry.at
          /\ entry.id \in AtName(remote', drain.at) /\ entry \in Answers
      BY <1>2, <2>2, <2>3, EntryAt
    <2>5. pc \in Stages /\ pc \in {"settle", "met"} /\ (pc = "settle" <=> free)
      BY LaterStages
    <2>6. drain \in Drains
      BY DrainIs
    <2>7. ~free => UNCHANGED remote
      BY <1>1, <1>5 DEF Done
    <2> HIDE DEF IInv, entry, pc, free
    <2>8. Going(drain, drain', pc, drain.at, entry)
      BY <1>2, <2>1, <2>4, <2>5, <2>6, StageIs, Zenon
    <2>9. drain'.pc = pc /\ drain'.op = drain.op /\ drain'.entry = entry /\ drain'.from = drain.from
      BY <2>8 DEF Going
    <2>10. free => entry.id = drain.from
      BY <2>3, <2>4 DEF Moving
    <2> DEFINE e == Env'
    <2>11. /\ e.files = remote'.files /\ e.dirs = {d \in Notebooks : remote'.dirs[d].here}
           /\ e.known = Plain.known /\ e.moving = IF free THEN drain.op.file ELSE NoRow
      BY <1>1, <1>2, <2>5, <2>9 DEF Env, Plain, Settling, Unheard
    <2> HIDE DEF e
    <2>12. OwedBy(Store, e)
      <3>1. CASE free
        <4>1. Plain.known \subseteq e.known /\ e.moving = drain.op.file
          BY <2>11, <3>1
        <4> QED BY <1>1, <1>3, <2>11, <4>1, DoneOwed
      <3>2. CASE ~free
        <4>1. /\ e.files = Plain.files /\ e.moving = Plain.moving /\ e.known = Plain.known
              /\ e.dirs = Plain.dirs
          BY <2>7, <2>11, <3>2 DEF Plain
        <4>2. OwedBy(Store, Plain)
          BY <1>1, <1>3, PlainOwed
        <4> QED BY <4>1, <4>2, SameOwed DEF OwedBy
      <3> QED BY <3>1, <3>2
    <2>13. Answered' /\ ItsOwn'
      BY <2>4, <2>5, <2>9, <2>10 DEF Answered, ItsOwn, Settling
    <2> QED BY <1>1, <1>3, <2>1, <2>9, <2>12, <2>13, InFlightOwes DEF e
  <1> QED BY <1>4, <1>5

\* What a moved file met and takes for its own is what it was already.
LEMMA MetItself ==
  ASSUME IInv, OInv, Undisturbed, drain.pc = "met", drain.op.kind = "move-file", ~Unheard("upload"),
         Adoptable(drain.entry)
  PROVE  drain.entry.id = drain.from
  <1> DEFINE r == drain.entry.id
  <1>1. /\ MetOK /\ MoveOK /\ Flight
    BY UnderWay DEF Flight
  <1>2. r \in Ids /\ remote.files[r] # NoFile
    BY <1>1, Owing DEF MetOK, Answered, Answers
  <1>3. Owed(files, dirs, Queued(Store), Env)
    BY Owing, WhatHolds DEF OwedBy
  <1>4. Env.files = remote.files /\ Env.known = {}
    BY DEF Env, Plain, Settling
  <1>5. (\E f \in FileIds : BoundTo(files, f, r)) \/ \E o \in Queued(Store) : DeleteOf(o, r)
    BY <1>2, <1>3, <1>4 DEF Owed, Accounted
  <1>6. \A o \in Queued(Store) : ~DeleteOf(o, r)
    BY DEF Adoptable, DeleteOf
  <1>7. \A f \in FileIds : BoundTo(files, f, r) => f = drain.op.file
    BY DEF Adoptable, BoundElsewhere, BoundTo
  <1>8. BoundTo(files, drain.op.file, r)
    BY <1>5, <1>6, <1>7
  <1> QED BY <1>1, <1>8 DEF MoveOK, Row, BoundTo

LEMMA MetOwes ==
  ASSUME IInv, OInv, Met PROVE OInv'
  <1> SUFFICES ASSUME Undisturbed' PROVE OInv'
    BY DEF OInv
  <1> DEFINE free == FreeName({remote.files[i].at.k : i \in FilesThere(remote, drain.at.dir)}
                              \cup NamesHere(Store, drain.at.dir))
             again == IF drain.op.kind = "upload" THEN "send" ELSE "move"
             at == Path(drain.at.dir, free)
  <1>1. /\ drain.pc = "met" /\ UNCHANGED <<files, dirs, ops, remote, past>> /\ Flight
        /\ drain' = IF Adoptable(drain.entry) THEN [drain EXCEPT !.pc = "settle"]
                    ELSE [drain EXCEPT !.pc = again, !.at = at, !.entry = NoFile]
    BY DEF Met, Flight
  <1>2. /\ drain.op.kind \in {"upload", "move-file"} /\ drain.at \in Paths /\ MetOK
    BY <1>1, UnderWay DEF KindsAt
  <1>3. Undisturbed /\ past'.strays = {} /\ AsRead /\ Answered
    BY <1>1, Before, Owing
  <1>4. at \in Paths
    <2>1. free \in Nat
      BY FreeThere
    <2> HIDE DEF free
    <2> QED BY <1>2, <2>1 DEF Path, Paths
  <1>5. drain \in Drains
    BY DrainIs
  <1> HIDE DEF at
  <1>6. CASE Adoptable(drain.entry)
    <2>1. drain' = [drain EXCEPT !.pc = "settle"]
      BY <1>1, <1>6
    <2>2. "settle" \in Stages
      BY LaterStages
    <2>3. Going(drain, drain', "settle", drain.at, drain.entry)
      BY <1>2, <1>5, <2>1, <2>2, StageIs, Zenon
    <2>4. drain'.pc = "settle" /\ drain'.op = drain.op /\ drain'.entry = drain.entry /\ drain'.from = drain.from
      BY <2>3 DEF Going
    <2>5. drain.op.kind = "move-file" /\ ~Unheard("upload") => drain.entry.id = drain.from
      BY <1>1, <1>3, <1>6, MetItself
    <2>6. OwedBy(Store, Plain)
      BY <1>1, <1>3, PlainOwed
    <2> HIDE DEF IInv
    <2>7. Owed(files, dirs, Queued(Store), Plain)
      BY <2>6 DEF OwedBy, Store
    <2> DEFINE e == Env'
    <2>8. /\ e.files = Plain.files /\ Plain.moving = NoRow /\ Plain.known \subseteq e.known /\ e.dirs = Plain.dirs
      BY <1>1, <2>4 DEF Env, Plain, Settling, Unheard
    <2> HIDE DEF e, Plain
    <2>9. \A f \in FileIds : Bound(files[f]) => Plain.files[files[f].remote] # NoFile
      BY <2>7 DEF Owed, NamedThere
    <2>10. \A f \in FileIds : f # NoRow
      BY NothingAssumption
    <2>11. Owed(files, dirs, Queued(Store), e)
      BY <2>7, <2>8, <2>9, <2>10, AnewOwed
    <2>12. OwedBy(Store, e)
      BY <2>11 DEF OwedBy, Store
    <2>13. Answered'
      BY <1>1, <1>3, <2>4 DEF Answered
    <2>14. ItsOwn'
      BY <1>1, <2>4, <2>5 DEF ItsOwn, Settling, Unheard
    <2> QED BY <1>1, <1>3, <2>4, <2>12, <2>13, <2>14, InFlightOwes DEF e
  <1>7. CASE ~Adoptable(drain.entry)
    <2>1. drain' = [drain EXCEPT !.pc = again, !.at = at, !.entry = NoFile]
      BY <1>1, <1>7
    <2>2. again \in Stages /\ again \in {"send", "move"}
      BY LaterStages
    <2> HIDE DEF again
    <2>3. Going(drain, drain', again, at, NoFile)
      BY <1>4, <1>5, <2>1, <2>2, StageIs, Zenon
    <2> HIDE DEF IInv
    <2> QED BY <1>1, <1>3, <2>2, <2>3, AnotherCall
  <1> QED BY <1>6, <1>7

-----------------------------------------------------------------------------
(* The op is done with.                                                      *)

LEMMA SettleOwes ==
  ASSUME IInv, OInv, Settle PROVE OInv'
  <1> SUFFICES ASSUME Undisturbed' PROVE OInv'
    BY DEF OInv
  <1> DEFINE op == drain.op
             f == op.file
             entry == drain.entry
             up == Uploaded(Store, f, entry, drain.sent)
             mv == MovedFile(Store, f, entry, ByTag(Store, op.tag) = {})
  <1>1. /\ drain.pc = "settle" /\ UNCHANGED remote /\ Flight
        /\ Settled(IF op.kind = "upload" THEN up ELSE mv, op)
        /\ past' = [past EXCEPT !.crossed = @ \/ Crossed(ops', files'),
                      !.behind = IF op.kind = "upload" THEN @ ELSE @ \cup Behind(ops', files')]
    BY DEF Settle, Flight
  <1>2. OutsideOK
    BY DEF IInv, TypeOK
  <1>3. past'.meddled = past.meddled /\ past'.unheard = past.unheard /\ past'.strays = past.strays
    BY <1>1, <1>2 DEF OutsideOK, Kept
  <1>4. /\ op \in OwedOps /\ op.kind \in {"upload", "move-file"} /\ f \in FileIds
        /\ drain.todo # <<>> /\ op.tag = Head(drain.todo)
        /\ UploadOK /\ MoveOK /\ entry \in Answers
    BY <1>1, UnderWay DEF KindsAt, OwedOps, OpOK, MetOK
  <1>5. Undisturbed /\ past'.strays = {} /\ OwedBy(Store, Env)
    BY <1>3, Before, Owing
  <1>6. remote.files[entry.id] # NoFile /\ remote.files[entry.id].at = entry.at
    BY <1>1, <1>5, Owing DEF Answered
  <1>7. \A o \in Queued(Store) : o.tag = op.tag => Like(op, o)
    BY <1>1, <1>5, Owing DEF AsRead
  <1>8. /\ Env.files = remote.files /\ Env.dirs = Plain.dirs /\ Plain.files = remote.files
        /\ Plain.moving = NoRow /\ Plain' = Plain
        /\ Env.moving = (IF op.kind = "move-file" THEN f ELSE NoRow)
        /\ Env.known = (IF op.kind = "upload" THEN Plain.known \cup {entry.id} ELSE Plain.known)
    <2>1. Plain' = Plain
      BY <1>1, <1>3, PlainStays
    <2> QED BY <1>1, <2>1 DEF Env, Plain, Settling
  <1>9. Store \in Stores /\ Store.files = files /\ Store.kept = drain.read
    BY WhatHolds
  <1>10. op.tag \in Store.kept
    BY <1>4, <1>9, HeadRead
  <1>11. CASE op.kind = "upload"
    <2>1. ~Bound(Store.files[f])
      BY <1>4, <1>9, <1>11 DEF UploadOK, Row, Bound
    <2>2. Settled(up, op)
      BY <1>1, <1>11
    <2> HIDE DEF op, f, entry, IInv, Env, Plain
    <2>3. /\ up \in Stores /\ (up.files[f] = NoRow \/ Bound(up.files[f]))
          /\ OwedStill(Store, up, Plain)
      <3>1. /\ Env.moving = NoRow /\ Plain.files = Env.files /\ Plain.dirs = Env.dirs
            /\ Plain.moving = Env.moving /\ \A i \in Env.known : i \in Plain.known \/ i = entry.id
        BY <1>8, <1>11
      <3>2. Env.files[entry.id] # NoFile /\ Env.files[entry.id].at = entry.at
        BY <1>6, <1>8
      <3> QED BY <1>4, <1>5, <1>9, <2>1, <3>1, <3>2, UploadedStill
    <2> HIDE DEF up
    <2>4. OwedStill(Store, up, Plain')
      BY <1>8, <2>3
    <2>5. up.files[op.file] = NoRow \/ Bound(up.files[op.file])
      BY <2>3 DEF f
    <2> QED BY <1>4, <1>5, <1>7, <1>11, <2>2, <2>3, <2>4, <2>5, UploadPaid
  <1>12. CASE op.kind # "upload"
    <2>1. op.kind = "move-file"
      BY <1>4, <1>12
    <2>2. \A o \in Queued(Store) : o.tag = op.tag => MoveOf(o, f)
      BY <1>7, <2>1 DEF Like, MoveOf
    <2>3. \A r \in Ids : BoundTo(Store.files, f, r) => r \in Env.known \/ r = entry.id
      <3>1. CASE Unheard("upload")
        <4>1. Plain.known = Ids
          BY <3>1 DEF Plain
        <4> QED BY <1>8, <1>12, <4>1
      <3>2. CASE ~Unheard("upload")
        <4>1. entry.id = drain.from
          BY <1>1, <1>5, <2>1, <3>2, Owing DEF ItsOwn, Settling
        <4>2. \A r : BoundTo(Store.files, f, r) => r = drain.from
          BY <1>4, <1>9, <2>1 DEF MoveOK, Row, BoundTo
        <4> QED BY <4>1, <4>2
      <3> QED BY <3>1, <3>2
    <2>4. Settled(mv, op)
      BY <1>1, <1>12
    <2>5. Becomes(Complete(mv, op.tag)) /\ drain'.pc = "turn"
      BY <2>4, StoreIsOne DEF Settled, NextTurn, Rest
    <2> DEFINE tag == op.tag
    <2>6. tag \in Store.kept /\ \A o \in Queued(Store) : o.tag = tag => MoveOf(o, f)
      BY <1>10, <2>2
    <2>7. Becomes(Complete(MovedFile(Store, f, entry, ByTag(Store, tag) = {}), tag))
      BY <2>5
    <2> HIDE DEF tag, op, f, entry, IInv, Env, Plain
    <2>8. OwedBy(Complete(MovedFile(Store, f, entry, ByTag(Store, tag) = {}), tag), Plain)
      BY <1>4, <1>5, <1>6, <1>8, <1>9, <1>12, <2>1, <2>3, <2>6, MovedStill
    <2> QED BY <1>5, <1>8, <2>5, <2>7, <2>8, Grounded
  <1> QED BY <1>11, <1>12

LEMMA RemovedOwes ==
  ASSUME IInv, OInv, Removed \/ RemovedDir PROVE OInv'
  <1> SUFFICES ASSUME Undisturbed' PROVE OInv'
    BY DEF OInv
  <1> DEFINE op == drain.op
             e == Plain'
  <1>1. /\ drain.pc \in {"remove", "rmdir"} /\ remote' = Done(remote) /\ Settled(Store, op)
        /\ UNCHANGED past /\ Flight
    BY DEF Removed, RemovedDir, Flight
  <1>2. op \in OwedOps /\ op.kind \in {"delete-file", "rmdir"} /\ (op.kind = "delete-file" <=> drain.pc = "remove")
    BY <1>1, UnderWay DEF KindsAt
  <1>3. Undisturbed /\ past'.strays = {} /\ AsRead
    BY <1>1, Before, Owing
  <1>4. /\ e.files = remote'.files /\ e.dirs = {d \in Notebooks : remote'.dirs[d].here}
        /\ Plain.known \subseteq e.known
    BY <1>1 DEF Plain, Unheard
  <1> HIDE DEF e
  <1>5. OwedBy(Store, e)
    BY <1>1, <1>3, <1>4, DoneOwed
  <1>6. op.kind = "delete-file" => remote'.files[op.remote] = NoFile
    <2> SUFFICES ASSUME op.kind = "delete-file" PROVE remote'.files[op.remote] = NoFile
      OBVIOUS
    <2>1. op.remote \in Ids
      BY <1>2 DEF OwedOps, OpOK
    <2>2. remote \in Remotes
      BY DEF IInv, TypeOK, OutsideOK
    <2>3. remote' = [remote EXCEPT !.files[op.remote] = NoFile]
      BY <1>1, <1>2 DEF Done
    <2> QED BY <2>1, <2>2, <2>3 DEF Remotes
  <1>7. \A o \in Queued(Store) : o.tag = op.tag => o.kind = op.kind /\ o.remote = op.remote
    BY <1>1, <1>3 DEF AsRead, Like
  <1>8. \A o \in Queued(Store) : o.tag = op.tag =>
          /\ o.kind # "move-file"
          /\ o.kind = "delete-file" => remote'.files[o.remote] = NoFile
          /\ o.kind = "upload" => Store.files[o.file] = NoRow \/ Bound(Store.files[o.file])
          /\ o.kind = "mkdir" => Store.dirs[o.at.dir] = NoRow \/ o.at.dir \in e.dirs
    BY <1>2, <1>6, <1>7
  <1>9. Store \in Stores
    BY WhatHolds
  <1> HIDE DEF IInv, op
  <1> QED BY <1>1, <1>3, <1>5, <1>8, <1>9, SettledOwed DEF e

LEMMA MadeDirOwes ==
  ASSUME IInv, OInv, MadeDir PROVE OInv'
  <1> SUFFICES ASSUME Undisturbed' PROVE OInv'
    BY DEF OInv
  <1> DEFINE op == drain.op
             d == op.at.dir
             id == remote'.dirs[d].id
             s == MadeFolder(Store, d, id)
             e == Plain'
  <1>1. drain.pc = "mkdir" /\ remote' = Done(remote) /\ Settled(s, op) /\ UNCHANGED past /\ Flight
    BY DEF MadeDir, Flight
  <1>2. op.kind = "mkdir" /\ op \in OwedOps
    BY <1>1, UnderWay DEF KindsAt
  <1>3. d \in Notebooks
    BY <1>2 DEF OwedOps, OpOK
  <1>4. Undisturbed /\ past'.strays = {} /\ AsRead
    BY <1>1, Before, Owing
  <1>5. /\ e.files = remote'.files /\ e.dirs = {c \in Notebooks : remote'.dirs[c].here}
        /\ Plain.known \subseteq e.known
    BY <1>1 DEF Plain, Unheard
  <1>6. remote \in Remotes /\ remote' \in Remotes
    BY <1>1, DoneOK DEF IInv, TypeOK, OutsideOK
  <1>7. id \in Nat
    <2>1. remote'.dirs \in [Notebooks -> [here : BOOLEAN, id : Nat]]
      BY <1>6 DEF Remotes
    <2> QED BY <1>3, <2>1
  <1>8. remote'.dirs[d].here
    <2>1. remote' = DirMade(remote, d)
      BY <1>1 DEF Done
    <2>2. d # Top
      BY <1>3 DEF Notebooks
    <2> HIDE DEF d
    <2> QED BY <1>3, <1>6, <2>1, <2>2 DEF DirMade, Here, Remotes
  <1> HIDE DEF e, d, id
  <1>9. OwedBy(Store, e)
    BY <1>1, <1>4, <1>5, DoneOwed
  <1>10. Store \in Stores /\ Store.files = files
    BY WhatHolds
  <1>11. /\ s \in Stores /\ s.files = Store.files /\ s.ops = Store.ops
         /\ \A c \in Notebooks : s.dirs[c] # NoRow => Store.dirs[c] # NoRow
    BY <1>3, <1>7, <1>10 DEF MadeFolder, Stores
  <1> HIDE DEF s
  <1>12. Queued(s) = Queued(Store)
    BY <1>11 DEF Queued
  <1>13. OwedBy(s, e)
    BY <1>9, <1>11, <1>12, DirOwed DEF OwedBy
  <1>14. \A o \in Queued(s) : o.tag = op.tag => o.kind = "mkdir" /\ o.at.dir = d
    BY <1>1, <1>2, <1>4, <1>12 DEF AsRead, Like, d
  <1>15. d \in e.dirs
    BY <1>3, <1>5, <1>8
  <1> HIDE DEF IInv, op
  <1> QED BY <1>1, <1>4, <1>11, <1>13, <1>14, <1>15, SettledOwed DEF e

LEMMA LookOwes ==
  ASSUME IInv, OInv, Look PROVE OInv'
  <1> SUFFICES ASSUME Undisturbed' PROVE OInv'
    BY DEF OInv
  <1>1. /\ drain.pc = "look" /\ UNCHANGED remote /\ Flight
        /\ past' = [past EXCEPT !.strays = {},
                      !.overtaken = IF FilesThere(remote, drain.op.at.dir) \cap (past.behind \cup Astray) = {} THEN @
                                    ELSE @ \cup {drain.op.at.dir}]
    BY DEF Look, Flight
  <1>2. drain.op.kind = "rmdir" /\ drain.at \in Paths
    BY <1>1, UnderWay DEF KindsAt
  <1>3. OutsideOK
    BY DEF IInv, TypeOK
  <1>4. past'.meddled = past.meddled /\ past'.unheard = past.unheard /\ past'.strays = {}
    BY <1>1, <1>3 DEF OutsideOK, Kept
  <1>5. Undisturbed /\ OwedBy(Store, Env) /\ AsRead
    BY <1>4, Before, Owing
  <1>6. CASE Removable(drain.op)
    <2>1. drain' = [drain EXCEPT !.pc = "rmdir"] /\ UNCHANGED <<files, dirs, ops>>
      BY <1>6 DEF Look
    <2>2. "rmdir" \in Stages
      BY LaterStages
    <2>3. drain \in Drains
      BY DrainIs
    <2>4. Going(drain, drain', "rmdir", drain.at, drain.entry)
      BY <1>2, <2>1, <2>2, <2>3, StageIs, Zenon
    <2>5. drain'.pc = "rmdir" /\ drain'.op = drain.op
      BY <2>4 DEF Going
    <2> DEFINE e == Env'
    <2>6. e.files = Env.files /\ e.moving = Env.moving /\ e.known = Env.known /\ e.dirs = Env.dirs
      BY <1>1, <1>4, <2>5 DEF Env, Plain, Settling, Unheard
    <2> HIDE DEF e, IInv, Env
    <2>7. OwedBy(Store, e)
      BY <1>5, <2>6, SameOwed DEF OwedBy
    <2>8. Answered' /\ ItsOwn'
      BY <2>5 DEF Answered, ItsOwn, Settling
    <2> QED BY <1>1, <1>4, <1>5, <2>1, <2>5, <2>7, <2>8, InFlightOwes DEF e
  <1>7. CASE ~Removable(drain.op)
    <2>1. Settled(Store, drain.op)
      BY <1>7 DEF Look
    <2>2. \A o \in Queued(Store) : o.tag = drain.op.tag => o.kind = "rmdir"
      BY <1>1, <1>2, <1>5 DEF AsRead, Like
    <2> HIDE DEF IInv
    <2> QED BY <1>1, <1>4, <1>5, <2>1, <2>2, NothingOwed
  <1> QED BY <1>6, <1>7

-----------------------------------------------------------------------------
(* What goes wrong.                                                          *)

LEMMA FailedOwes ==
  ASSUME IInv, Failed, OwedBy(Store, Plain'), past'.strays = {}
  PROVE  OInv'
  <1> DEFINE s == FailOp(Store, drain.op.tag)
             e == Plain'
  <1>1. Becomes(s)
    BY StoreIsOne DEF Failed
  <1>2. drain'.pc \in {"idle", "turn"}
    <2>1. CASE drain.op.kind = "upload"
      <3>1. drain' = [StepOver(drain.op, NextTurn) EXCEPT !.failed = TRUE]
        BY <2>1 DEF Failed
      <3> QED BY <3>1 DEF StepOver, NextTurn, Rest
    <2>2. CASE drain.op.kind # "upload"
      BY <2>2 DEF Failed, Ends, Rest
    <2> QED BY <2>1, <2>2
  <1>3. Store \in Stores
    BY WhatHolds
  <1> HIDE DEF e
  <1>4. OwedStill(Store, s, e)
    BY <1>3, CountedStill DEF e
  <1>5. OwedBy(s, e)
    BY <1>4 DEF OwedStill
  <1> QED BY <1>1, <1>2, <1>5, Grounded DEF e

LEMMA FailureOwes ==
  ASSUME IInv, OInv, Failure PROVE OInv'
  <1> SUFFICES ASSUME Undisturbed' PROVE OInv'
    BY DEF OInv
  <1>1. Failed /\ UNCHANGED <<remote, past>> /\ drain.pc # "settle"
    BY DEF Failure, InCall, Calls
  <1>2. Undisturbed /\ past'.strays = {}
    BY <1>1, Before, Owing
  <1>3. OwedBy(Store, Plain')
    BY <1>1, <1>2, PlainOwed, PlainStays
  <1> HIDE DEF IInv
  <1> QED BY <1>1, <1>2, <1>3, FailedOwes

LEMMA StoppedOwes ==
  ASSUME IInv, OInv, Stopped PROVE OInv'
  <1> SUFFICES ASSUME Undisturbed' PROVE OInv'
    BY DEF OInv
  <1>1. UNCHANGED <<files, dirs, ops, remote, past>> /\ drain.pc # "settle" /\ drain'.pc = "idle"
    BY DEF Stopped, InCall, Calls, Ends, Rest
  <1>2. Undisturbed /\ past'.strays = {}
    BY <1>1, Before, Owing
  <1> HIDE DEF IInv
  <1> QED BY <1>1, <1>2, NothingDone

\* What nobody heard of an upload is known to nobody.
LEMMA LostAnswerOwes ==
  ASSUME IInv, OInv, LostAnswer PROVE OInv'
  <1> SUFFICES ASSUME Undisturbed' PROVE OInv'
    BY DEF OInv
  <1> DEFINE e == Plain'
  <1>1. /\ drain.pc \in {"send", "move", "remove", "rmdir", "mkdir"}
        /\ drain.pc = "send" => remote.made < MaxRemote
        /\ remote' = Done(remote) /\ past' = [past EXCEPT !.unheard = @ \cup {drain.op.kind}]
        /\ Failed \/ (Ends("stopped") /\ UNCHANGED <<files, dirs, ops>>)
    BY DEF LostAnswer
  <1>2. OutsideOK
    BY DEF IInv, TypeOK
  <1>3. /\ past'.meddled = past.meddled /\ past'.strays = past.strays
        /\ past'.unheard = past.unheard \cup {drain.op.kind}
    BY <1>1, <1>2 DEF OutsideOK, Kept
  <1>4. Undisturbed /\ past'.strays = {}
    BY <1>3, Before, Owing
  <1>5. drain.op.kind # "move-file"
    BY <1>3 DEF Undisturbed, Unheard
  <1>6. drain.pc # "move" /\ (drain.pc = "send" => drain.op.kind = "upload")
    BY <1>1, <1>5, UnderWay DEF KindsAt
  <1>7. drain.pc = "send" => remote.made + 1 \in Ids
    <2>1. remote.made \in 1..MaxRemote
      BY <1>2 DEF OutsideOK, Remotes, Ids
    <2>2. MaxRemote \in Nat
      BY FilePushAssumption
    <2> QED BY <1>1, <2>1, <2>2 DEF Ids
  <1>8. /\ e.files = remote'.files /\ e.dirs = {d \in Notebooks : remote'.dirs[d].here}
        /\ Plain.known \subseteq e.known /\ (drain.pc = "send" => e.known = Ids)
    BY <1>3, <1>6 DEF Plain, Unheard
  <1> HIDE DEF e
  <1>9. OwedBy(Store, e)
    BY <1>1, <1>4, <1>6, <1>7, <1>8, DoneOwed
  <1>10. CASE Failed
    <2> HIDE DEF IInv
    <2> QED BY <1>4, <1>9, <1>10, FailedOwes DEF e
  <1>11. CASE Ends("stopped") /\ UNCHANGED <<files, dirs, ops>>
    <2>1. drain'.pc = "idle" /\ Becomes(Store)
      BY <1>11, StoreStays DEF Ends, Rest
    <2> QED BY <1>4, <1>9, <2>1, Grounded DEF e
  <1> QED BY <1>1, <1>10, <1>11

LEMMA CrashOwes ==
  ASSUME IInv, OInv, Crash PROVE OInv'
  <1> SUFFICES ASSUME Undisturbed' PROVE OInv'
    BY DEF OInv
  <1> DEFINE e == Plain'
  <1>1. /\ drain.pc = "settle" /\ UNCHANGED <<files, dirs, ops, remote>> /\ drain'.pc = "idle"
        /\ past' = [past EXCEPT !.unheard = @ \cup {drain.op.kind}]
    BY DEF Crash, Ends, Rest
  <1>2. OutsideOK
    BY DEF IInv, TypeOK
  <1>3. /\ past'.meddled = past.meddled /\ past'.strays = past.strays
        /\ past'.unheard = past.unheard \cup {drain.op.kind}
    BY <1>1, <1>2 DEF OutsideOK, Kept
  <1>4. Undisturbed /\ past'.strays = {} /\ OwedBy(Store, Env)
    BY <1>3, Before, Owing
  <1>5. drain.op.kind = "upload"
    <2>1. drain.op.kind # "move-file"
      BY <1>3 DEF Undisturbed, Unheard
    <2> QED BY <1>1, <2>1, UnderWay DEF KindsAt
  <1>6. /\ e.files = Env.files /\ Env.moving = NoRow /\ e.moving = NoRow /\ e.known = Ids /\ e.dirs = Env.dirs
    BY <1>1, <1>3, <1>5 DEF Env, Plain, Settling, Unheard
  <1>7. Owed(files, dirs, Queued(Store), Env)
    BY <1>4 DEF OwedBy, Store
  <1> HIDE DEF e, Env, IInv
  <1>8. \A f \in FileIds : Bound(files[f]) => Env.files[files[f].remote] # NoFile
    BY <1>7 DEF Owed, NamedThere
  <1>9. \A f \in FileIds : f # NoRow
    BY NothingAssumption
  <1>10. Owed(files, dirs, Queued(Store), e)
    BY <1>6, <1>7, <1>8, <1>9, AnewOwed
  <1>11. OwedBy(Store, e) /\ Becomes(Store)
    BY <1>1, <1>10, StoreStays DEF OwedBy, Store
  <1> QED BY <1>1, <1>4, <1>11, Grounded DEF e

LEMMA GiveBackOwes ==
  ASSUME IInv, OInv, GiveBack PROVE OInv'
  <1> SUFFICES ASSUME Undisturbed' PROVE OInv'
    BY DEF OInv
  <1> DEFINE s == ResetAttempts(Store)
  <1>1. drain.pc = "idle" /\ StoreIs(s) /\ UNCHANGED <<remote, drain, past>>
    BY DEF GiveBack
  <1>2. Undisturbed /\ past'.strays = {}
    BY <1>1, Before, Owing
  <1>3. OwedBy(Store, Plain) /\ Plain' = Plain /\ Store \in Stores
    BY <1>1, <1>2, PlainOwed, PlainStays, WhatHolds
  <1> HIDE DEF IInv, Plain
  <1>4. OwedStill(Store, s, Plain)
    BY <1>3, CountedStill
  <1>5. Becomes(s) /\ OwedBy(s, Plain')
    BY <1>1, <1>3, <1>4, StoreIsOne DEF OwedStill
  <1> QED BY <1>1, <1>2, <1>5, Grounded

LEMMA StartOwes ==
  ASSUME IInv, OInv, Start PROVE OInv'
  <1> SUFFICES ASSUME Undisturbed' PROVE OInv'
    BY DEF OInv
  <1>1. /\ drain.pc = "idle" /\ UNCHANGED <<files, dirs, ops, remote, past>>
        /\ \E todo, read : drain' = [Rest EXCEPT !.pc = "turn", !.todo = todo, !.read = read]
    BY DEF Start
  <1>2. drain'.pc = "turn"
    BY <1>1 DEF Rest
  <1>3. Undisturbed /\ past'.strays = {}
    BY <1>1, Before, Owing
  <1> HIDE DEF IInv
  <1> QED BY <1>1, <1>2, <1>3, NothingDone

-----------------------------------------------------------------------------
(* The user, and the other devices.                                          *)

\* One act of the user.
LEMMA ActOwes ==
  ASSUME IInv, OInv, Undisturbed', NEW what, Act(what), NEW s, StoreIs(s), NEW l, Left(l),
         OwedBy(Store, Env) => OwedStill(Store, s, Env)
  PROVE  OInv'
  <1>1. Becomes(s) /\ UNCHANGED <<remote, drain>>
    BY StoreIsOne DEF Act
  <1>2. OutsideOK
    BY DEF IInv, TypeOK
  <1>3. past'.meddled = past.meddled /\ past'.unheard = past.unheard /\ past'.strays = past.strays
    BY <1>2 DEF OutsideOK, Left, Kept
  <1>4. past'.strays = {} /\ OwedBy(Store, Env) /\ AsRead /\ Answered /\ ItsOwn
    BY <1>3, Before, Owing
  <1>5. OwedBy(s, Env) /\ LikeFrom(Queued(Store), Queued(s), drain.read)
    BY <1>4, WhatHolds DEF OwedStill
  <1>6. Env' = Env
    BY <1>1, <1>3 DEF Env, Plain, Settling, Unheard
  <1>7. Store'.files = s.files /\ Store'.dirs = s.dirs /\ Queued(Store') = Queued(s)
    BY <1>1 DEF Becomes, Store, Queued
  <1>8. OwedBy(Store, Env)'
    BY <1>5, <1>6, <1>7 DEF OwedBy
  <1>9. AsRead'
    <2> SUFFICES ASSUME Flight, NEW o \in Queued(s), o.tag = drain.op.tag PROVE Like(drain.op, o)
      BY <1>1, <1>7 DEF AsRead, Flight
    <2>1. drain.op.tag \in drain.read
      BY UnderWay, HeadRead DEF Flight
    <2>2. PICK p \in Queued(Store) : Like(p, o)
      BY <1>5, <2>1 DEF LikeFrom
    <2>3. Like(drain.op, p)
      BY <1>4, <2>2 DEF AsRead, Like
    <2> QED BY <2>2, <2>3, LikeTrans
  <1>10. Answered' /\ ItsOwn'
    BY <1>1, <1>3, <1>4 DEF Answered, ItsOwn, Settling, Unheard
  <1> QED BY <1>4, <1>8, <1>9, <1>10 DEF OInv

\* Every act of the user.
LEMMA UserOwes ==
  ASSUME IInv, OInv, User PROVE OInv'
  <1> SUFFICES ASSUME Undisturbed' PROVE OInv'
    BY DEF OInv
  <1>1. /\ Store \in Stores /\ StoreOK(Store, HereOrTaken, remote.made) /\ HereOrTaken \in SUBSET Ids
        /\ \A r \in HereOrTaken : r <= remote.made
        /\ Store.files = files /\ Store.dirs = dirs /\ Store.ops = ops
    BY WhatHolds
  <1> HIDE DEF IInv, Env
  <1>2. ASSUME NEW d \in Folders, UserAdds(d) PROVE OInv'
    <2>1. PICK f \in NewFile : StoreIs(AddFile(Store, f, d))
      BY <1>2 DEF UserAdds
    <2>2. f \in FileIds /\ Store.files[f] = NoRow /\ \A o \in Queued(Store) : o.file # f
      BY <1>1, <2>1 DEF NewFile
    <2>3. OwedBy(Store, Env) => OwedStill(Store, AddFile(Store, f, d), Env)
      BY <1>1, <2>2, AddFileStill
    <2>4. Act("add") /\ Left(past.left)
      BY <1>2 DEF UserAdds
    <2> QED BY <2>1, <2>3, <2>4, ActOwes
  <1>3. ASSUME NEW f \in FileIds, NEW d \in Folders, UserCopies(f, d) PROVE OInv'
    <2>1. PICK g \in NewFile : StoreIs(CopyFileTo(Store, f, g, d))
      BY <1>3 DEF UserCopies
    <2>2. g \in FileIds /\ Store.files[g] = NoRow /\ \A o \in Queued(Store) : o.file # g
      BY <1>1, <2>1 DEF NewFile
    <2>3. Store.files[f] # NoRow
      BY <1>1, <1>3 DEF UserCopies
    <2>4. OwedBy(Store, Env) => OwedStill(Store, CopyFileTo(Store, f, g, d), Env)
      BY <1>1, <2>2, <2>3, CopyFileStill
    <2>5. Act("copy") /\ Left(past.left)
      BY <1>3 DEF UserCopies
    <2> QED BY <2>1, <2>4, <2>5, ActOwes
  <1>4. ASSUME NEW f \in FileIds, NEW d \in Folders, UserMoves(f, d) PROVE OInv'
    <2>1. Act("move") /\ files[f] # NoRow /\ StoreIs(MoveFileTo(Store, f, d)) /\ Left(past.left)
      BY <1>4 DEF UserMoves
    <2>2. OwedBy(Store, Env) => OwedStill(Store, MoveFileTo(Store, f, d), Env)
      BY <1>1, <2>1, MoveFileStill
    <2> QED BY <2>1, <2>2, ActOwes
  <1>5. ASSUME NEW f \in FileIds, UserDrops(f) PROVE OInv'
    <2>1. Act("drop") /\ files[f] # NoRow /\ StoreIs(DropFile(Store, f)) /\ Left(past.left)
      BY <1>5 DEF UserDrops
    <2>2. OwedBy(Store, Env) => OwedStill(Store, DropFile(Store, f), Env)
      BY <1>1, <2>1, DropFileStill
    <2> QED BY <2>1, <2>2, ActOwes
  <1>6. ASSUME NEW d \in Notebooks, UserCreates(d) PROVE OInv'
    <2> DEFINE l == {x \in past.left : x[1] # d}
    <2>1. Act("create") /\ StoreIs(CreateFolder(Store, d)) /\ Left(l)
      BY <1>6 DEF UserCreates
    <2> HIDE DEF l
    <2>2. OwedBy(Store, Env) => OwedStill(Store, CreateFolder(Store, d), Env)
      BY <1>1, CreateFolderStill
    <2> QED BY <2>1, <2>2, ActOwes
  <1>7. ASSUME NEW d \in Notebooks, UserDeletes(d) PROVE OInv'
    <2> DEFINE l == past.left \cup LetsGo(d)
    <2>1. Act("delete") /\ dirs[d] # NoRow /\ StoreIs(DeleteFolder(Store, d)) /\ Left(l)
      BY <1>7 DEF UserDeletes
    <2> HIDE DEF l
    <2>2. OwedBy(Store, Env) => OwedStill(Store, DeleteFolder(Store, d), Env)
      BY <1>1, <2>1, DeleteFolderStill
    <2> QED BY <2>1, <2>2, ActOwes
  <1>8. ASSUME NEW d \in Notebooks, NEW c \in Notebooks, UserRenames(d, c) PROVE OInv'
    <2> DEFINE l == {x \in past.left : x[1] # c} \cup LetsGo(d)
    <2>1. /\ Act("rename") /\ dirs[d] # NoRow /\ dirs[c] = NoRow
          /\ StoreIs(RenameFolder(Store, d, c)) /\ Left(l)
      BY <1>8 DEF UserRenames
    <2> HIDE DEF l
    <2>2. OwedBy(Store, Env) => OwedStill(Store, RenameFolder(Store, d, c), Env)
      BY <1>1, <2>1, RenameFolderStill
    <2> QED BY <2>1, <2>2, ActOwes
  <1> QED BY <1>2, <1>3, <1>4, <1>5, <1>6, <1>7, <1>8 DEF User

LEMMA OthersOwe ==
  ASSUME IInv, Others PROVE OInv'
  <1>1. OutsideOK
    BY DEF IInv, TypeOK
  <1>2. ASSUME NEW d \in Folders, NEW ours \in BOOLEAN, OtherAdds(Path(d, 0), ours) PROVE past'.meddled
    BY <1>1, <1>2 DEF OtherAdds, OutsideOK, Kept
  <1>3. ASSUME NEW i \in Ids, OtherDeletes(i) PROVE past'.meddled
    BY <1>1, <1>3 DEF OtherDeletes, OutsideOK, Kept
  <1> QED BY <1>2, <1>3 DEF Others, OInv, Undisturbed

-----------------------------------------------------------------------------
(* The invariant holds, and what follows.                                    *)

LEMMA OwedFirst == Init => OInv
  <1> SUFFICES ASSUME Init PROVE OInv
    OBVIOUS
  <1> DEFINE d == CHOOSE d \in Notebooks : TRUE
             at == Path(d, 0)
  <1>1. PICK held \in BOOLEAN :
          /\ files = [g \in FileIds |-> IF g = 1 THEN [at |-> at, remote |-> 1, held |-> held] ELSE NoRow]
          /\ dirs = [c \in Notebooks |-> IF c = d THEN 1 ELSE NoRow]
          /\ remote = [files |-> [i \in Ids |-> IF i = 1 THEN [at |-> at, ours |-> TRUE] ELSE NoFile],
                       dirs |-> [c \in Notebooks |-> [here |-> c = d, id |-> IF c = d THEN 1 ELSE 0]],
                       made |-> 1]
    BY DEF Init
  <1>2. ops = <<>> /\ drain.pc = "idle" /\ past.strays = {} /\ past.unheard = {}
    BY DEF Init, Rest
  <1>3. 1 \in FileIds /\ 1 \in Ids /\ 1 # NoFile
    BY FilePushAssumption, NothingAssumption DEF FileIds, Ids
  <1>4. d \in Notebooks
    BY FilePushAssumption DEF Notebooks
  <1>5. [at |-> at, ours |-> TRUE] \in Entries /\ [at |-> at, remote |-> 1, held |-> held] \in Rows
    <2>1. at \in Paths
      BY <1>4 DEF Path, Paths, Notebooks
    <2> HIDE DEF at
    <2> QED BY <1>3, <2>1 DEF Entries, Rows
  <1> HIDE DEF d, at
  <1>6. /\ \A f \in FileIds : files[f] # NoRow => f = 1
        /\ files[1] # NoRow /\ files[1].remote = 1 /\ files[1].at = at
    BY <1>1, <1>3, <1>5, NothingAssumption
  <1>7. /\ \A r \in Ids : remote.files[r] # NoFile => r = 1
        /\ remote.files[1] # NoFile /\ remote.files[1].at = at
    BY <1>1, <1>3, <1>5, NothingAssumption
  <1>8. \A c \in Notebooks : dirs[c] # NoRow => remote.dirs[c].here
    BY <1>1
  <1>9. Env.files = remote.files /\ Env.dirs = {c \in Notebooks : remote.dirs[c].here}
    BY <1>2 DEF Env, Plain, Settling
  <1>10. Queued(Store) = {} /\ Store.files = files /\ Store.dirs = dirs
    BY <1>2 DEF Queued, Store
  <1> HIDE DEF Env
  <1>11. SendsOwed(files, {}) /\ MovesMeant(files, {}) /\ OneMove({}) /\ NamedThere(files, Env)
    BY <1>3, <1>6, <1>7, <1>9 DEF SendsOwed, MovesMeant, OneMove, NamedThere, Bound
  <1>12. Standing(files, {}, Env) /\ Accounted(files, {}, Env) /\ DirsOwed(dirs, {}, Env)
    BY <1>3, <1>6, <1>7, <1>8, <1>9 DEF Standing, Accounted, DirsOwed, Bound, BoundTo
  <1>13. OwedBy(Store, Env)
    BY <1>10, <1>11, <1>12 DEF OwedBy, Owed
  <1>14. AsRead /\ Answered /\ ItsOwn
    BY <1>2 DEF AsRead, Flight, Answered, ItsOwn, Settling
  <1> QED BY <1>2, <1>13, <1>14 DEF OInv

LEMMA DrainOwes ==
  ASSUME IInv, OInv, Drain PROVE OInv'
  <1> HIDE DEF IInv, OInv
  <1>1. CASE DrainEnds \/ PassOver \/ HoldBack
    BY <1>1, DrainEndsOwes
  <1>2. CASE OutOfAttempts
    BY <1>2, OutOfAttemptsOwes
  <1>3. CASE BeginUpload
    BY <1>3, BeginUploadOwes
  <1>4. CASE BeginMove
    BY <1>4, BeginMoveOwes
  <1>5. CASE BeginDelete \/ BeginMkdir
    BY <1>5, BeginOthersOwes
  <1>6. CASE BeginRmdir
    BY <1>6, BeginRmdirOwes
  <1>7. CASE Fetched
    BY <1>7, FetchedOwes
  <1>8. CASE SentTo
    BY <1>8, SentToOwes
  <1>9. CASE MoveLanded
    BY <1>9, MoveLandedOwes
  <1>10. CASE Met
    BY <1>10, MetOwes
  <1>11. CASE Settle
    BY <1>11, SettleOwes
  <1>12. CASE Removed \/ RemovedDir
    BY <1>12, RemovedOwes
  <1>13. CASE Look
    BY <1>13, LookOwes
  <1>14. CASE MadeDir
    BY <1>14, MadeDirOwes
  <1> QED BY <1>1, <1>2, <1>3, <1>4, <1>5, <1>6, <1>7, <1>8, <1>9, <1>10, <1>11, <1>12, <1>13, <1>14
          DEF Drain

LEMMA OwedNext == IInv /\ OInv /\ [Next]_vars => OInv'
  <1> SUFFICES ASSUME IInv, OInv, [Next]_vars PROVE OInv'
    OBVIOUS
  <1>1. CASE UNCHANGED vars
    BY <1>1 DEF vars, OInv, Undisturbed, Unheard, OwedBy, Env, Plain, Settling, AsRead, Answered, ItsOwn,
       Flight, Store, Queued
  <1> HIDE DEF IInv, OInv
  <1>2. CASE Start
    BY <1>2, StartOwes
  <1>3. CASE Drain
    BY <1>3, DrainOwes
  <1>4. CASE GiveBack
    BY <1>4, GiveBackOwes
  <1>5. CASE User
    BY <1>5, UserOwes
  <1>6. CASE Others
    BY <1>6, OthersOwe
  <1>7. CASE Failure
    BY <1>7, FailureOwes
  <1>8. CASE LostAnswer
    BY <1>8, LostAnswerOwes
  <1>9. CASE Stopped
    BY <1>9, StoppedOwes
  <1>10. CASE Crash
    BY <1>10, CrashOwes
  <1> QED BY <1>1, <1>2, <1>3, <1>4, <1>5, <1>6, <1>7, <1>8, <1>9, <1>10 DEF Next

\* With nothing owed there is nothing between the two sides.
LEMMA OwedNothing ==
  ASSUME IInv, OInv PROVE QuietAgree
  <1> SUFFICES ASSUME AtRest, ~past.meddled, "move-file" \notin past.unheard
               PROVE  /\ \A d \in Notebooks : dirs[d] # NoRow => remote.dirs[d].here
                      /\ \A f \in FileIds : files[f] # NoRow =>
                           /\ files[f].remote # NoFile
                           /\ remote.files[files[f].remote] # NoFile
                           /\ remote.files[files[f].remote].at = files[f].at
                      /\ "upload" \in past.unheard \/ \A i \in Ids : remote.files[i] # NoFile =>
                           \E f \in FileIds : files[f] # NoRow /\ files[f].remote = i
    BY DEF QuietAgree
  <1>1. drain.pc = "idle" /\ Queued(Store) = {} /\ Undisturbed
    BY DEF AtRest, Queued, Store, Undisturbed, Unheard
  <1>2. OwedBy(Store, Plain)
    BY <1>1, PlainOwed
  <1>3. Owed(files, dirs, {}, Plain)
    BY <1>1, <1>2 DEF OwedBy, Store
  <1>4. /\ Plain.files = remote.files /\ Plain.moving = NoRow
        /\ Plain.dirs = {d \in Notebooks : remote.dirs[d].here}
        /\ "upload" \notin past.unheard => Plain.known = {}
    BY DEF Plain, Unheard
  <1> HIDE DEF Plain, IInv
  <1>5. \A d \in Notebooks : dirs[d] # NoRow => remote.dirs[d].here
    BY <1>3, <1>4 DEF Owed, DirsOwed
  <1>6. ASSUME NEW f \in FileIds, files[f] # NoRow
        PROVE  /\ files[f].remote # NoFile /\ remote.files[files[f].remote] # NoFile
               /\ remote.files[files[f].remote].at = files[f].at
    <2>1. Bound(files[f])
      BY <1>3, <1>6 DEF Owed, SendsOwed
    <2>2. f # NoRow
      BY NothingAssumption
    <2> QED BY <1>3, <1>4, <2>1, <2>2 DEF Owed, NamedThere, Standing, Bound
  <1>7. "upload" \in past.unheard \/ \A i \in Ids : remote.files[i] # NoFile =>
          \E f \in FileIds : files[f] # NoRow /\ files[f].remote = i
    BY <1>3, <1>4 DEF Owed, Accounted, BoundTo
  <1> QED BY <1>5, <1>6, <1>7

\* With nothing owed and no other device about, every file here is on the
\* remote where it is here, and unless an answer was lost the remote has no
\* other; and every notebook here has its directory: what runPush and settle
\* make of the queue loses nothing the writers put in it, and owes nothing for
\* good.
THEOREM SidesAgree == Spec => []QuietAgree
  <1>1. Spec => []IInv
    BY Holds
  <1>2. Init => OInv
    BY OwedFirst
  <1>3. IInv /\ OInv /\ [Next]_vars => OInv'
    BY OwedNext
  <1>4. IInv /\ OInv => QuietAgree
    BY OwedNothing
  <1> QED BY <1>1, <1>2, <1>3, <1>4, PTL DEF Spec

-----------------------------------------------------------------------------
(* The directories that are to go.                                           *)

\* Ops that take a file out of its directory.
TakesOne == {"delete-file", "move-file"}
\* The same op, in the same place but for a move of F.
Alike(F, o, p) ==
  /\ p.tag = o.tag /\ p.kind = o.kind /\ p.file = o.file
  /\ p.at = o.at \/ MoveOf(p, F)
\* Of the rmdirs the run has read, each has ahead of it no more ops that take a
\* file than it had.
AheadFrom(q, p, kept, F) ==
  \A i, j \in DOMAIN p :
    i < j /\ p[i].kind \in TakesOne /\ p[j].kind = "rmdir" /\ p[j].tag \in kept =>
      \E k, l \in DOMAIN q : /\ k < l /\ Alike(F, q[k], p[i])
                             /\ q[l].kind = "rmdir" /\ q[l].tag = p[j].tag
\* And none is lost, but those of D.
RmdirsFrom(Q, P, D) ==
  \A o \in Q : o.kind = "rmdir" /\ o.at.dir \notin D =>
    \E p \in P : p.kind = "rmdir" /\ p.at.dir = o.at.dir /\ p.remote = o.remote
\* What a writer makes of a store, with the rmdirs as they were.
Tidied(st, F, D) ==
  {s \in Stores : /\ s.kept = st.kept
                  /\ AheadFrom(st.ops, s.ops, st.kept, F)
                  /\ RmdirsFrom(Queued(st), Queued(s), D)}

LEMMA TidyItself ==
  ASSUME NEW st \in Stores, NEW F, NEW D, NEW s \in Stores, s.ops = st.ops, s.kept = st.kept
  PROVE  s \in Tidied(st, F, D)
  <1>1. AheadFrom(st.ops, st.ops, st.kept, F)
    BY DEF AheadFrom, Alike
  <1>2. RmdirsFrom(Queued(st), Queued(s), D)
    BY DEF RmdirsFrom, Queued
  <1> QED BY <1>1, <1>2 DEF Tidied

LEMMA TidyTrans ==
  ASSUME NEW st, NEW F, NEW D, NEW s \in Tidied(st, F, D), NEW t \in Tidied(s, F, D)
  PROVE  t \in Tidied(st, F, D)
  <1>1. /\ s.kept = st.kept /\ AheadFrom(st.ops, s.ops, st.kept, F) /\ RmdirsFrom(Queued(st), Queued(s), D)
        /\ t.kept = s.kept /\ AheadFrom(s.ops, t.ops, st.kept, F) /\ RmdirsFrom(Queued(s), Queued(t), D)
        /\ t \in Stores
    BY DEF Tidied
  <1>2. AheadFrom(st.ops, t.ops, st.kept, F)
    <2> SUFFICES ASSUME NEW i \in DOMAIN t.ops, NEW j \in DOMAIN t.ops, i < j, t.ops[i].kind \in TakesOne,
                        t.ops[j].kind = "rmdir", t.ops[j].tag \in st.kept
                 PROVE  \E k, l \in DOMAIN st.ops :
                          /\ k < l /\ Alike(F, st.ops[k], t.ops[i])
                          /\ st.ops[l].kind = "rmdir" /\ st.ops[l].tag = t.ops[j].tag
      BY DEF AheadFrom
    <2>1. PICK k, l \in DOMAIN s.ops :
            /\ k < l /\ Alike(F, s.ops[k], t.ops[i])
            /\ s.ops[l].kind = "rmdir" /\ s.ops[l].tag = t.ops[j].tag
      BY <1>1 DEF AheadFrom
    <2>2. s.ops[k].kind \in TakesOne
      BY <2>1 DEF Alike
    <2>3. PICK a, b \in DOMAIN st.ops :
            /\ a < b /\ Alike(F, st.ops[a], s.ops[k])
            /\ st.ops[b].kind = "rmdir" /\ st.ops[b].tag = s.ops[l].tag
      BY <1>1, <2>1, <2>2 DEF AheadFrom
    <2>4. Alike(F, st.ops[a], t.ops[i])
      BY <2>1, <2>3 DEF Alike, MoveOf
    <2> QED BY <2>1, <2>3, <2>4
  <1>3. RmdirsFrom(Queued(st), Queued(t), D)
    <2> SUFFICES ASSUME NEW o \in Queued(st), o.kind = "rmdir", o.at.dir \notin D
                 PROVE  \E p \in Queued(t) : p.kind = "rmdir" /\ p.at.dir = o.at.dir /\ p.remote = o.remote
      BY DEF RmdirsFrom
    <2>1. PICK p \in Queued(s) : p.kind = "rmdir" /\ p.at.dir = o.at.dir /\ p.remote = o.remote
      BY <1>1 DEF RmdirsFrom
    <2> QED BY <1>1, <2>1 DEF RmdirsFrom
  <1> QED BY <1>1, <1>2, <1>3 DEF Tidied

\* What is withdrawn.
LEMMA TidyLess ==
  ASSUME NEW st \in Stores, NEW F, NEW D, NEW gone,
         \A o \in Queued(st) \cap gone : o.kind = "rmdir" => o.at.dir \in D
  PROVE  Withdraw(st, gone) \in Tidied(st, F, D)
  <1> DEFINE w == Withdraw(st, gone)
             I == {i \in DOMAIN st.ops : st.ops[i] \notin gone}
  <1>1. w \in Stores /\ w.kept = st.kept /\ Queued(w) = Queued(st) \ gone
    BY QueueLess
  <1>2. w.ops = Those(st.ops, I)
    BY DEF Withdraw, Stores
  <1>3. PICK g : Picks(st.ops, I \cap DOMAIN st.ops, Those(st.ops, I), g)
    BY StoreTyped, ThosePicked
  <1> HIDE DEF I, w
  <1>4. AheadFrom(st.ops, w.ops, st.kept, F)
    <2> SUFFICES ASSUME NEW i \in DOMAIN w.ops, NEW j \in DOMAIN w.ops, i < j,
                        w.ops[j].kind = "rmdir"
                 PROVE  \E k, l \in DOMAIN st.ops :
                          /\ k < l /\ Alike(F, st.ops[k], w.ops[i])
                          /\ st.ops[l].kind = "rmdir" /\ st.ops[l].tag = w.ops[j].tag
      BY DEF AheadFrom
    <2>1. /\ g[i] \in DOMAIN st.ops /\ g[j] \in DOMAIN st.ops /\ g[i] < g[j]
          /\ w.ops[i] = st.ops[g[i]] /\ w.ops[j] = st.ops[g[j]]
      BY <1>2, <1>3 DEF Picks
    <2> QED BY <2>1 DEF Alike
  <1>5. RmdirsFrom(Queued(st), Queued(w), D)
    BY <1>1 DEF RmdirsFrom
  <1> QED BY <1>1, <1>4, <1>5 DEF Tidied, w

\* What is queued.
LEMMA TidyMore ==
  ASSUME NEW st \in Stores, NEW F, NEW D, NEW op \in OwedOps
  PROVE  Add(st, op) \in Tidied(st, F, D)
  <1> DEFINE a == Add(st, op)
  <1>1. a \in Stores /\ a.kept = st.kept /\ Queued(st) \subseteq Queued(a)
    <2>1. \E p : Queued(a) = Queued(st) \cup {p}
      BY QueueMore
    <2> QED BY <2>1, QueueMore
  <1>2. PICK t \in Nat \ {0} :
              /\ a.ops = Append(st.ops, [op EXCEPT !.tag = t])
              /\ [op EXCEPT !.tag = t] \in OwedOps
              /\ t \notin st.kept
    BY AddIs
  <1> DEFINE p == [op EXCEPT !.tag = t]
  <1> HIDE DEF a
  <1>3. p.tag = t /\ p \in OwedOps
    BY <1>2 DEF OwedOps, QueuedOps
  <1> HIDE DEF p
  <1>4. /\ st.ops \in Seq(OwedOps) /\ a.ops = Append(st.ops, p)
    BY <1>2, StoreTyped DEF p
  <1>5. /\ DOMAIN st.ops = 1..Len(st.ops) /\ Len(st.ops) \in Nat
        /\ DOMAIN a.ops = 1..(Len(st.ops) + 1) /\ a.ops[Len(st.ops) + 1] = p
        /\ \A i \in 1..Len(st.ops) : a.ops[i] = st.ops[i]
    BY <1>3, <1>4
  <1>6. AheadFrom(st.ops, a.ops, st.kept, F)
    <2> SUFFICES ASSUME NEW i \in DOMAIN a.ops, NEW j \in DOMAIN a.ops, i < j,
                        a.ops[j].kind = "rmdir", a.ops[j].tag \in st.kept
                 PROVE  \E k, l \in DOMAIN st.ops :
                          /\ k < l /\ Alike(F, st.ops[k], a.ops[i])
                          /\ st.ops[l].kind = "rmdir" /\ st.ops[l].tag = a.ops[j].tag
      BY DEF AheadFrom
    <2>1. j # Len(st.ops) + 1
      BY <1>2, <1>3, <1>5
    <2>2. i \in DOMAIN st.ops /\ j \in DOMAIN st.ops /\ a.ops[i] = st.ops[i] /\ a.ops[j] = st.ops[j]
      BY <1>5, <2>1
    <2> QED BY <2>2 DEF Alike
  <1>7. RmdirsFrom(Queued(st), Queued(a), D)
    BY <1>1 DEF RmdirsFrom
  <1> QED BY <1>1, <1>6, <1>7 DEF Tidied, a

\* What is rewritten in place.
LEMMA TidyAnew ==
  ASSUME NEW st \in Stores, NEW F, NEW D, NEW s \in Stores, s.kept = st.kept,
         NEW n, s.ops = [i \in DOMAIN st.ops |-> n[st.ops[i]]],
         \A o \in Queued(st) : /\ n[o].tag = o.tag /\ n[o].kind = o.kind /\ n[o].file = o.file
                               /\ n[o].remote = o.remote
                               /\ o.kind # "upload" => n[o].at = o.at \/ MoveOf(o, F)
  PROVE  s \in Tidied(st, F, D)
  <1>1. DOMAIN s.ops = DOMAIN st.ops /\ \A i \in DOMAIN st.ops : s.ops[i] = n[st.ops[i]] /\ st.ops[i] \in Queued(st)
    BY DEF Queued
  <1>2. ASSUME NEW i \in DOMAIN s.ops, s.ops[i].kind \in TakesOne PROVE Alike(F, st.ops[i], s.ops[i])
    BY <1>1, <1>2 DEF Alike, MoveOf, TakesOne
  <1>3. AheadFrom(st.ops, s.ops, st.kept, F)
    <2>1. \A j \in DOMAIN s.ops : s.ops[j].kind = st.ops[j].kind /\ s.ops[j].tag = st.ops[j].tag
      BY <1>1
    <2> SUFFICES ASSUME NEW i \in DOMAIN s.ops, NEW j \in DOMAIN s.ops, i < j, s.ops[i].kind \in TakesOne,
                        s.ops[j].kind = "rmdir"
                 PROVE  \E k, l \in DOMAIN st.ops :
                          /\ k < l /\ Alike(F, st.ops[k], s.ops[i])
                          /\ st.ops[l].kind = "rmdir" /\ st.ops[l].tag = s.ops[j].tag
      BY DEF AheadFrom
    <2> QED BY <1>1, <1>2, <2>1
  <1>4. RmdirsFrom(Queued(st), Queued(s), D)
    <2> SUFFICES ASSUME NEW o \in Queued(st), o.kind = "rmdir"
                 PROVE  \E p \in Queued(s) : p.kind = "rmdir" /\ p.at.dir = o.at.dir /\ p.remote = o.remote
      BY DEF RmdirsFrom
    <2>1. PICK i \in DOMAIN st.ops : o = st.ops[i]
      BY DEF Queued
    <2>2. s.ops[i] \in Queued(s) /\ s.ops[i] = n[o]
      BY <1>1, <2>1 DEF Queued
    <2>3. n[o].at = o.at
      BY DEF MoveOf
    <2> QED BY <2>2, <2>3
  <1> QED BY <1>3, <1>4 DEF Tidied

\* A row put.
LEMMA PutIs ==
  ASSUME NEW st \in Stores, NEW f \in FileIds, NEW row \in Rows \cup {NoRow}
  PROVE  LET s == PutFile(st, f, row)
         IN  /\ s \in Stores /\ s.ops = st.ops /\ s.dirs = st.dirs /\ s.kept = st.kept
             /\ s.files[f] = row /\ \A g \in FileIds \ {f} : s.files[g] = st.files[g]
             /\ Queued(s) = Queued(st)
             /\ \A F, D : s \in Tidied(st, F, D)
  <1> DEFINE s == PutFile(st, f, row)
  <1>1. /\ s \in Stores /\ s.ops = st.ops /\ s.dirs = st.dirs /\ s.kept = st.kept
        /\ s.files[f] = row /\ \A g \in FileIds \ {f} : s.files[g] = st.files[g]
    BY DEF PutFile, Stores
  <1> HIDE DEF s
  <1>2. \A F, D : s \in Tidied(st, F, D)
    BY <1>1, TidyItself
  <1> QED BY <1>1, <1>2 DEF Queued, s
-----------------------------------------------------------------------------
(* The writers.                                                              *)

\* queueMoveFile: moves are withdrawn, one is queued, an upload follows.
LEMMA QueueMoveTidy ==
  ASSUME NEW st \in Stores, NEW F, NEW D, NEW f \in FileIds, st.files[f] # NoRow, NEW from \in Paths
  PROVE  LET s == QueueMoveFile(st, f, from)
         IN  s \in Tidied(st, F, D) /\ s.files = st.files /\ s.dirs = st.dirs
  <1> DEFINE s == QueueMoveFile(st, f, from)
             at == st.files[f].at
             moves == MovesOf(st, f)
             ups == UploadsOf(st, f)
             origin == IF moves = {} THEN from ELSE (CHOOSE o \in moves : TRUE).at
             rest == Withdraw(st, moves)
             new == MoveOp(f, origin, at)
             Q == Queued(st)
             n == [o \in Q |-> IF o \in ups THEN [o EXCEPT !.at = at, !.to = at] ELSE o]
             r == [st EXCEPT !.ops = [i \in DOMAIN st.ops |-> n[st.ops[i]]]]
  <1>1. at \in Paths /\ Q \in SUBSET OwedOps
    BY StoreTyped, QueueTyped DEF Rows
  <1>2. \A o \in moves : o \in Q /\ o.kind = "move-file" /\ o.at \in Paths
    BY <1>1 DEF MovesOf, OpsForFile, OwedOps, QueuedOps
  <1>3. \A o \in ups : o \in Q /\ o.kind = "upload"
    BY DEF UploadsOf, OpsForFile
  <1>4. origin \in Paths
    <2>1. moves # {} => origin \in {o.at : o \in moves}
      OBVIOUS
    <2>2. moves = {} => origin = from
      OBVIOUS
    <2> HIDE DEF moves, origin
    <2> QED BY <1>2, <2>1, <2>2
  <1>5. s \in {r, st, rest, Add(rest, new)}
    <2>1. \A i \in DOMAIN st.ops : st.ops[i] \in Q
      BY DEF Queued
    <2>2. r = Rewrite(st, LAMBDA o : IF o \in UploadsOf(st, f)
                                  THEN [o EXCEPT !.at = at, !.to = at] ELSE o)
      <3> HIDE DEF Q, at
      <3> QED BY <2>1 DEF Rewrite
    <2> HIDE DEF r
    <2> QED BY <2>2 DEF QueueMoveFile
  <1>6. new \in OwedOps
    <2> HIDE DEF origin, at
    <2> QED BY <1>1, <1>4 DEF MoveOp, Op, OwedOps, OpOK, QueuedOps, Kinds
  <1>7. \A o \in Q : /\ n[o] \in OwedOps /\ n[o].tag = o.tag /\ n[o].kind = o.kind /\ n[o].file = o.file
                     /\ n[o].remote = o.remote /\ (o.kind # "upload" => n[o].at = o.at)
    <2> SUFFICES ASSUME NEW o \in Q
                 PROVE  /\ n[o] \in OwedOps /\ n[o].tag = o.tag /\ n[o].kind = o.kind /\ n[o].file = o.file
                        /\ n[o].remote = o.remote /\ (o.kind # "upload" => n[o].at = o.at)
      OBVIOUS
    <2>1. o \in OwedOps
      BY <1>1
    <2>2. CASE o \in ups
      <3>1. n[o] = [o EXCEPT !.at = at, !.to = at] /\ o.kind = "upload"
        BY <1>3, <2>2
      <3> HIDE DEF n, at
      <3> QED BY <1>1, <2>1, <3>1 DEF OwedOps, QueuedOps, OpOK
    <2>3. CASE o \notin ups
      <3>1. n[o] = o
        BY <2>3
      <3> HIDE DEF n
      <3> QED BY <2>1, <3>1
    <2> QED BY <2>2, <2>3
  <1> HIDE DEF new, origin, at, n
  <1>8. r \in Tidied(st, F, D) /\ r.files = st.files /\ r.dirs = st.dirs
    <2> DEFINE q == [i \in DOMAIN st.ops |-> n[st.ops[i]]]
    <2>1. \A i \in DOMAIN st.ops : st.ops[i] \in Q
      BY DEF Queued
    <2>2. st.ops \in Seq(OwedOps)
      BY StoreTyped
    <2>3. q \in Seq(OwedOps)
      <3>1. q \in [1..Len(st.ops) -> OwedOps] /\ Len(st.ops) \in Nat
        BY <1>7, <2>1, <2>2
      <3> HIDE DEF q
      <3> QED BY <3>1
    <2>4. r = [st EXCEPT !.ops = q]
      OBVIOUS
    <2> HIDE DEF q, r
    <2>5. r \in Stores /\ r.files = st.files /\ r.dirs = st.dirs /\ r.kept = st.kept /\ r.ops = q
      BY <2>3, <2>4 DEF Stores
    <2> QED BY <1>7, <2>5, TidyAnew DEF q
  <1>9. rest \in Tidied(st, F, D) /\ rest.files = st.files /\ rest.dirs = st.dirs /\ rest \in Stores
    BY <1>2, TidyLess, QueueLess
  <1> HIDE DEF r, rest, s
  <1>10. /\ Add(rest, new) \in Tidied(st, F, D)
         /\ Add(rest, new).files = st.files /\ Add(rest, new).dirs = st.dirs
    <2>1. /\ Add(rest, new) \in Tidied(rest, F, D)
          /\ Add(rest, new).files = rest.files /\ Add(rest, new).dirs = rest.dirs
      BY <1>6, <1>9, TidyMore, QueueMore
    <2> QED BY <1>9, <2>1, TidyTrans
  <1>11. st \in Tidied(st, F, D)
    BY TidyItself
  <1> QED BY <1>5, <1>8, <1>9, <1>10, <1>11 DEF s

\* moveFileTo.
LEMMA MoveFileTidy ==
  ASSUME NEW st \in Stores, NEW F, NEW D, NEW f \in FileIds, st.files[f] # NoRow, NEW d \in Folders
  PROVE  LET s == MoveFileTo(st, f, d)
         IN  /\ s \in Tidied(st, F, D) /\ s.dirs = st.dirs
             /\ s.files[f] # NoRow /\ s.files[f].at.dir = d
             /\ \A g \in FileIds \ {f} : s.files[g] = st.files[g]
  <1> DEFINE row == [st.files[f] EXCEPT !.at.dir = d]
             u == PutFile(st, f, row)
             from == st.files[f].at
  <1>1. st.files[f] \in Rows /\ from \in Paths
    BY StoreTyped DEF Rows
  <1>2. row \in Rows /\ row # NoRow /\ row.at.dir = d
    <2>1. row \in Rows /\ row.at.dir = d
      BY <1>1 DEF Rows, Paths
    <2> QED BY <2>1, NothingAssumption
  <1>3. MoveFileTo(st, f, d) = QueueMoveFile(u, f, from)
    BY DEF MoveFileTo
  <1> HIDE DEF row, from
  <1>4. /\ u \in Stores /\ u.dirs = st.dirs
        /\ u.files[f] = row /\ \A g \in FileIds \ {f} : u.files[g] = st.files[g]
        /\ u \in Tidied(st, F, D)
    BY <1>2, PutIs
  <1> HIDE DEF u
  <1>5. /\ QueueMoveFile(u, f, from) \in Tidied(u, F, D)
        /\ QueueMoveFile(u, f, from).files = u.files /\ QueueMoveFile(u, f, from).dirs = u.dirs
    BY <1>1, <1>2, <1>4, QueueMoveTidy
  <1> QED BY <1>2, <1>3, <1>4, <1>5, TidyTrans

\* handOverToCopies.
LEMMA HandOverTidy ==
  ASSUME NEW st \in Stores, NEW A, NEW m, StoreOK(st, A, m), NEW F, NEW D, NEW f \in FileIds, st.files[f] # NoRow
  PROVE  LET s == HandOver(st, f)
         IN  s \in Tidied(st, F, D) /\ s.dirs = st.dirs /\ SameRows(st.files, s.files)
  <1> DEFINE row == st.files[f]
             copies == {o \in Queued(st) : o.kind = "upload" /\ o.copyOf = row.remote}
             has(g, r) == IF r # NoRow /\ \E o \in copies : o.file = g
                          THEN [r EXCEPT !.held = TRUE] ELSE r
             n == [o \in Queued(st) |-> IF o \in copies THEN [o EXCEPT !.copyOf = NoFile] ELSE o]
             ops2 == [i \in DOMAIN st.ops |-> n[st.ops[i]]]
             rows == [g \in FileIds |-> has(g, st.files[g])]
             s == HandOver(st, f)
  <1>0. s \in Stores /\ s.dirs = st.dirs /\ s.kept = st.kept
    BY HandOverOK DEF FineForUser, Fine
  <1>1. CASE row.remote = NoFile \/ ~row.held
    <2>1. s = st
      BY <1>1 DEF HandOver
    <2> QED BY <2>1, TidyItself DEF SameRows
  <1>2. CASE ~(row.remote = NoFile \/ ~row.held)
    <2>1. s.ops = ops2 /\ s.files = rows
      <3>1. DOMAIN st.files = FileIds
        BY StoreTyped
      <3>2. s = [Rewrite(st, LAMBDA o : IF o \in copies THEN [o EXCEPT !.copyOf = NoFile] ELSE o)
                                EXCEPT !.files = [g \in DOMAIN @ |-> has(g, @[g])]]
        BY <1>2 DEF HandOver
      <3>3. \A i \in DOMAIN st.ops : st.ops[i] \in Queued(st)
        BY DEF Queued
      <3>4. ops2 = [i \in DOMAIN st.ops |-> IF st.ops[i] \in copies
                                            THEN [st.ops[i] EXCEPT !.copyOf = NoFile] ELSE st.ops[i]]
        <4> HIDE DEF copies
        <4> QED BY <3>3
      <3> HIDE DEF n, ops2, copies, s
      <3> QED BY <3>1, <3>2, <3>4 DEF Rewrite, Stores
    <2>2. \A o \in Queued(st) : /\ n[o].tag = o.tag /\ n[o].kind = o.kind /\ n[o].file = o.file
                                /\ n[o].remote = o.remote /\ n[o].at = o.at
      <3> SUFFICES ASSUME NEW o \in Queued(st)
                   PROVE  /\ n[o].tag = o.tag /\ n[o].kind = o.kind /\ n[o].file = o.file
                          /\ n[o].remote = o.remote /\ n[o].at = o.at
        OBVIOUS
      <3>1. o \in QueuedOps
        BY QueueTyped DEF OwedOps
      <3>2. n[o] \in {[o EXCEPT !.copyOf = NoFile], o}
        OBVIOUS
      <3> HIDE DEF n
      <3> QED BY <3>1, <3>2 DEF QueuedOps
    <2>3. ASSUME NEW g \in FileIds
          PROVE  /\ st.files[g] # NoRow <=> rows[g] # NoRow
                 /\ st.files[g] # NoRow => rows[g].at = st.files[g].at /\ rows[g].remote = st.files[g].remote
      <3>1. rows[g] \in {[st.files[g] EXCEPT !.held = TRUE], st.files[g]}
            /\ (st.files[g] = NoRow => rows[g] = NoRow)
        OBVIOUS
      <3> HIDE DEF rows
      <3>2. CASE st.files[g] = NoRow
        BY <3>1, <3>2
      <3>3. CASE st.files[g] # NoRow
        <4>1. st.files[g] \in Rows
          BY <3>3, StoreTyped
        <4>2. rows[g] \in Rows /\ rows[g].at = st.files[g].at /\ rows[g].remote = st.files[g].remote
          BY <3>1, <4>1 DEF Rows
        <4> QED BY <3>3, <4>2, NothingAssumption
      <3> QED BY <3>2, <3>3
    <2> HIDE DEF n, rows, s
    <2>4. SameRows(st.files, s.files)
      BY <2>1, <2>3 DEF SameRows
    <2> QED BY <1>0, <2>1, <2>2, <2>4, TidyAnew DEF s
  <1> QED BY <1>1, <1>2

\* Let go.
LEMMA DropFileTidy ==
  ASSUME NEW st \in Stores, NEW A, NEW m, StoreOK(st, A, m), NEW F, NEW D, NEW f \in FileIds, st.files[f] # NoRow
  PROVE  LET s == DropFile(st, f)
         IN  /\ s \in Tidied(st, F, D) /\ s.dirs = st.dirs /\ s.files[f] = NoRow
             /\ \A g \in FileIds \ {f} :
                  /\ st.files[g] # NoRow <=> s.files[g] # NoRow
                  /\ s.files[g] # NoRow => s.files[g].at = st.files[g].at
  <1> DEFINE h == HandOver(st, f)
             moves == MovesOf(h, f)
             at == IF moves = {} THEN h.files[f].at ELSE (CHOOSE o \in moves : TRUE).at
             gone == moves \cup UploadsOf(h, f)
             rest == Withdraw(h, gone)
             op == DeleteOp(at, h.files[f].remote)
             t == QueueDeleteFile(h, f)
             s == DropFile(st, f)
  <1>1. /\ h \in Tidied(st, F, D) /\ h.dirs = st.dirs /\ SameRows(st.files, h.files) /\ h.files[f] # NoRow
        /\ h \in Stores
    BY HandOverTidy DEF SameRows, Tidied
  <1> HIDE DEF h
  <1>2. \A o \in gone : o.kind # "rmdir"
    BY DEF UploadsOf, MovesOf
  <1>3. h.files[f] \in Rows
    BY <1>1, StoreTyped
  <1>4. at \in Paths
    <2>1. moves # {} => at \in {o.at : o \in moves}
      OBVIOUS
    <2>2. \A o \in moves : o.at \in Paths
      BY <1>1, OpsOfTyped DEF OwedOps, QueuedOps
    <2>3. moves = {} => at = h.files[f].at
      OBVIOUS
    <2> HIDE DEF moves, at
    <2> QED BY <1>3, <2>1, <2>2, <2>3 DEF Rows
  <1>5. t = IF h.files[f].remote = NoFile THEN rest ELSE Add(rest, op)
    BY DEF QueueDeleteFile
  <1> HIDE DEF gone, at, moves
  <1>6. rest \in Tidied(h, F, D) /\ rest \in Stores /\ rest.files = h.files /\ rest.dirs = h.dirs
    BY <1>1, <1>2, TidyLess, QueueLess
  <1>7. h.files[f].remote # NoFile => op \in OwedOps
    <2>1. h.files[f].remote # NoFile => h.files[f].remote \in Ids
      BY <1>3 DEF Rows
    <2> QED BY <1>4, <2>1 DEF DeleteOp, Op, OwedOps, OpOK, QueuedOps, Kinds, Ids
  <1> HIDE DEF rest, op, t
  <1>8. t \in Tidied(rest, F, D) /\ t.files = rest.files /\ t.dirs = rest.dirs
    BY <1>5, <1>6, <1>7, TidyItself, TidyMore, QueueMore
  <1>9. t \in Tidied(st, F, D) /\ t \in Stores
    BY <1>1, <1>6, <1>8, TidyTrans DEF Tidied
  <1>10. s = PutFile(t, f, NoRow)
    BY DEF DropFile, t, h
  <1> HIDE DEF s
  <1>11. /\ s \in Tidied(t, F, D) /\ s.dirs = t.dirs /\ s.files[f] = NoRow
         /\ \A g \in FileIds \ {f} : s.files[g] = t.files[g]
    BY <1>9, <1>10, PutIs
  <1>12. s \in Tidied(st, F, D)
    BY <1>9, <1>11, TidyTrans
  <1> QED BY <1>1, <1>6, <1>8, <1>11, <1>12 DEF s, SameRows

\* None of these is missing.
AllHere(st, fs) == \A f \in fs : f \in FileIds => st.files[f] # NoRow
\* What is left without them.
LeftWithout(rows, rows2, fs) ==
  \A f \in FileIds : rows2[f] # NoRow => f \notin fs /\ rows[f] # NoRow /\ rows2[f].at = rows[f].at

\* All of a notebook's, one after the other.
LEMMA DropFilesTidy ==
  ASSUME NEW st \in Stores, NEW A \in SUBSET Ids, NEW m, \A r \in A : r <= m, StoreOK(st, A, m),
         NEW F, NEW D, NEW fs, AllHere(st, fs)
  PROVE  LET s == DropFiles(st, fs)
         IN  s \in Tidied(st, F, D) /\ s.dirs = st.dirs /\ LeftWithout(st.files, s.files, fs)
  <1> USE DEF AllHere
  <1> DEFINE G == Reached(st, A, m) \cap Tidied(st, F, D)
             Same(s, f) == /\ st.files[f] # NoRow <=> s.files[f] # NoRow
                           /\ s.files[f] # NoRow => s.files[f].at = st.files[f].at
             T == [i \in 0..MaxFiles |->
                     {s \in G : \A f \in FileIds : IF f \in fs /\ f <= i THEN s.files[f] = NoRow ELSE Same(s, f)}]
  <1>0. MaxFiles \in Nat \ {0} /\ FileIds = 1..MaxFiles
    BY FilePushAssumption DEF FileIds
  <1>1. \A i \in 0..MaxFiles : T[i] =
          {s \in G : \A f \in FileIds : IF f \in fs /\ f <= i THEN s.files[f] = NoRow ELSE Same(s, f)}
    OBVIOUS
  <1>2. G \subseteq Stores /\ st \in G
    BY FineItself, TidyItself DEF Reached
  <1> HIDE DEF T, G
  <1>3. st \in T[0] /\ \A i \in 0..MaxFiles : T[i] \subseteq Stores
    <2>1. \A f \in FileIds : ~(f <= 0)
      BY <1>0
    <2>2. 0 \in 0..MaxFiles
      BY <1>0
    <2> QED BY <1>1, <1>2, <2>1, <2>2
  <1>4. ASSUME NEW i \in 1..MaxFiles, NEW s \in T[i - 1]
        PROVE  /\ i \in fs => DropFile(s, i) \in T[i]
               /\ i \notin fs => s \in T[i]
    <2>1. i \in FileIds /\ i \in 0..MaxFiles /\ i - 1 \in 0..MaxFiles
      BY <1>0
    <2>2. \A f \in FileIds : f <= i <=> f <= i - 1 \/ f = i
      BY <1>0
    <2>3. s \in G /\ \A f \in FileIds : IF f \in fs /\ f <= i - 1 THEN s.files[f] = NoRow ELSE Same(s, f)
      BY <1>1, <2>1
    <2>4. ASSUME i \in fs PROVE DropFile(s, i) \in T[i]
      <3> DEFINE t == DropFile(s, i)
      <3>1. ~(i <= i - 1)
        BY <1>0
      <3>2. s.files[i] # NoRow
        BY <2>1, <2>3, <2>4, <3>1
      <3>3. /\ s \in Stores /\ FineForUser(st, s, {}, A, m) /\ s.dirs = st.dirs /\ StoreOK(s, A, m)
            /\ s \in Tidied(st, F, D)
        BY <2>3 DEF G, Reached, FineForUser, Fine
      <3>4. FineForUser(s, t, {}, A, m) /\ t.dirs = s.dirs
        BY <2>1, <3>2, <3>3, DropFileOK
      <3>5. /\ t \in Tidied(s, F, D) /\ t.files[i] = NoRow
            /\ \A g \in FileIds \ {i} :
                 /\ s.files[g] # NoRow <=> t.files[g] # NoRow
                 /\ t.files[g] # NoRow => t.files[g].at = s.files[g].at
        BY <2>1, <3>2, <3>3, DropFileTidy
      <3> HIDE DEF t
      <3>6. FineForUser(st, t, {}, A, m) /\ t \in Tidied(st, F, D)
        BY <3>3, <3>4, <3>5, UserTrans, TidyTrans
      <3>7. t \in G
        BY <3>3, <3>4, <3>6 DEF G, Reached, FineForUser, Fine
      <3>8. \A f \in FileIds : IF f \in fs /\ f <= i THEN t.files[f] = NoRow ELSE Same(t, f)
        <4> TAKE f \in FileIds
        <4>1. CASE f = i
          BY <2>4, <3>5, <4>1, <1>0
        <4>2. CASE f # i
          BY <2>2, <2>3, <3>5, <4>2
        <4> QED BY <4>1, <4>2
      <3> QED BY <1>1, <2>1, <3>7, <3>8 DEF t
    <2>5. ASSUME i \notin fs PROVE s \in T[i]
      BY <1>1, <2>1, <2>2, <2>3, <2>5
    <2> QED BY <2>4, <2>5
  <1>5. DropFiles(st, fs) \in T[MaxFiles]
    BY <1>3, <1>4, DropFilesAlong
  <1>6. MaxFiles \in 0..MaxFiles /\ \A f \in FileIds : f <= MaxFiles
    BY <1>0
  <1>7. DropFiles(st, fs) \in G
        /\ \A f \in FileIds : IF f \in fs THEN DropFiles(st, fs).files[f] = NoRow ELSE Same(DropFiles(st, fs), f)
    BY <1>1, <1>5, <1>6
  <1> QED BY <1>7 DEF G, Reached, LeftWithout

LEMMA MoveFilesTidy ==
  ASSUME NEW st \in Stores, NEW F, NEW D, NEW fs, AllHere(st, fs),
         NEW e \in Folders
  PROVE  LET s == MoveFilesTo(st, fs, e)
         IN  /\ s \in Tidied(st, F, D) /\ s.dirs = st.dirs
             /\ \A f \in FileIds : s.files[f] # NoRow => s.files[f].at.dir = e \/ (f \notin fs /\ s.files[f] = st.files[f])
  <1> USE DEF AllHere
  <1> DEFINE G == {s \in Tidied(st, F, D) : s.dirs = st.dirs}
             Moved(s, f) == s.files[f] # NoRow /\ s.files[f].at.dir = e
             T == [i \in 0..MaxFiles |->
                     {s \in G : \A f \in FileIds : IF f \in fs /\ f <= i THEN Moved(s, f) ELSE s.files[f] = st.files[f]}]
  <1>0. MaxFiles \in Nat \ {0} /\ FileIds = 1..MaxFiles
    BY FilePushAssumption DEF FileIds
  <1>1. \A i \in 0..MaxFiles : T[i] =
          {s \in G : \A f \in FileIds : IF f \in fs /\ f <= i THEN Moved(s, f) ELSE s.files[f] = st.files[f]}
    OBVIOUS
  <1>2. G \subseteq Stores /\ st \in G
    BY TidyItself DEF Tidied
  <1> HIDE DEF T, G
  <1>3. st \in T[0] /\ \A i \in 0..MaxFiles : T[i] \subseteq Stores
    <2>1. \A f \in FileIds : ~(f <= 0)
      BY <1>0
    <2>2. 0 \in 0..MaxFiles
      BY <1>0
    <2> QED BY <1>1, <1>2, <2>1, <2>2
  <1>4. ASSUME NEW i \in 1..MaxFiles, NEW s \in T[i - 1]
        PROVE  /\ i \in fs => MoveFileTo(s, i, e) \in T[i]
               /\ i \notin fs => s \in T[i]
    <2>1. i \in FileIds /\ i \in 0..MaxFiles /\ i - 1 \in 0..MaxFiles
      BY <1>0
    <2>2. \A f \in FileIds : f <= i <=> f <= i - 1 \/ f = i
      BY <1>0
    <2>3. s \in G /\ \A f \in FileIds : IF f \in fs /\ f <= i - 1 THEN Moved(s, f) ELSE s.files[f] = st.files[f]
      BY <1>1, <2>1
    <2>4. ASSUME i \in fs PROVE MoveFileTo(s, i, e) \in T[i]
      <3> DEFINE t == MoveFileTo(s, i, e)
      <3>1. ~(i <= i - 1)
        BY <1>0
      <3>2. s.files[i] # NoRow
        BY <2>1, <2>3, <2>4, <3>1
      <3>3. s \in Stores /\ s \in Tidied(st, F, D) /\ s.dirs = st.dirs
        BY <2>3 DEF G, Tidied
      <3>5. /\ t \in Tidied(s, F, D) /\ t.dirs = s.dirs /\ Moved(t, i)
            /\ \A g \in FileIds \ {i} : t.files[g] = s.files[g]
        BY <2>1, <3>2, <3>3, MoveFileTidy
      <3> HIDE DEF t
      <3>7. t \in G
        BY <3>3, <3>5, TidyTrans DEF G
      <3>8. \A f \in FileIds : IF f \in fs /\ f <= i THEN Moved(t, f) ELSE t.files[f] = st.files[f]
        <4> TAKE f \in FileIds
        <4>1. CASE f = i
          BY <2>4, <3>5, <4>1, <1>0
        <4>2. CASE f # i
          BY <2>2, <2>3, <3>5, <4>2
        <4> QED BY <4>1, <4>2
      <3> QED BY <1>1, <2>1, <3>7, <3>8 DEF t
    <2>5. ASSUME i \notin fs PROVE s \in T[i]
      BY <1>1, <2>1, <2>2, <2>3, <2>5
    <2> QED BY <2>4, <2>5
  <1>5. MoveFilesTo(st, fs, e) \in T[MaxFiles]
    BY <1>3, <1>4, MoveFilesAlong
  <1>6. MaxFiles \in 0..MaxFiles /\ \A f \in FileIds : f <= MaxFiles
    BY <1>0
  <1>7. MoveFilesTo(st, fs, e) \in G
        /\ \A f \in FileIds : IF f \in fs THEN Moved(MoveFilesTo(st, fs, e), f)
                               ELSE MoveFilesTo(st, fs, e).files[f] = st.files[f]
    BY <1>1, <1>5, <1>6
  <1> QED BY <1>7 DEF G

\* queueMkdir: the rmdirs of the same notebook go.
LEMMA QueueMkdirTidy ==
  ASSUME NEW st \in Stores, NEW F, NEW D, NEW d \in Notebooks, d \in D
  PROVE  LET s == QueueMkdir(st, d)
         IN  s \in Tidied(st, F, D) /\ s.files = st.files /\ s.dirs = st.dirs
  <1> DEFINE kept == Withdraw(st, OpsAt(st, "rmdir", d))
             op == Op("mkdir", NoRow, Path(d, 0))
  <1>1. kept \in Stores /\ kept.files = st.files /\ kept.dirs = st.dirs
    BY QueueLess
  <1>2. op \in OwedOps
    BY DEF Op, Path, OwedOps, OpOK, QueuedOps, Kinds, Paths, Notebooks
  <1>3. QueueMkdir(st, d) \in {kept, Add(kept, op)}
    BY DEF QueueMkdir
  <1>4. kept \in Tidied(st, F, D)
    <2>1. \A o \in OpsAt(st, "rmdir", d) : o.at.dir \in D
      BY DEF OpsAt
    <2> QED BY <2>1, TidyLess
  <1> HIDE DEF kept, op
  <1>5. /\ Add(kept, op) \in Tidied(kept, F, D) /\ Add(kept, op).files = kept.files
        /\ Add(kept, op).dirs = kept.dirs
    BY <1>1, <1>2, TidyMore, QueueMore
  <1> QED BY <1>1, <1>3, <1>4, <1>5, TidyTrans

\* queueRmdir: where it is not queued already.
RmdirOf(o, l) == o.kind = "rmdir" /\ o.at.dir = l[1] /\ o.remote = l[2]

LEMMA QueueRmdirTidy ==
  ASSUME NEW st \in Stores, NEW F, NEW D, NEW d \in Notebooks, NEW id \in {NoDir} \cup Nat
  PROVE  LET s == QueueRmdir(st, d, id)
         IN  /\ s \in Tidied(st, F, D) /\ s.files = st.files /\ s.dirs = st.dirs
             /\ id # NoDir => \E o \in Queued(s) : RmdirOf(o, <<d, id>>)
  <1> DEFINE op == [Op("rmdir", NoRow, Path(d, 0)) EXCEPT !.remote = id]
             s == QueueRmdir(st, d, id)
  <1>1. CASE id = NoDir \/ \E o \in OpsAt(st, "rmdir", d) : o.remote = id
    <2>1. s = st
      BY <1>1 DEF QueueRmdir
    <2>2. id # NoDir => \E o \in Queued(st) : RmdirOf(o, <<d, id>>)
      BY <1>1 DEF OpsAt, RmdirOf
    <2> QED BY <2>1, <2>2, TidyItself
  <1>2. CASE ~(id = NoDir \/ \E o \in OpsAt(st, "rmdir", d) : o.remote = id)
    <2>1. s = Add(st, op) /\ id \in Nat
      BY <1>2 DEF QueueRmdir
    <2>2. op \in OwedOps /\ op.kind = "rmdir" /\ op.at.dir = d /\ op.remote = id
      BY <2>1 DEF Op, Path, OwedOps, OpOK, QueuedOps, Kinds, Paths, Notebooks
    <2> HIDE DEF op, s
    <2>3. PICK p : NewOp(p, op, st.kept) /\ Queued(Add(st, op)) = Queued(st) \cup {p}
      BY <2>2, QueueMore
    <2>4. RmdirOf(p, <<d, id>>)
      BY <2>2, <2>3, NewOpIs DEF RmdirOf
    <2>5. /\ Add(st, op) \in Tidied(st, F, D)
          /\ Add(st, op).files = st.files /\ Add(st, op).dirs = st.dirs
      BY <2>2, TidyMore, QueueMore
    <2> QED BY <2>1, <2>3, <2>4, <2>5 DEF s
  <1> QED BY <1>1, <1>2

\* What deleteFolder and moveFolder end with.
LEMMA LetGoTidy ==
  ASSUME NEW st \in Stores, NEW F, NEW D, NEW d \in Notebooks, NEW id \in {NoDir} \cup Nat
  PROVE  LET s == QueueRmdir(WithdrawMkdirs(st, d), d, id)
         IN  /\ s \in Tidied(st, F, D) /\ s.files = st.files /\ s.dirs = st.dirs
             /\ id # NoDir => \E o \in Queued(s) : RmdirOf(o, <<d, id>>)
  <1> DEFINE w == WithdrawMkdirs(st, d)
  <1>1. w \in Stores /\ w.files = st.files /\ w.dirs = st.dirs
    BY QueueLess DEF WithdrawMkdirs
  <1>2. w \in Tidied(st, F, D)
    <2>1. \A o \in OpsAt(st, "mkdir", d) : o.kind # "rmdir"
      BY DEF OpsAt
    <2> QED BY <2>1, TidyLess DEF WithdrawMkdirs
  <1> HIDE DEF w
  <1>3. LET s == QueueRmdir(w, d, id)
        IN  /\ s \in Tidied(w, F, D) /\ s.files = w.files /\ s.dirs = w.dirs
            /\ id # NoDir => \E o \in Queued(s) : RmdirOf(o, <<d, id>>)
    BY <1>1, QueueRmdirTidy
  <1> QED BY <1>1, <1>2, <1>3, TidyTrans DEF w

\* Every file here is in a notebook that is here.
Homed(rows, ds) ==
  \A f \in FileIds : rows[f] # NoRow => rows[f].at.dir \in {d \in Notebooks : ds[d] # NoRow} \cup {Top}

LEMMA CreateFolderTidy ==
  ASSUME NEW st \in Stores, NEW F, NEW d \in Notebooks, st.dirs[d] = NoRow
  PROVE  LET s == CreateFolder(st, d)
         IN  /\ s \in Tidied(st, F, {d}) /\ (Homed(st.files, st.dirs) => Homed(s.files, s.dirs))
             /\ s.dirs[d] = NoDir /\ \A c \in Notebooks \ {d} : s.dirs[c] = st.dirs[c]
  <1> DEFINE u == [st EXCEPT !.dirs[d] = NoDir]
  <1>1. /\ u \in Stores /\ u.files = st.files /\ u.ops = st.ops /\ u.kept = st.kept
        /\ u.dirs[d] = NoDir /\ \A c \in Notebooks \ {d} : u.dirs[c] = st.dirs[c]
    BY DEF Stores
  <1>2. CreateFolder(st, d) = QueueMkdir(u, d)
    BY DEF CreateFolder
  <1> HIDE DEF u
  <1>3. u \in Tidied(st, F, {d})
    BY <1>1, TidyItself
  <1>4. Homed(st.files, st.dirs) => Homed(u.files, u.dirs)
    BY <1>1, NothingAssumption DEF Homed
  <1>5. LET s == QueueMkdir(u, d)
        IN  s \in Tidied(u, F, {d}) /\ s.files = u.files /\ s.dirs = u.dirs
    BY <1>1, QueueMkdirTidy
  <1> QED BY <1>1, <1>2, <1>3, <1>4, <1>5, TidyTrans

LEMMA DeleteFolderTidy ==
  ASSUME NEW st \in Stores, NEW A \in SUBSET Ids, NEW m, \A r \in A : r <= m, StoreOK(st, A, m),
         NEW F, NEW d \in Notebooks, st.dirs[d] # NoRow
  PROVE  LET s == DeleteFolder(st, d)
         IN  /\ s \in Tidied(st, F, {}) /\ (Homed(st.files, st.dirs) => Homed(s.files, s.dirs))
             /\ s.dirs[d] = NoRow /\ \A c \in Notebooks \ {d} : s.dirs[c] = st.dirs[c]
             /\ st.dirs[d] # NoDir => \E o \in Queued(s) : RmdirOf(o, <<d, st.dirs[d]>>)
  <1> DEFINE u == [st EXCEPT !.dirs[d] = NoRow]
             fs == FilesIn(st, d)
             v == DropFiles(u, fs)
             s == DeleteFolder(st, d)
  <1>1. /\ u \in Stores /\ u.files = st.files /\ u.ops = st.ops /\ u.kept = st.kept
        /\ u.dirs[d] = NoRow /\ \A c \in Notebooks \ {d} : u.dirs[c] = st.dirs[c]
    BY DEF Stores
  <1>2. s = QueueRmdir(WithdrawMkdirs(v, d), d, st.dirs[d])
    BY DEF DeleteFolder
  <1>3. st.dirs[d] \in {NoDir} \cup Nat
    BY StoreTyped
  <1> HIDE DEF u, s
  <1>4. u \in Tidied(st, F, {}) /\ StoreOK(u, A, m)
    BY <1>1, TidyItself DEF StoreOK
  <1>5. \A f \in FileIds : f \in fs <=> u.files[f] # NoRow /\ u.files[f].at.dir = d
    <2>1. DOMAIN st.files = FileIds
      BY StoreTyped
    <2> QED BY <1>1, <2>1 DEF FilesIn
  <1> HIDE DEF fs
  <1>5a. AllHere(u, fs)
    BY <1>5 DEF AllHere
  <1>6. /\ v \in Tidied(u, F, {}) /\ v.dirs = u.dirs
        /\ LeftWithout(u.files, v.files, fs)
    <2> DEFINE D == {}
    <2> HIDE DEF D
    <2>1. u \in Stores /\ StoreOK(u, A, m)
      BY <1>1, <1>4
    <2>2. v \in Tidied(u, F, D) /\ v.dirs = u.dirs /\ LeftWithout(u.files, v.files, fs)
      BY <1>5a, <2>1, DropFilesTidy
    <2> QED BY <2>2 DEF D
  <1> HIDE DEF v
  <1>7. v \in Tidied(st, F, {}) /\ v \in Stores
    BY <1>4, <1>6, TidyTrans DEF Tidied
  <1>8. Homed(st.files, st.dirs) => Homed(v.files, v.dirs)
    BY <1>1, <1>5, <1>6 DEF Homed, LeftWithout
  <1>9. /\ s \in Tidied(v, F, {}) /\ s.files = v.files /\ s.dirs = v.dirs
        /\ st.dirs[d] # NoDir => \E o \in Queued(s) : RmdirOf(o, <<d, st.dirs[d]>>)
    BY <1>2, <1>3, <1>7, LetGoTidy
  <1> QED BY <1>1, <1>6, <1>7, <1>8, <1>9, TidyTrans DEF s

LEMMA RenameFolderTidy ==
  ASSUME NEW st \in Stores, NEW F, NEW d \in Notebooks, st.dirs[d] # NoRow,
         NEW e \in Notebooks, st.dirs[e] = NoRow
  PROVE  LET s == RenameFolder(st, d, e)
         IN  /\ s \in Tidied(st, F, {e}) /\ (Homed(st.files, st.dirs) => Homed(s.files, s.dirs))
             /\ s.dirs[d] = NoRow /\ s.dirs[e] = NoDir /\ \A c \in Notebooks \ {d, e} : s.dirs[c] = st.dirs[c]
             /\ st.dirs[d] # NoDir => \E o \in Queued(s) : RmdirOf(o, <<d, st.dirs[d]>>)
  <1> DEFINE u == [st EXCEPT !.dirs[d] = NoRow, !.dirs[e] = NoDir]
             made == QueueMkdir(u, e)
             fs == FilesIn(st, d)
             v == MoveFilesTo(made, fs, e)
             s == RenameFolder(st, d, e)
  <1>0. d # e /\ NoDir # NoRow
    BY NothingAssumption
  <1>1. /\ u \in Stores /\ u.files = st.files /\ u.ops = st.ops /\ u.kept = st.kept
        /\ u.dirs[d] = NoRow /\ u.dirs[e] = NoDir /\ \A c \in Notebooks \ {d, e} : u.dirs[c] = st.dirs[c]
    BY <1>0 DEF Stores
  <1>2. s = QueueRmdir(WithdrawMkdirs(v, d), d, st.dirs[d])
    BY DEF RenameFolder
  <1>3. st.dirs[d] \in {NoDir} \cup Nat
    BY StoreTyped
  <1> HIDE DEF u, s
  <1>4. u \in Tidied(st, F, {e})
    BY <1>1, TidyItself
  <1>5. made \in Tidied(u, F, {e}) /\ made.files = u.files /\ made.dirs = u.dirs
    BY <1>1, QueueMkdirTidy
  <1> HIDE DEF made
  <1>6. made \in Tidied(st, F, {e}) /\ made \in Stores
    BY <1>4, <1>5, TidyTrans DEF Tidied
  <1>7. \A f \in FileIds : f \in fs <=> made.files[f] # NoRow /\ made.files[f].at.dir = d
    <2>1. DOMAIN st.files = FileIds
      BY StoreTyped
    <2> QED BY <1>1, <1>5, <2>1 DEF FilesIn
  <1>8. e \in Folders
    BY DEF Notebooks
  <1> HIDE DEF fs
  <1>8a. AllHere(made, fs)
    BY <1>7 DEF AllHere
  <1>9. /\ v \in Tidied(made, F, {e}) /\ v.dirs = made.dirs
        /\ \A f \in FileIds : v.files[f] # NoRow =>
             v.files[f].at.dir = e \/ (f \notin fs /\ v.files[f] = made.files[f])
    BY <1>6, <1>8, <1>8a, MoveFilesTidy
  <1> HIDE DEF v
  <1>10. v \in Tidied(st, F, {e}) /\ v \in Stores
    BY <1>6, <1>9, TidyTrans DEF Tidied
  <1>11. Homed(st.files, st.dirs) => Homed(v.files, v.dirs)
    BY <1>0, <1>1, <1>5, <1>7, <1>9 DEF Homed
  <1>12. /\ s \in Tidied(v, F, {e}) /\ s.files = v.files /\ s.dirs = v.dirs
         /\ st.dirs[d] # NoDir => \E o \in Queued(s) : RmdirOf(o, <<d, st.dirs[d]>>)
    BY <1>2, <1>3, <1>10, LetGoTidy
  <1> QED BY <1>1, <1>5, <1>9, <1>10, <1>11, <1>12, TidyTrans DEF s

\* A row that is new, in a notebook that is here.
LEMMA BirthTidy ==
  ASSUME NEW st \in Stores, NEW F, NEW D, NEW g \in FileIds, NEW at \in Paths, NEW held \in BOOLEAN,
         NEW copyOf \in Ids \cup {NoFile},
         at.dir \in {d \in Notebooks : st.dirs[d] # NoRow} \cup {Top}
  PROVE  LET s == QueueUpload(PutFile(st, g, PendingRow(at, held)), g, copyOf)
         IN  s \in Tidied(st, F, D) /\ s.dirs = st.dirs /\ (Homed(st.files, st.dirs) => Homed(s.files, s.dirs))
  <1> DEFINE row == PendingRow(at, held)
             u == PutFile(st, g, row)
             op == [Op("upload", g, u.files[g].at) EXCEPT !.copyOf = copyOf]
             s == QueueUpload(u, g, copyOf)
  <1>1. row \in Rows /\ row.at = at
    BY DEF PendingRow, Rows
  <1> HIDE DEF row
  <1>2. /\ u \in Stores /\ u \in Tidied(st, F, D) /\ u.dirs = st.dirs
        /\ u.files[g] = row /\ \A f \in FileIds \ {g} : u.files[f] = st.files[f]
    BY <1>1, PutIs
  <1> HIDE DEF u
  <1>3. op \in OwedOps
    BY <1>1, <1>2 DEF Op, OwedOps, OpOK, QueuedOps, Kinds
  <1>4. s \in {u, Add(u, op)}
    BY DEF QueueUpload
  <1> HIDE DEF op, s
  <1>5. s \in Tidied(u, F, D) /\ s.files = u.files /\ s.dirs = u.dirs
    BY <1>2, <1>3, <1>4, TidyMore, TidyItself, QueueMore
  <1>6. Homed(st.files, st.dirs) => Homed(u.files, u.dirs)
    BY <1>1, <1>2 DEF Homed
  <1> QED BY <1>2, <1>5, <1>6, TidyTrans DEF s, u, row

\* addAttachment.
LEMMA AddFileTidy ==
  ASSUME NEW st \in Stores, NEW F, NEW D, NEW g \in FileIds, NEW d \in Folders,
         d \in {e \in Notebooks : st.dirs[e] # NoRow} \cup {Top}
  PROVE  LET s == AddFile(st, g, d)
         IN  s \in Tidied(st, F, D) /\ s.dirs = st.dirs /\ (Homed(st.files, st.dirs) => Homed(s.files, s.dirs))
  <1>1. Path(d, 0) \in Paths /\ Path(d, 0).dir = d
    BY DEF Path, Paths
  <1> QED BY <1>1, BirthTidy DEF AddFile

\* copyFileTo.
LEMMA CopyFileTidy ==
  ASSUME NEW st \in Stores, NEW F, NEW D, NEW f \in FileIds, st.files[f] # NoRow,
         NEW g \in FileIds, NEW d \in Folders,
         d \in {e \in Notebooks : st.dirs[e] # NoRow} \cup {Top}
  PROVE  LET s == CopyFileTo(st, f, g, d)
         IN  s \in Tidied(st, F, D) /\ s.dirs = st.dirs /\ (Homed(st.files, st.dirs) => Homed(s.files, s.dirs))
  <1> DEFINE row == st.files[f]
             at == Path(d, row.at.k)
             copyOf == IF row.held THEN NoFile ELSE row.remote
  <1>1. row \in Rows
    BY StoreTyped
  <1>2. at \in Paths /\ at.dir = d
    BY <1>1 DEF Path, Paths, Rows
  <1>3. copyOf \in Ids \cup {NoFile} /\ row.held \in BOOLEAN
    BY <1>1 DEF Rows
  <1>4. CopyFileTo(st, f, g, d) = QueueUpload(PutFile(st, g, PendingRow(at, row.held)), g, copyOf)
    BY DEF CopyFileTo
  <1> HIDE DEF copyOf, at, row
  <1> QED BY <1>2, <1>3, <1>4, BirthTidy

-----------------------------------------------------------------------------
(* The invariant.                                                            *)

\* A notebook let go of is not here; and the remote has told us of the
\* directories we know of.
LeftKnown ==
  \A l \in past.left : /\ l[1] \in Notebooks /\ dirs[l[1]] = NoRow
                       /\ l[2] # NoDir => l[2] \in Nat /\ l[2] <= remote.dirs[l[1]].id
DirsKnown == \A d \in Notebooks : dirs[d] \in {NoRow, NoDir} \/ dirs[d] <= remote.dirs[d].id
\* What is sent goes to the directory it was meant for.
SentWithin ==
  /\ drain.pc \in {"fetch", "send", "move", "met", "settle"} => drain.at.dir = drain.sent.dir
  /\ drain.pc \in {"met", "settle"} => drain.entry.at = drain.at
  /\ drain.pc \in {"move", "met", "settle"} /\ drain.op.kind = "move-file" => drain.sent = drain.op.to
\* No delete out of the directory that goes is held back.
Unhindered == drain.pc \in {"look", "rmdir"} => \A p \in drain.holding : p.dir # drain.op.at.dir

\* What took a file ahead of an rmdir the run is still to come to, it came to
\* first, or has held back.
Earlier(tag, m) == \E n \in DOMAIN drain.todo : n < m /\ drain.todo[n] = tag
TakenAhead ==
  \A i, j \in DOMAIN ops, m \in DOMAIN drain.todo :
    i < j /\ ops[i].kind \in TakesOne /\ ops[j].kind = "rmdir" /\ ops[j].tag = drain.todo[m] =>
      \/ Earlier(ops[i].tag, m)
      \/ ops[i].tag \in drain.read /\ ops[i].at \in drain.holding
\* Of the moves of the file that is being moved the run has read one.
OneMoveRead ==
  Flight /\ drain.op.kind = "move-file" =>
    \A o \in Queued(Store) : MoveOf(o, drain.op.file) /\ o.tag \in drain.read => o.tag = drain.op.tag
\* What an op takes from behind an rmdir is remembered.
BehindKnown == Behind(ops, files) \subseteq past.behind \cup {NoFile}

\* Why a directory that was let go of may stand.
Excused(l) ==
  \/ past.gaveUp \/ past.unheard \cap {"upload", "move-file"} # {} \/ l[1] \in past.overtaken
  \/ remote.dirs[l[1]] # [here |-> TRUE, id |-> l[2]]
LeftOwed == \A l \in past.left : l[2] = NoDir \/ Excused(l) \/ \E o \in Queued(Store) : RmdirOf(o, l)

\* Known holds whatever others do, Tidy while nobody else is about.
Known == LeftKnown /\ DirsKnown /\ SentWithin /\ Unhindered
Tidy == Homed(files, dirs) /\ TakenAhead /\ OneMoveRead /\ BehindKnown /\ LeftOwed
GInv == Known /\ (Undisturbed => Tidy)

-----------------------------------------------------------------------------
(* What a step leaves of it.                                                 *)

PastOn ==
  /\ past.behind \subseteq past'.behind /\ past.overtaken \subseteq past'.overtaken
  /\ past.unheard \subseteq past'.unheard /\ (past.gaveUp => past'.gaveUp)
  /\ (past.meddled => past'.meddled)
\* A directory that is there as it was has been there all along.
DirsOnward(w, w2) ==
  \A d \in Notebooks : /\ w.dirs[d].id \in Nat /\ w2.dirs[d].id \in Nat /\ w.dirs[d].id <= w2.dirs[d].id
                       /\ w2.dirs[d].here /\ w2.dirs[d].id = w.dirs[d].id => w.dirs[d].here

LEMMA KnownGoes ==
  ASSUME IInv, LeftKnown, DirsKnown, DirsOnward(remote, remote'),
         \A l \in past'.left : l \in past.left \/ \E d \in Notebooks : dirs[d] # NoRow /\ l = <<d, dirs[d]>>,
         \A l \in past'.left : dirs'[l[1]] = NoRow,
         \A d \in Notebooks : dirs'[d] \in {NoRow, NoDir, dirs[d], remote'.dirs[d].id}
  PROVE  LeftKnown' /\ DirsKnown'
  <1>1. \A d \in Notebooks : dirs[d] \in {NoRow, NoDir} \cup Nat
    BY WhatHolds, StoreTyped
  <1>2. LeftKnown'
    <2> SUFFICES ASSUME NEW l \in past'.left
                 PROVE  l[1] \in Notebooks /\ (l[2] # NoDir => l[2] \in Nat /\ l[2] <= remote'.dirs[l[1]].id)
      BY DEF LeftKnown
    <2>1. CASE l \in past.left
      BY <2>1 DEF LeftKnown, DirsOnward
    <2>2. ASSUME NEW d \in Notebooks, dirs[d] # NoRow, l = <<d, dirs[d]>>
          PROVE  l[1] \in Notebooks /\ (l[2] # NoDir => l[2] \in Nat /\ l[2] <= remote'.dirs[l[1]].id)
      <3>1. l[1] = d /\ l[2] = dirs[d]
        BY <2>2
      <3>2. dirs[d] # NoDir => dirs[d] \in Nat /\ dirs[d] <= remote.dirs[d].id
        BY <1>1, <2>2 DEF DirsKnown
      <3> QED BY <3>1, <3>2 DEF DirsOnward
    <2> QED BY <2>1, <2>2
  <1>3. DirsKnown'
    <2> SUFFICES ASSUME NEW d \in Notebooks, dirs'[d] \notin {NoRow, NoDir}
                 PROVE  dirs'[d] <= remote'.dirs[d].id
      BY DEF DirsKnown
    <2>1. CASE dirs'[d] = dirs[d]
      BY <1>1, <2>1 DEF DirsKnown, DirsOnward
    <2>2. CASE dirs'[d] = remote'.dirs[d].id
      BY <2>2 DEF DirsOnward
    <2> QED BY <2>1, <2>2
  <1> QED BY <1>2, <1>3

LEMMA ExcusedStays ==
  ASSUME LeftKnown, PastOn, DirsOnward(remote, remote'), NEW l \in past.left, l[2] # NoDir, Excused(l),
         remote \in Remotes, remote' \in Remotes
  PROVE  Excused(l)'
  <1>1. CASE remote.dirs[l[1]] # [here |-> TRUE, id |-> l[2]]
    <2>1. l[1] \in Notebooks /\ l[2] \in Nat /\ l[2] <= remote.dirs[l[1]].id
      BY DEF LeftKnown
    <2> DEFINE a == remote.dirs[l[1]]
               b == remote'.dirs[l[1]]
    <2>2. a \in [here : BOOLEAN, id : Nat] /\ b \in [here : BOOLEAN, id : Nat]
      BY <2>1 DEF Remotes
    <2>3. a.id \in Nat /\ b.id \in Nat /\ a.id <= b.id /\ (b.here /\ b.id = a.id => a.here)
      BY <2>1 DEF DirsOnward
    <2> HIDE DEF a, b
    <2>4. b # [here |-> TRUE, id |-> l[2]]
      <3> SUFFICES ASSUME b = [here |-> TRUE, id |-> l[2]] PROVE FALSE
        OBVIOUS
      <3>1. a.id = l[2] /\ a.here
        BY <2>1, <2>3 DEF a
      <3>2. a = [here |-> TRUE, id |-> l[2]]
        BY <2>2, <3>1
      <3> QED BY <1>1, <3>2 DEF a
    <2> QED BY <2>4 DEF Excused, b
  <1> QED BY <1>1 DEF Excused, PastOn

LEMMA LeftGoes ==
  ASSUME IInv, IInv', LeftKnown, LeftOwed, PastOn, DirsOnward(remote, remote'), NEW s, Becomes(s),
         \A l \in past'.left : l[2] # NoDir =>
           \/ \E o \in Queued(s) : RmdirOf(o, l)
           \/ /\ l \in past.left
              /\ \A o \in Queued(Store) : RmdirOf(o, l) => Excused(l)' \/ \E p \in Queued(s) : RmdirOf(p, l)
  PROVE  LeftOwed'
  <1>1. remote \in Remotes /\ remote' \in Remotes
    BY DEF IInv, TypeOK, OutsideOK
  <1>2. Queued(Store)' = Queued(s)
    BY DEF Queued, Store, Becomes
  <1> SUFFICES ASSUME NEW l \in past'.left, l[2] # NoDir, ~Excused(l)'
               PROVE  \E o \in Queued(s) : RmdirOf(o, l)
    BY <1>2 DEF LeftOwed
  <1> SUFFICES ASSUME l \in past.left,
                      \A o \in Queued(Store) : RmdirOf(o, l) => \E p \in Queued(s) : RmdirOf(p, l)
               PROVE  \E o \in Queued(s) : RmdirOf(o, l)
    OBVIOUS
  <1>3. ~Excused(l)
    BY <1>1, ExcusedStays
  <1> QED BY <1>3 DEF LeftOwed

LEMMA AheadGoes ==
  ASSUME IInv, TakenAhead, NEW F, NEW D, NEW s \in Tidied(Store, F, D), Becomes(s),
         \A o \in Queued(s) : MoveOf(o, F) => o.tag \notin drain.read,
         drain'.read = drain.read, drain.holding \subseteq drain'.holding,
         \/ drain'.todo = drain.todo
         \/ /\ drain.todo # <<>> /\ drain'.todo = Tail(drain.todo)
            /\ \A o \in Queued(s) : o.tag = Head(drain.todo) /\ o.kind \in TakesOne => o.at \in drain'.holding
  PROVE  TakenAhead'
  <1>1. /\ s.kept = drain.read /\ AheadFrom(ops, s.ops, drain.read, F)
        /\ drain.todo \in Seq(Nat) /\ \A i \in DOMAIN drain.todo : drain.todo[i] \in drain.read
    BY WhatHolds DEF Tidied, IInv, RunOK
  <1> SUFFICES ASSUME NEW i \in DOMAIN s.ops, NEW j \in DOMAIN s.ops, NEW m \in DOMAIN drain'.todo,
                      i < j, s.ops[i].kind \in TakesOne, s.ops[j].kind = "rmdir", s.ops[j].tag = drain'.todo[m]
               PROVE  \/ Earlier(s.ops[i].tag, m)'
                      \/ s.ops[i].tag \in drain.read /\ s.ops[i].at \in drain'.holding
    BY DEF TakenAhead, Becomes, Earlier
  <1> DEFINE o == s.ops[i]
  <1>2. o \in Queued(s)
    BY DEF Queued
  <1>3. \E n \in DOMAIN drain.todo :
          /\ drain.todo[n] = drain'.todo[m]
          /\ Earlier(o.tag, n) => Earlier(o.tag, m)' \/ (o.tag = Head(drain.todo) /\ drain'.todo = Tail(drain.todo) /\ drain.todo # <<>>)
    <2>1. CASE drain'.todo = drain.todo
      BY <2>1 DEF Earlier
    <2>2. CASE drain'.todo = Tail(drain.todo) /\ drain.todo # <<>>
      <3>1. /\ m \in Nat \ {0} /\ m + 1 \in DOMAIN drain.todo /\ drain'.todo[m] = drain.todo[m + 1]
            /\ Head(drain.todo) = drain.todo[1]
            /\ \A n \in DOMAIN drain.todo : n = 1 \/ (n - 1 \in DOMAIN Tail(drain.todo) /\ Tail(drain.todo)[n - 1] = drain.todo[n] /\ n \in Nat)
        BY <1>1, <2>2, Skipped
      <3> SUFFICES ASSUME Earlier(o.tag, m + 1), o.tag # Head(drain.todo) PROVE Earlier(o.tag, m)'
        BY <2>2, <3>1
      <3>2. PICK n \in DOMAIN drain.todo : n < m + 1 /\ drain.todo[n] = o.tag
        BY DEF Earlier
      <3>3. n # 1
        BY <3>1, <3>2
      <3>4. n - 1 \in DOMAIN drain'.todo /\ drain'.todo[n - 1] = o.tag /\ n \in Nat
        BY <2>2, <3>1, <3>2, <3>3
      <3>5. n - 1 < m
        BY <3>1, <3>2, <3>4
      <3> QED BY <3>4, <3>5 DEF Earlier
    <2> QED BY <2>1, <2>2
  <1>4. PICK n \in DOMAIN drain.todo :
          /\ drain.todo[n] = drain'.todo[m]
          /\ Earlier(o.tag, n) => Earlier(o.tag, m)' \/ (o.tag = Head(drain.todo) /\ drain'.todo = Tail(drain.todo) /\ drain.todo # <<>>)
    BY <1>3
  <1>5. s.ops[j].tag \in drain.read
    BY <1>1, <1>4
  <1>6. PICK k, l \in DOMAIN ops :
          /\ k < l /\ Alike(F, ops[k], o) /\ ops[l].kind = "rmdir" /\ ops[l].tag = s.ops[j].tag
    BY <1>1, <1>5 DEF AheadFrom
  <1>7. ops[k].kind \in TakesOne /\ ops[k].tag = o.tag
    BY <1>6 DEF Alike
  <1>8. \/ Earlier(o.tag, n) \/ (o.tag \in drain.read /\ ops[k].at \in drain.holding)
    BY <1>4, <1>6, <1>7 DEF TakenAhead
  <1>9. CASE o.tag \in drain.read /\ ops[k].at \in drain.holding
    <2>1. ~MoveOf(o, F)
      BY <1>2, <1>9
    <2> QED BY <1>6, <1>9, <2>1 DEF Alike
  <1>10. CASE Earlier(o.tag, n) /\ ~Earlier(o.tag, m)'
    <2>1. o.tag = Head(drain.todo) /\ drain'.todo = Tail(drain.todo) /\ drain.todo # <<>>
      BY <1>4, <1>10
    <2>2. Head(drain.todo) \in drain.read
      BY <1>1, <2>1, Skipped
    <2>3. drain'.todo # drain.todo
      <3>1. Len(drain.todo) \in Nat \ {0} /\ Len(Tail(drain.todo)) = Len(drain.todo) - 1
        BY <1>1, <2>1
      <3>2. Len(Tail(drain.todo)) # Len(drain.todo)
        BY <3>1
      <3>3. Tail(drain.todo) # drain.todo
        BY <3>2
      <3> QED BY <2>1, <3>3
    <2> QED BY <1>2, <2>1, <2>2, <2>3
  <1> QED BY <1>8, <1>9, <1>10

-----------------------------------------------------------------------------
(* Behind an rmdir.                                                          *)

\* What p takes behind an rmdir, q does.
BehindFrom(q, p, rows, rows2) ==
  \A i, j \in DOMAIN p :
    i < j /\ p[i].kind = "rmdir" /\ p[i].at.dir = p[j].at.dir /\ Takes(p[j], rows2) # NoFile =>
      \E k, l \in DOMAIN q : /\ k < l /\ q[k].kind = "rmdir" /\ q[k].at.dir = q[l].at.dir
                             /\ Takes(q[l], rows) = Takes(p[j], rows2)

LEMMA BehindGoes ==
  ASSUME IInv, BehindKnown, PastOn, NEW s \in Stores, Becomes(s), BehindFrom(ops, s.ops, files, s.files)
  PROVE  BehindKnown'
  <1>1. /\ DOMAIN ops = 1..Len(ops) /\ DOMAIN s.ops = 1..Len(s.ops)
        /\ Len(ops) \in Nat /\ Len(s.ops) \in Nat
    BY WhatHolds, StoreTyped
  <1>2. ASSUME NEW r \in Behind(s.ops, s.files), r # NoFile PROVE r \in Behind(ops, files)
    <2>1. PICK j \in DOMAIN s.ops :
            /\ r = Takes(s.ops[j], s.files)
            /\ \E i \in 1..(j - 1) : s.ops[i].kind = "rmdir" /\ s.ops[i].at.dir = s.ops[j].at.dir
      BY <1>2 DEF Behind
    <2>2. PICK i \in 1..(j - 1) : s.ops[i].kind = "rmdir" /\ s.ops[i].at.dir = s.ops[j].at.dir
      BY <2>1
    <2>3. i \in DOMAIN s.ops /\ i < j
      BY <1>1
    <2>4. PICK k, l \in DOMAIN ops : /\ k < l /\ ops[k].kind = "rmdir" /\ ops[k].at.dir = ops[l].at.dir
                                    /\ Takes(ops[l], files) = r
      BY <1>2, <2>1, <2>2, <2>3 DEF BehindFrom
    <2>5. k \in 1..(l - 1)
      BY <1>1, <2>4
    <2> QED BY <2>4, <2>5 DEF Behind
  <1>3. Behind(s.ops, s.files) \subseteq past'.behind \cup {NoFile}
    BY <1>2 DEF BehindKnown, PastOn
  <1>4. ops' = s.ops /\ files' = s.files
    BY DEF Becomes
  <1> QED BY <1>3, <1>4 DEF BehindKnown, Behind, Takes

LEMMA BehindTrans ==
  ASSUME NEW a, NEW b, NEW c, NEW A, NEW B, NEW C, BehindFrom(a, b, A, B), BehindFrom(b, c, B, C)
  PROVE  BehindFrom(a, c, A, C)
  <1> SUFFICES ASSUME NEW i \in DOMAIN c, NEW j \in DOMAIN c, i < j, c[i].kind = "rmdir",
                      c[i].at.dir = c[j].at.dir, Takes(c[j], C) # NoFile
               PROVE  \E k, l \in DOMAIN a : /\ k < l /\ a[k].kind = "rmdir" /\ a[k].at.dir = a[l].at.dir
                                             /\ Takes(a[l], A) = Takes(c[j], C)
    BY DEF BehindFrom
  <1>1. PICK k, l \in DOMAIN b : /\ k < l /\ b[k].kind = "rmdir" /\ b[k].at.dir = b[l].at.dir
                                /\ Takes(b[l], B) = Takes(c[j], C)
    BY DEF BehindFrom
  <1> QED BY <1>1 DEF BehindFrom

\* What is withdrawn takes nothing more.
LEMMA BehindLess ==
  ASSUME NEW st \in Stores, NEW gone, NEW rows
  PROVE  BehindFrom(st.ops, Withdraw(st, gone).ops, rows, rows)
  <1> DEFINE w == Withdraw(st, gone)
             I == {i \in DOMAIN st.ops : st.ops[i] \notin gone}
  <1>1. w.ops = Those(st.ops, I)
    BY DEF Withdraw, Stores
  <1>2. PICK g : Picks(st.ops, I \cap DOMAIN st.ops, Those(st.ops, I), g)
    BY StoreTyped, ThosePicked
  <1> HIDE DEF I, w
  <1> SUFFICES ASSUME NEW i \in DOMAIN w.ops, NEW j \in DOMAIN w.ops, i < j, w.ops[i].kind = "rmdir",
                      w.ops[i].at.dir = w.ops[j].at.dir
               PROVE  \E k, l \in DOMAIN st.ops :
                        /\ k < l /\ st.ops[k].kind = "rmdir" /\ st.ops[k].at.dir = st.ops[l].at.dir
                        /\ Takes(st.ops[l], rows) = Takes(w.ops[j], rows)
    BY DEF BehindFrom, w
  <1>3. /\ g[i] \in DOMAIN st.ops /\ g[j] \in DOMAIN st.ops /\ g[i] < g[j]
        /\ w.ops[i] = st.ops[g[i]] /\ w.ops[j] = st.ops[g[j]]
    BY <1>1, <1>2 DEF Picks
  <1> QED BY <1>3

\* Rewritten in place, the ops take what they took.
LEMMA BehindAnew ==
  ASSUME NEW q, NEW p, DOMAIN p = DOMAIN q, NEW rows,
         \A i \in DOMAIN q : /\ p[i].kind = q[i].kind /\ p[i].at = q[i].at
                             /\ p[i].file = q[i].file /\ p[i].remote = q[i].remote
  PROVE  BehindFrom(q, p, rows, rows)
  <1>1. \A i \in DOMAIN q : Takes(p[i], rows) = Takes(q[i], rows)
    BY DEF Takes
  <1> QED BY <1>1 DEF BehindFrom

-----------------------------------------------------------------------------
(* What is settled.                                                          *)

LEMMA TidyMono ==
  ASSUME NEW st, NEW F, NEW D, NEW E, D \subseteq E, NEW s \in Tidied(st, F, D)
  PROVE  s \in Tidied(st, F, E)
  BY DEF Tidied, RmdirsFrom

\* failOp and resetAttempts.
LEMMA CountedTidy ==
  ASSUME NEW st \in Stores, NEW F, NEW D, NEW tag,
         NEW s \in {FailOp(st, tag), ResetAttempts(st)}, s \in Stores
  PROVE  /\ s \in Tidied(st, F, D) /\ s.files = st.files /\ s.dirs = st.dirs
         /\ BehindFrom(st.ops, s.ops, st.files, s.files)
         /\ \A o \in Queued(s) : \E p \in Queued(st) : o.tag = p.tag /\ o.kind = p.kind
  <1> DEFINE failed == [o \in Queued(st) |-> IF o.tag = tag THEN [o EXCEPT !.attempts = @ + 1] ELSE o]
             reset == [o \in Queued(st) |-> [o EXCEPT !.attempts = 0]]
  <1>1. ASSUME NEW o \in Queued(st), NEW n \in {failed, reset}
        PROVE /\ n[o].tag = o.tag /\ n[o].kind = o.kind /\ n[o].file = o.file
              /\ n[o].remote = o.remote /\ n[o].at = o.at
    <2>1. o \in QueuedOps
      BY QueueTyped DEF OwedOps
    <2>2. failed[o] \in {[o EXCEPT !.attempts = @ + 1], o} /\ reset[o] = [o EXCEPT !.attempts = 0]
      OBVIOUS
    <2> HIDE DEF failed, reset
    <2> QED BY <2>1, <2>2 DEF QueuedOps
  <1>2. \A i \in DOMAIN st.ops : st.ops[i] \in Queued(st)
    BY DEF Queued
  <1>3. \E n \in {failed, reset} : s = [st EXCEPT !.ops = [i \in DOMAIN st.ops |-> n[st.ops[i]]]]
    <2>1. FailOp(st, tag) = [st EXCEPT !.ops = [i \in DOMAIN st.ops |-> failed[st.ops[i]]]]
      BY <1>2 DEF FailOp, Rewrite
    <2>2. ResetAttempts(st) = [st EXCEPT !.ops = [i \in DOMAIN st.ops |-> reset[st.ops[i]]]]
      BY <1>2 DEF ResetAttempts, Rewrite
    <2> HIDE DEF failed, reset
    <2> QED BY <2>1, <2>2
  <1> HIDE DEF failed, reset
  <1>4. PICK n \in {failed, reset} : s = [st EXCEPT !.ops = [i \in DOMAIN st.ops |-> n[st.ops[i]]]]
    BY <1>3
  <1>5. s.files = st.files /\ s.dirs = st.dirs /\ s.kept = st.kept
        /\ s.ops = [i \in DOMAIN st.ops |-> n[st.ops[i]]]
    BY <1>4 DEF Stores
  <1>6. \A o \in Queued(st) : /\ n[o].tag = o.tag /\ n[o].kind = o.kind /\ n[o].file = o.file
                              /\ n[o].remote = o.remote /\ n[o].at = o.at
    BY <1>1
  <1>7. s \in Tidied(st, F, D)
    BY <1>5, <1>6, TidyAnew
  <1>8. BehindFrom(st.ops, s.ops, st.files, s.files)
    <2>1. \A i \in DOMAIN st.ops : s.ops[i] = n[st.ops[i]]
      BY <1>5
    <2> QED BY <1>2, <1>5, <1>6, <2>1, BehindAnew
  <1>9. \A o \in Queued(s) : \E p \in Queued(st) : o.tag = p.tag /\ o.kind = p.kind
    BY <1>2, <1>5, <1>6 DEF Queued
  <1> QED BY <1>5, <1>7, <1>8, <1>9

\* forgetFile.
LEMMA ForgetFileTidy ==
  ASSUME NEW st \in Stores, NEW F, NEW D, NEW f \in FileIds, Homed(st.files, st.dirs)
  PROVE  LET s == ForgetFile(st, f)
         IN  /\ s \in Tidied(st, F, D) /\ s.dirs = st.dirs /\ Homed(s.files, s.dirs)
             /\ BehindFrom(st.ops, s.ops, st.files, s.files)
  <1> DEFINE gone == UploadsOf(st, f) \cup MovesOf(st, f)
             w == Withdraw(st, gone)
             s == ForgetFile(st, f)
  <1>1. /\ w \in Stores /\ w.files = st.files /\ w.dirs = st.dirs /\ Queued(w) = Queued(st) \ gone
    BY QueueLess
  <1>2. \A o \in gone : o.kind # "rmdir"
    BY DEF UploadsOf, MovesOf
  <1>3. \A o \in Queued(st) : MoveOf(o, f) => o \in gone
    BY DEF MovesOf, OpsForFile, MoveOf
  <1>4. w \in Tidied(st, F, D) /\ BehindFrom(st.ops, w.ops, st.files, st.files)
    BY <1>2, TidyLess, BehindLess
  <1>5. s = PutFile(w, f, NoRow)
    BY DEF ForgetFile
  <1> HIDE DEF w, gone, s
  <1>6. /\ s \in Tidied(w, F, D) /\ s.dirs = w.dirs /\ s.ops = w.ops /\ s.files[f] = NoRow
        /\ \A g \in FileIds \ {f} : s.files[g] = w.files[g]
    BY <1>1, <1>5, PutIs
  <1>7. BehindFrom(w.ops, s.ops, st.files, s.files)
    <2>1. ASSUME NEW i \in DOMAIN w.ops PROVE Takes(w.ops[i], s.files) = Takes(w.ops[i], st.files)
      <3>1. w.ops[i] \in Queued(w) /\ w.ops[i] \in OwedOps
        BY <1>1, StoreTyped DEF Queued
      <3>2. w.ops[i].kind = "move-file" => w.ops[i].file \in FileIds \ {f}
        BY <1>1, <1>3, <3>1 DEF OwedOps, OpOK, MoveOf
      <3> QED BY <1>1, <1>6, <3>2 DEF Takes
    <2> QED BY <1>6, <2>1 DEF BehindFrom
  <1>8. Homed(s.files, s.dirs)
    BY <1>1, <1>6 DEF Homed
  <1> QED BY <1>1, <1>4, <1>6, <1>7, <1>8, TidyTrans, BehindTrans DEF s

\* rmdirsBehind: they are all there again, and under new numbers.
LEMMA RmdirsBehindTidy ==
  ASSUME NEW st \in Stores, NEW F, NEW at
  PROVE  LET s == RmdirsBehind(st, at)
         IN  s \in Tidied(st, F, {}) /\ s.files = st.files /\ s.dirs = st.dirs
  <1> DEFINE over == OpsAt(st, "rmdir", at.dir)
             these == RmdirsAt(st, at.dir)
             N == Len(these)
             D == {at.dir}
             Back(s, o) == \E p \in Queued(s) : p.kind = "rmdir" /\ p.at.dir = o.at.dir /\ p.remote = o.remote
             G == {s \in Tidied(st, F, D) : s.files = st.files /\ s.dirs = st.dirs}
             T == [i \in 0..N |-> {s \in G : \A k \in 1..N : k <= i => Back(s, these[k])}]
  <1>1. /\ N \in Nat /\ \A i \in 1..N : these[i] \in over /\ these[i] \in OwedOps
        /\ \A o \in over : \E i \in 1..N : these[i] = o
    BY RmdirsAtAre
  <1>2. \A i \in 0..N : T[i] = {s \in G : \A k \in 1..N : k <= i => Back(s, these[k])}
    OBVIOUS
  <1>3. \A o \in over : o.kind = "rmdir" /\ o.at.dir \in D
    BY DEF OpsAt
  <1>4. \A o \in Queued(st) : o.kind = "rmdir" /\ o.at.dir \in D => o \in over
    BY DEF OpsAt
  <1>5. G \subseteq Stores
    BY DEF Tidied
  <1>6. Withdraw(st, over) \in G
    <2> HIDE DEF over, D
    <2> QED BY <1>3, TidyLess, QueueLess
  <1> HIDE DEF T
  <1>7. Withdraw(st, over) \in T[0]
    <2>1. \A k \in 1..N : ~(k <= 0)
      BY <1>1
    <2>2. 0 \in 0..N
      BY <1>1
    <2> HIDE DEF G
    <2> QED BY <1>2, <1>6, <2>1, <2>2
  <1>8. \A i \in 0..N : T[i] \subseteq Stores
    BY <1>2, <1>5
  <1>9. ASSUME NEW i \in 1..N, NEW s \in T[i - 1] PROVE Add(s, these[i]) \in T[i]
    <2> DEFINE a == Add(s, these[i])
    <2>1. i \in 0..N /\ i - 1 \in 0..N /\ \A k \in 1..N : k <= i <=> k <= i - 1 \/ k = i
      BY <1>1
    <2>2. s \in G /\ \A k \in 1..N : k <= i - 1 => Back(s, these[k])
      <3> HIDE DEF G, Back, N, these
      <3>1. T[i - 1] = {x \in G : \A k \in 1..N : k <= i - 1 => Back(x, these[k])}
        BY <1>2, <2>1
      <3> QED BY <3>1
    <2>3. s \in Stores /\ these[i] \in OwedOps /\ these[i].kind = "rmdir"
      BY <1>1, <1>3, <1>5, <2>2
    <2> HIDE DEF these
    <2>4. PICK p : NewOp(p, these[i], s.kept) /\ Queued(a) = Queued(s) \cup {p}
      BY <2>3, QueueMore
    <2>5. a \in Tidied(s, F, D) /\ a.files = s.files /\ a.dirs = s.dirs
      BY <2>3, TidyMore, QueueMore
    <2>6. a \in G
      BY <2>2, <2>5, TidyTrans
    <2>7. p.kind = "rmdir" /\ p.at.dir = these[i].at.dir /\ p.remote = these[i].remote
      BY <2>3, <2>4, NewOpIs
    <2>8. Back(a, these[i])
      BY <2>4, <2>7
    <2>9. \A k \in 1..N : Back(s, these[k]) => Back(a, these[k])
      BY <2>4
    <2> HIDE DEF a, G
    <2>10. \A k \in 1..N : k <= i => Back(a, these[k])
      BY <2>1, <2>2, <2>8, <2>9
    <2> QED BY <1>2, <2>1, <2>6, <2>10 DEF a
  <1>10. RmdirsBehind(st, at) \in T[N]
    BY <1>7, <1>8, <1>9, RmdirsBehindAlong
  <1> DEFINE s == RmdirsBehind(st, at)
  <1>11. N \in 0..N /\ \A k \in 1..N : k <= N
    BY <1>1
  <1> HIDE DEF s
  <1>12. s \in G /\ \A k \in 1..N : Back(s, these[k])
    <2> HIDE DEF G, Back, N, these
    <2>1. T[N] = {x \in G : \A k \in 1..N : k <= N => Back(x, these[k])}
      BY <1>2, <1>11
    <2> QED BY <1>10, <1>11, <2>1 DEF s
  <1>13. RmdirsFrom(Queued(st), Queued(s), {})
    <2> SUFFICES ASSUME NEW o \in Queued(st), o.kind = "rmdir"
                 PROVE  Back(s, o)
      BY DEF RmdirsFrom
    <2>1. CASE o.at.dir \in D
      BY <1>1, <1>4, <1>12, <2>1
    <2>2. CASE o.at.dir \notin D
      BY <1>12, <2>2 DEF Tidied, RmdirsFrom
    <2> QED BY <2>1, <2>2
  <1> QED BY <1>12, <1>13 DEF Tidied, s

\* An op queued for a directory, and the rmdirs of the directory behind it.
LEMMA TakenBehind ==
  ASSUME NEW st \in Stores, NEW op \in OwedOps, NEW at, op.at = at, NEW rows
  PROVE  BehindFrom(st.ops, RmdirsBehind(Add(st, op), at).ops, rows, rows)
  <1> DEFINE a == Add(st, op)
             over == OpsAt(a, "rmdir", at.dir)
             w == Withdraw(a, over)
             I == {i \in DOMAIN a.ops : a.ops[i] \notin over}
             G == {s \in Stores : BehindFrom(st.ops, s.ops, rows, rows)}
  <1>1. a \in Stores
    BY AddIs
  <1>2. PICK t \in Nat \ {0} : a.ops = Append(st.ops, [op EXCEPT !.tag = t]) /\ [op EXCEPT !.tag = t] \in OwedOps
    BY AddIs
  <1> DEFINE p == [op EXCEPT !.tag = t]
  <1>3. p \in OwedOps /\ p.at.dir = at.dir
    BY <1>2 DEF OwedOps, QueuedOps
  <1> HIDE DEF p, a
  <1>4. st.ops \in Seq(OwedOps) /\ a.ops = Append(st.ops, p)
    BY <1>2, StoreTyped DEF p
  <1>5. /\ DOMAIN st.ops = 1..Len(st.ops) /\ Len(st.ops) \in Nat
        /\ DOMAIN a.ops = 1..(Len(st.ops) + 1) /\ a.ops[Len(st.ops) + 1] = p
        /\ \A i \in 1..Len(st.ops) : a.ops[i] = st.ops[i]
    BY <1>3, <1>4
  <1>6. w.ops = Those(a.ops, I) /\ w \in Stores
    <2>1. w.ops = Those(a.ops, I)
      BY <1>1 DEF Withdraw, Stores
    <2> QED BY <1>1, <2>1, QueueLess
  <1>7. PICK g : Picks(a.ops, I \cap DOMAIN a.ops, Those(a.ops, I), g)
    BY <1>1, StoreTyped, ThosePicked
  <1>8. \A i \in I : a.ops[i].kind = "rmdir" => a.ops[i].at.dir # at.dir
    BY DEF OpsAt, Queued
  <1> HIDE DEF I, w, over
  <1>9. BehindFrom(st.ops, w.ops, rows, rows)
    <2> SUFFICES ASSUME NEW i \in DOMAIN w.ops, NEW j \in DOMAIN w.ops, i < j, w.ops[i].kind = "rmdir",
                        w.ops[i].at.dir = w.ops[j].at.dir
                 PROVE  \E k, l \in DOMAIN st.ops :
                          /\ k < l /\ st.ops[k].kind = "rmdir" /\ st.ops[k].at.dir = st.ops[l].at.dir
                          /\ Takes(st.ops[l], rows) = Takes(w.ops[j], rows)
      BY DEF BehindFrom
    <2>1. /\ g[i] \in I /\ g[i] \in DOMAIN a.ops /\ g[j] \in DOMAIN a.ops /\ g[i] < g[j]
          /\ w.ops[i] = a.ops[g[i]] /\ w.ops[j] = a.ops[g[j]]
      BY <1>6, <1>7 DEF Picks
    <2>2. w.ops[i].at.dir # at.dir
      BY <1>8, <2>1
    <2>3. g[j] # Len(st.ops) + 1 /\ g[i] # Len(st.ops) + 1
      BY <1>3, <1>5, <2>1, <2>2
    <2>4. g[i] \in DOMAIN st.ops /\ g[j] \in DOMAIN st.ops
      BY <1>5, <2>1, <2>3
    <2>5. w.ops[i] = st.ops[g[i]] /\ w.ops[j] = st.ops[g[j]]
      BY <1>5, <2>1, <2>4
    <2> QED BY <2>1, <2>4, <2>5
  <1>10. ASSUME NEW s \in G, NEW o \in OwedOps, o.kind = "rmdir" PROVE Add(s, o) \in G
    <2> DEFINE b == Add(s, o)
    <2>1. b \in Stores
      BY AddIs
    <2>2. PICK u \in Nat \ {0} : b.ops = Append(s.ops, [o EXCEPT !.tag = u]) /\ [o EXCEPT !.tag = u] \in OwedOps
      BY AddIs
    <2> DEFINE q == [o EXCEPT !.tag = u]
    <2>3. q \in OwedOps /\ q.kind = "rmdir"
      BY <1>10, <2>2 DEF OwedOps, QueuedOps
    <2> HIDE DEF q, b
    <2>4. s.ops \in Seq(OwedOps) /\ b.ops = Append(s.ops, q)
      BY <2>2, StoreTyped DEF q
    <2>5. /\ DOMAIN s.ops = 1..Len(s.ops) /\ Len(s.ops) \in Nat
          /\ DOMAIN b.ops = 1..(Len(s.ops) + 1) /\ b.ops[Len(s.ops) + 1] = q
          /\ \A i \in 1..Len(s.ops) : b.ops[i] = s.ops[i]
      BY <2>3, <2>4
    <2>6. BehindFrom(s.ops, b.ops, rows, rows)
      <3> SUFFICES ASSUME NEW i \in DOMAIN b.ops, NEW j \in DOMAIN b.ops, i < j, b.ops[i].kind = "rmdir",
                          b.ops[i].at.dir = b.ops[j].at.dir, Takes(b.ops[j], rows) # NoFile
                   PROVE  \E k, l \in DOMAIN s.ops :
                            /\ k < l /\ s.ops[k].kind = "rmdir" /\ s.ops[k].at.dir = s.ops[l].at.dir
                            /\ Takes(s.ops[l], rows) = Takes(b.ops[j], rows)
        BY DEF BehindFrom
      <3>1. j # Len(s.ops) + 1
        BY <2>3, <2>5 DEF Takes
      <3>2. i \in DOMAIN s.ops /\ j \in DOMAIN s.ops /\ b.ops[i] = s.ops[i] /\ b.ops[j] = s.ops[j]
        BY <2>5, <3>1
      <3> QED BY <3>2
    <2>7. BehindFrom(st.ops, b.ops, rows, rows)
      BY <2>6, BehindTrans
    <2> QED BY <2>1, <2>7 DEF b
  <1>11. RmdirsBehind(a, at) \in G
    <2>1. Withdraw(a, OpsAt(a, "rmdir", at.dir)) \in G
      BY <1>6, <1>9 DEF w, over
    <2>2. G \in SUBSET Stores
      OBVIOUS
    <2> HIDE DEF G
    <2> QED BY <1>1, <1>10, <2>1, <2>2, RmdirsBehindIn
  <1> QED BY <1>11 DEF a

\* Rows that no op of the queue takes a file of.
LEMMA SameTaken ==
  ASSUME NEW st \in Stores, NEW f \in FileIds, \A o \in Queued(st) : ~MoveOf(o, f), NEW rows,
         \A g \in FileIds \ {f} : rows[g] = st.files[g], NEW q, q = st.ops
  PROVE  BehindFrom(st.ops, q, st.files, rows)
  <1>1. ASSUME NEW i \in DOMAIN st.ops PROVE Takes(st.ops[i], rows) = Takes(st.ops[i], st.files)
    <2>1. st.ops[i] \in Queued(st) /\ st.ops[i] \in OwedOps
      BY StoreTyped DEF Queued
    <2>2. st.ops[i].kind = "move-file" => st.ops[i].file \in FileIds \ {f}
      BY <2>1 DEF OwedOps, OpOK, MoveOf
    <2> QED BY <2>2 DEF Takes
  <1> QED BY <1>1 DEF BehindFrom

\* settleUpload: what it queues is put behind, and the rmdirs behind that.
LEMMA UploadedTidy ==
  ASSUME NEW st \in Stores, NEW F, NEW f \in FileIds, NEW entry \in Answers, NEW sent
  PROVE  LET s == Uploaded(st, f, entry, sent)
         IN  /\ s \in Tidied(st, F, {}) /\ s.dirs = st.dirs
             /\ entry.at.dir = sent.dir /\ Homed(st.files, st.dirs) => Homed(s.files, s.dirs)
             /\ (\A o \in Queued(st) : ~MoveOf(o, f)) => BehindFrom(st.ops, s.ops, st.files, s.files)
  <1> DEFINE s == Uploaded(st, f, entry, sent)
  <1>1. entry.id \in Ids /\ entry.at \in Paths
    BY DEF Answers
  <1>2. CASE st.files[f] = NoRow
    <2> DEFINE D == DeleteOp(entry.at, entry.id)
               u == Add(st, D)
    <2>1. s = RmdirsBehind(u, entry.at)
      BY <1>2 DEF Uploaded
    <2>2. D \in OwedOps /\ D.at = entry.at
      BY <1>1 DEF DeleteOp, Op, OwedOps, OpOK, QueuedOps, Kinds, Ids
    <2> HIDE DEF D, s
    <2>3. BehindFrom(st.ops, s.ops, st.files, st.files)
      BY <2>1, <2>2, TakenBehind
    <2> DEFINE E == {}
    <2> HIDE DEF E
    <2>4. u \in Tidied(st, F, E) /\ u.files = st.files /\ u.dirs = st.dirs /\ u \in Stores
      BY <2>2, TidyMore, QueueMore
    <2> HIDE DEF u
    <2>5. s \in Tidied(u, F, E) /\ s.files = u.files /\ s.dirs = u.dirs
      BY <2>1, <2>4, RmdirsBehindTidy DEF E
    <2>6. s \in Tidied(st, F, E)
      BY <2>4, <2>5, TidyTrans
    <2> QED BY <2>3, <2>4, <2>5, <2>6 DEF s, E
  <1>3. CASE st.files[f] # NoRow
    <2> DEFINE was == st.files[f]
               moved == was.at # sent
               row == [at |-> IF moved THEN was.at ELSE entry.at, remote |-> entry.id, held |-> was.held]
               u == PutFile(st, f, row)
               M == MoveOp(f, entry.at, was.at)
               v == Add(u, M)
    <2>1. was \in Rows
      BY <1>3, StoreTyped
    <2>2. s = IF moved THEN RmdirsBehind(v, entry.at) ELSE u
      BY <1>3 DEF Uploaded
    <2>3. row \in Rows /\ (entry.at.dir = sent.dir => row.at.dir = was.at.dir)
      <3>1. row.at = IF moved THEN was.at ELSE entry.at
        OBVIOUS
      <3>2. row \in Rows
        BY <1>1, <2>1 DEF Rows
      <3> HIDE DEF row
      <3> QED BY <3>1, <3>2
    <2>4. M \in OwedOps /\ M.at = entry.at
      BY <1>1, <2>1 DEF MoveOp, Op, OwedOps, OpOK, QueuedOps, Kinds, Rows
    <2> HIDE DEF row, M, moved, s
    <2> DEFINE E == {}
    <2> HIDE DEF E
    <2>5. /\ u \in Stores /\ u.ops = st.ops /\ u.dirs = st.dirs
          /\ u.files[f] = row /\ \A g \in FileIds \ {f} : u.files[g] = st.files[g]
          /\ u \in Tidied(st, F, E)
      BY <2>3, PutIs
    <2> HIDE DEF u
    <2>6. entry.at.dir = sent.dir /\ Homed(st.files, st.dirs) => Homed(u.files, u.dirs)
      BY <1>3, <2>3, <2>5 DEF Homed
    <2>7. (\A o \in Queued(st) : ~MoveOf(o, f)) => BehindFrom(st.ops, u.ops, st.files, u.files)
      BY <2>5, SameTaken
    <2>8. v \in Tidied(u, F, E) /\ v.files = u.files /\ v.dirs = u.dirs /\ v \in Stores
      BY <2>4, <2>5, TidyMore, QueueMore
    <2> DEFINE w == RmdirsBehind(v, entry.at)
    <2>9. BehindFrom(u.ops, w.ops, u.files, u.files)
      BY <2>4, <2>5, TakenBehind
    <2> HIDE DEF v
    <2>10. w \in Tidied(v, F, E) /\ w.files = v.files /\ w.dirs = v.dirs
      BY <2>8, RmdirsBehindTidy DEF E
    <2> HIDE DEF w
    <2>11. w \in Tidied(st, F, E)
      BY <2>5, <2>8, <2>10, TidyTrans
    <2>12. (\A o \in Queued(st) : ~MoveOf(o, f)) => BehindFrom(st.ops, w.ops, st.files, w.files)
      BY <2>7, <2>8, <2>9, <2>10, BehindTrans
    <2>13. s \in {u, w}
      BY <2>2 DEF w
    <2> QED BY <2>5, <2>6, <2>7, <2>8, <2>10, <2>11, <2>12, <2>13 DEF s, E
  <1> QED BY <1>2, <1>3

\* settleFileMove: the file's move says where the file is now.
LEMMA MovedFileTidy ==
  ASSUME NEW st \in Stores, NEW D, NEW f \in FileIds, NEW entry \in Answers, NEW withdrawn \in BOOLEAN
  PROVE  LET s == MovedFile(st, f, entry, withdrawn)
         IN  /\ s \in Tidied(st, f, D) /\ s.dirs = st.dirs
             /\ /\ Homed(st.files, st.dirs)
                /\ ~withdrawn /\ st.files[f] # NoRow => entry.at.dir = st.files[f].at.dir
                => Homed(s.files, s.dirs)
  <1> DEFINE s == MovedFile(st, f, entry, withdrawn)
  <1>1. entry.id \in Ids /\ entry.at \in Paths
    BY DEF Answers
  <1>2. CASE st.files[f] = NoRow
    <2>1. s = st
      BY <1>2 DEF MovedFile
    <2> QED BY <2>1, TidyItself
  <1>3. CASE st.files[f] # NoRow
    <2> DEFINE was == st.files[f]
               held == was.held /\ was.remote = entry.id
               landed == [was EXCEPT !.remote = entry.id, !.held = held]
               row == IF withdrawn THEN landed ELSE [landed EXCEPT !.at = entry.at]
               u == PutFile(st, f, row)
               n == [o \in Queued(st) |-> IF o.kind = "move-file" /\ o.file = f THEN [o EXCEPT !.at = entry.at] ELSE o]
               v == FileOriginIsNow(u, f, entry.at)
               M == MoveOp(f, entry.at, was.at)
    <2>1. was \in Rows
      BY <1>3, StoreTyped
    <2>2. s \in {v, Add(v, M)}
      BY <1>3 DEF MovedFile
    <2>3. row \in Rows /\ (withdrawn \/ entry.at.dir = was.at.dir => row.at.dir = was.at.dir)
      <3>1. held \in BOOLEAN
        OBVIOUS
      <3>2. landed \in Rows /\ landed.at = was.at
        <4> HIDE DEF held
        <4> QED BY <2>1, <3>1, <1>1 DEF Rows
      <3> HIDE DEF landed
      <3>3. row \in Rows /\ row.at = IF withdrawn THEN was.at ELSE entry.at
        BY <3>2, <1>1 DEF Rows
      <3> HIDE DEF row
      <3> QED BY <1>3, <3>3
    <2>4. M \in OwedOps
      BY <1>1, <2>1 DEF MoveOp, Op, OwedOps, OpOK, QueuedOps, Kinds, Rows
    <2> HIDE DEF row, M, s
    <2>5. /\ u \in Stores /\ u.ops = st.ops /\ u.dirs = st.dirs /\ Queued(u) = Queued(st)
          /\ u.files[f] = row /\ \A g \in FileIds \ {f} : u.files[g] = st.files[g]
          /\ u \in Tidied(st, f, D)
      BY <2>3, PutIs
    <2> HIDE DEF u
    <2>6. Homed(st.files, st.dirs) /\ (withdrawn \/ entry.at.dir = was.at.dir) => Homed(u.files, u.dirs)
      BY <1>3, <2>3, <2>5 DEF Homed
    <2>7. ASSUME NEW o \in Queued(u)
          PROVE  /\ n[o] \in OwedOps /\ n[o].tag = o.tag /\ n[o].kind = o.kind /\ n[o].file = o.file
                 /\ n[o].remote = o.remote /\ (o.kind # "upload" => n[o].at = o.at \/ MoveOf(o, f))
      <3>1. o \in OwedOps
        BY <2>5, QueueTyped
      <3>2. n[o] = IF o.kind = "move-file" /\ o.file = f THEN [o EXCEPT !.at = entry.at] ELSE o
        BY <2>5
      <3> HIDE DEF n
      <3> QED BY <1>1, <3>1, <3>2 DEF MoveOf, OwedOps, OpOK, QueuedOps
    <2> DEFINE q == [i \in DOMAIN u.ops |-> n[u.ops[i]]]
    <2>8. \A i \in DOMAIN u.ops : u.ops[i] \in Queued(u)
      BY DEF Queued
    <2>9. v = [u EXCEPT !.ops = q]
      <3>1. v = [u EXCEPT !.ops = [i \in DOMAIN u.ops |->
                                     IF u.ops[i].kind = "move-file" /\ u.ops[i].file = f
                                     THEN [u.ops[i] EXCEPT !.at = entry.at] ELSE u.ops[i]]]
        BY DEF FileOriginIsNow, Rewrite
      <3> QED BY <2>5, <2>8, <3>1
    <2> HIDE DEF n
    <2>10. q \in Seq(OwedOps)
      <3>1. Len(u.ops) \in Nat /\ DOMAIN u.ops = 1..Len(u.ops)
        BY <2>5, StoreTyped
      <3>2. q \in [1..Len(u.ops) -> OwedOps]
        BY <2>7, <2>8, <3>1
      <3> HIDE DEF q
      <3> QED BY <3>1, <3>2
    <2> HIDE DEF v
    <2>11. v \in Stores /\ v.files = u.files /\ v.dirs = u.dirs /\ v.kept = u.kept /\ v.ops = q
      <3> HIDE DEF q
      <3> QED BY <2>5, <2>9, <2>10 DEF Stores
    <2>12. v \in Tidied(u, f, D)
      BY <2>5, <2>7, <2>11, TidyAnew
    <2>13. /\ Add(v, M) \in Tidied(v, f, D) /\ v \in Tidied(v, f, D)
           /\ Add(v, M).files = v.files /\ Add(v, M).dirs = v.dirs
      BY <2>4, <2>11, TidyMore, QueueMore, TidyItself
    <2>14. s \in Tidied(v, f, D) /\ s.files = v.files /\ s.dirs = v.dirs
      BY <2>2, <2>13
    <2>15. s \in Tidied(st, f, D)
      BY <2>5, <2>12, <2>14, TidyTrans
    <2> QED BY <1>3, <2>5, <2>6, <2>11, <2>14, <2>15 DEF s
  <1> QED BY <1>2, <1>3

\* settle, of a folder that was made.
LEMMA MadeFolderTidy ==
  ASSUME NEW st \in Stores, NEW F, NEW D, NEW d \in Notebooks, NEW id \in Nat, Homed(st.files, st.dirs)
  PROVE  LET s == MadeFolder(st, d, id)
         IN  /\ s \in Tidied(st, F, D) /\ s.files = st.files /\ s.ops = st.ops /\ Homed(s.files, s.dirs)
             /\ \A c \in Notebooks : s.dirs[c] = st.dirs[c] \/ (st.dirs[c] # NoRow /\ s.dirs[c] = id /\ c = d)
  <1>1. CASE st.dirs[d] = NoRow
    BY <1>1, TidyItself DEF MadeFolder
  <1>2. CASE st.dirs[d] # NoRow
    <2> DEFINE s == [st EXCEPT !.dirs[d] = id]
    <2>1. /\ s \in Stores /\ s.files = st.files /\ s.ops = st.ops /\ s.kept = st.kept
          /\ s.dirs[d] = id /\ \A c \in Notebooks \ {d} : s.dirs[c] = st.dirs[c]
      BY DEF Stores
    <2>2. MadeFolder(st, d, id) = s
      BY <1>2 DEF MadeFolder
    <2> HIDE DEF s
    <2>3. id # NoRow
      BY NothingAssumption
    <2>4. Homed(s.files, s.dirs)
      BY <1>2, <2>1, <2>3 DEF Homed
    <2> QED BY <1>2, <2>1, <2>2, <2>4, TidyItself
  <1> QED BY <1>1, <1>2

-----------------------------------------------------------------------------
(* The steps of the drain, as they have it in common.                        *)

LEMMA NoMoveOfNone ==
  ASSUME NEW s \in Stores
  PROVE  \A o \in Queued(s) : ~MoveOf(o, NoRow)
  BY QueueTyped, NothingAssumption DEF OwedOps, OpOK, MoveOf

LEMMA RemoteStays ==
  ASSUME IInv, UNCHANGED remote
  PROVE  DirsOnward(remote, remote')
  <1>1. remote \in Remotes
    BY DEF IInv, TypeOK, OutsideOK
  <1>2. \A d \in Notebooks : remote.dirs[d].id \in Nat
    BY <1>1 DEF Remotes
  <1> QED BY <1>2 DEF DirsOnward

\* No request is out.
LEMMA Quiet ==
  ASSUME drain'.pc \in {"idle", "turn"}
  PROVE  SentWithin' /\ Unhindered' /\ OneMoveRead'
  BY DEF SentWithin, Unhindered, OneMoveRead, Flight

LEMMA KnownStays ==
  ASSUME IInv, LeftKnown, DirsKnown, DirsOnward(remote, remote'), past'.left = past.left,
         \A d \in Notebooks : dirs'[d] = dirs[d] \/ (dirs[d] # NoRow /\ dirs'[d] = remote'.dirs[d].id)
  PROVE  LeftKnown' /\ DirsKnown'
  <1>1. \A l \in past'.left : l \in past.left /\ dirs'[l[1]] = NoRow
    BY DEF LeftKnown
  <1>2. \A d \in Notebooks : dirs'[d] \in {NoRow, NoDir, dirs[d], remote'.dirs[d].id}
    OBVIOUS
  <1> HIDE DEF IInv, LeftKnown, DirsKnown, DirsOnward
  <1> QED BY <1>1, <1>2, KnownGoes

\* An op is done with.
SettlesTidy(s, op, F) ==
  /\ s \in Tidied(Store, F, {}) /\ Homed(s.files, s.dirs)
  /\ \A o \in Queued(s) : MoveOf(o, F) /\ o.tag \in drain.read => o.tag = op.tag
  /\ BehindFrom(ops, s.ops, files, s.files) \/ Behind(ops', files') \subseteq past'.behind \cup {NoFile}
  /\ \A l \in past.left, o \in Queued(s) : RmdirOf(o, l) /\ o.tag = op.tag => Excused(l)'

LEMMA SettledGoes ==
  ASSUME IInv, IInv', GInv, drain.todo # <<>>, NEW s \in Stores, NEW op, op.tag = Head(drain.todo),
         Settled(s, op), PastOn, past'.left = past.left, DirsOnward(remote, remote'),
         \A d \in Notebooks : s.dirs[d] = dirs[d] \/ (dirs[d] # NoRow /\ s.dirs[d] = remote'.dirs[d].id),
         NEW F, Undisturbed' => SettlesTidy(s, op, F)
  PROVE  GInv'
  <1> DEFINE c == Complete(s, op.tag)
             gone == ByTag(s, op.tag)
             D == Folders
  <1>1. Becomes(c) /\ drain' = NextTurn
    BY StoreIsOne DEF Settled
  <1>2. /\ c \in Stores /\ Queued(c) = {o \in Queued(s) : o.tag # op.tag}
        /\ c.files = s.files /\ c.dirs = s.dirs /\ c = Withdraw(s, gone)
    BY CompleteIs DEF Complete
  <1>3. /\ drain'.pc = "turn" /\ drain'.todo = Tail(drain.todo) /\ drain'.read = drain.read
        /\ drain'.holding = drain.holding
    BY <1>1, NextTurnIs DEF Onward
  <1> HIDE DEF c, gone
  <1>4. Known /\ (Undisturbed => Tidy) /\ (Undisturbed' => Undisturbed)
    BY Before DEF GInv, PastOn
  <1>5. LeftKnown' /\ DirsKnown'
    <2>1. dirs' = s.dirs
      BY <1>1, <1>2 DEF Becomes
    <2> HIDE DEF IInv
    <2> QED BY <1>4, <2>1, KnownStays DEF Known
  <1>6. SentWithin' /\ Unhindered' /\ OneMoveRead'
    BY <1>3, Quiet
  <1>7. ASSUME Undisturbed' PROVE Tidy'
    <2>1. /\ s \in Tidied(Store, F, {}) /\ Homed(s.files, s.dirs)
          /\ \A o \in Queued(s) : MoveOf(o, F) /\ o.tag \in drain.read => o.tag = op.tag
          /\ BehindFrom(ops, s.ops, files, s.files) \/ Behind(ops', files') \subseteq past'.behind \cup {NoFile}
          /\ \A l \in past.left, o \in Queued(s) : RmdirOf(o, l) /\ o.tag = op.tag => Excused(l)'
      BY <1>7 DEF SettlesTidy
    <2>2. Homed(files, dirs) /\ TakenAhead /\ BehindKnown /\ LeftOwed /\ LeftKnown
      BY <1>4, <1>7 DEF Tidy, Known
    <2>3. Homed(files', dirs')
      BY <1>1, <1>2, <2>1 DEF Becomes
    <2>4. TakenAhead'
      <3>1. c \in Tidied(s, F, D)
        <4>1. \A o \in Queued(s) : o.at.dir \in D
          BY QueueTyped DEF OwedOps, QueuedOps, Paths
        <4> QED BY <1>2, <4>1, TidyLess
      <3>2. s \in Tidied(Store, F, D)
        <4>1. {} \subseteq D
          OBVIOUS
        <4> QED BY <2>1, <4>1, TidyMono
      <3> HIDE DEF D, IInv, TakenAhead
      <3>3. c \in Tidied(Store, F, D)
        BY <3>1, <3>2, TidyTrans
      <3>4. \A o \in Queued(c) : MoveOf(o, F) => o.tag \notin drain.read
        BY <1>2, <2>1
      <3>5. \A o \in Queued(c) : o.tag = Head(drain.todo) /\ o.kind \in TakesOne => o.at \in drain'.holding
        BY <1>2
      <3>6. drain.holding \subseteq drain'.holding
        BY <1>3
      <3> QED BY <1>1, <1>3, <2>2, <3>3, <3>4, <3>5, <3>6, AheadGoes
    <2>5. BehindKnown'
      <3>1. CASE BehindFrom(ops, s.ops, files, s.files)
        <4>1. BehindFrom(s.ops, c.ops, s.files, c.files)
          BY <1>2, BehindLess
        <4>2. BehindFrom(ops, c.ops, files, c.files)
          BY <3>1, <4>1, BehindTrans
        <4> HIDE DEF IInv, BehindKnown
        <4> QED BY <1>1, <1>2, <2>2, <4>2, BehindGoes
      <3>2. CASE Behind(ops', files') \subseteq past'.behind \cup {NoFile}
        BY <3>2 DEF BehindKnown, Behind, Takes
      <3> QED BY <2>1, <3>1, <3>2
    <2>6. LeftOwed'
      <3>1. ASSUME NEW l \in past'.left, NEW o \in Queued(Store), RmdirOf(o, l)
            PROVE  Excused(l)' \/ \E p \in Queued(c) : RmdirOf(p, l)
        <4>1. o.kind = "rmdir" /\ o.at.dir \notin {}
          BY <3>1 DEF RmdirOf
        <4>2. PICK p \in Queued(s) : p.kind = "rmdir" /\ p.at.dir = o.at.dir /\ p.remote = o.remote
          BY <2>1, <3>1, <4>1 DEF Tidied, RmdirsFrom
        <4>3. RmdirOf(p, l)
          BY <3>1, <4>2 DEF RmdirOf
        <4>4. CASE p.tag = op.tag
          BY <2>1, <4>3, <4>4
        <4>5. CASE p.tag # op.tag
          BY <1>2, <4>3, <4>5
        <4> QED BY <4>4, <4>5
      <3> HIDE DEF IInv, LeftOwed, LeftKnown
      <3> QED BY <1>1, <2>2, <3>1, LeftGoes
    <2> QED BY <1>6, <2>3, <2>4, <2>5, <2>6 DEF Tidy
  <1> QED BY <1>5, <1>6, <1>7 DEF GInv, Known

\* Nothing is done with: the run ends, or goes on to the next op.
LEMMA KeptGoes ==
  ASSUME IInv, IInv', GInv, PastOn, past'.left = past.left, DirsOnward(remote, remote'),
         NEW s \in Tidied(Store, NoRow, {}), Becomes(s), s.files = files, s.dirs = dirs,
         BehindFrom(ops, s.ops, files, s.files), drain'.pc \in {"idle", "turn"},
         \/ drain'.todo = <<>>
         \/ /\ drain.todo # <<>> /\ drain'.todo = Tail(drain.todo) /\ drain'.read = drain.read
            /\ drain.holding \subseteq drain'.holding
            /\ Undisturbed' =>
                 \A o \in Queued(s) : o.tag = Head(drain.todo) /\ o.kind \in TakesOne => o.at \in drain'.holding
  PROVE  GInv'
  <1>1. Known /\ (Undisturbed => Tidy) /\ (Undisturbed' => Undisturbed) /\ s \in Stores
    BY Before DEF GInv, PastOn, Tidied
  <1>2. dirs' = dirs /\ files' = files
    BY DEF Becomes
  <1>3. LeftKnown' /\ DirsKnown'
    <2> HIDE DEF IInv
    <2> QED BY <1>1, <1>2, KnownStays DEF Known
  <1>4. SentWithin' /\ Unhindered' /\ OneMoveRead'
    BY Quiet
  <1>5. ASSUME Undisturbed' PROVE Tidy'
    <2>2. Homed(files, dirs) /\ TakenAhead /\ BehindKnown /\ LeftOwed /\ LeftKnown
      BY <1>1, <1>5 DEF Tidy, Known
    <2>3. Homed(files', dirs')
      BY <1>2, <2>2
    <2>4. TakenAhead'
      <3>1. CASE drain'.todo = <<>>
        BY <3>1 DEF TakenAhead
      <3>2. CASE drain'.todo # <<>>
        <4> DEFINE D == {}
        <4>1. \A o \in Queued(s) : MoveOf(o, NoRow) => o.tag \notin drain.read
          BY <1>1, NoMoveOfNone
        <4>2. s \in Tidied(Store, NoRow, D)
          OBVIOUS
        <4> HIDE DEF IInv, TakenAhead, D
        <4> QED BY <1>5, <2>2, <3>2, <4>1, <4>2, AheadGoes
      <3> QED BY <3>1, <3>2
    <2>5. BehindKnown'
      <3> HIDE DEF IInv, BehindKnown
      <3> QED BY <1>1, <2>2, BehindGoes
    <2>6. LeftOwed'
      <3>1. ASSUME NEW l \in past'.left, NEW o \in Queued(Store), RmdirOf(o, l)
            PROVE  \E p \in Queued(s) : RmdirOf(p, l)
        <4>1. o.kind = "rmdir" /\ o.at.dir \notin {}
          BY <3>1 DEF RmdirOf
        <4>2. PICK p \in Queued(s) : p.kind = "rmdir" /\ p.at.dir = o.at.dir /\ p.remote = o.remote
          BY <3>1, <4>1 DEF Tidied, RmdirsFrom
        <4> QED BY <3>1, <4>2 DEF RmdirOf
      <3> HIDE DEF IInv, LeftOwed, LeftKnown
      <3> QED BY <2>2, <3>1, LeftGoes
    <2> QED BY <1>4, <2>3, <2>4, <2>5, <2>6 DEF Tidy
  <1> QED BY <1>3, <1>4, <1>5 DEF GInv, Known

\* A request goes out, or goes on.
LEMMA FlightGoes ==
  ASSUME IInv, IInv', GInv, PastOn, past'.left = past.left, DirsOnward(remote, remote'),
         UNCHANGED <<files, dirs, ops>>,
         drain'.todo = drain.todo, drain'.read = drain.read, drain'.holding = drain.holding,
         SentWithin', Unhindered', Undisturbed' => OneMoveRead'
  PROVE  GInv'
  <1>1. Known /\ (Undisturbed => Tidy) /\ (Undisturbed' => Undisturbed)
    BY Before DEF GInv, PastOn
  <1>3. LeftKnown' /\ DirsKnown'
    <2> HIDE DEF IInv
    <2> QED BY <1>1, KnownStays DEF Known
  <1>5. ASSUME Undisturbed' PROVE Tidy'
    <2>2. Homed(files, dirs) /\ TakenAhead /\ BehindKnown /\ LeftOwed /\ LeftKnown
      BY <1>1, <1>5 DEF Tidy, Known
    <2>3. Homed(files', dirs')
      BY <2>2
    <2>4. TakenAhead'
      BY <2>2 DEF TakenAhead, Earlier
    <2>5. BehindKnown'
      BY <2>2 DEF BehindKnown, PastOn, Behind, Takes
    <2>6. LeftOwed'
      <3>1. Becomes(Store)
        BY StoreStays
      <3>2. \A l \in past'.left : l \in past.left
        OBVIOUS
      <3> HIDE DEF IInv, LeftOwed, LeftKnown
      <3> QED BY <2>2, <3>1, <3>2, LeftGoes
    <2> QED BY <1>5, <2>3, <2>4, <2>5, <2>6 DEF Tidy
  <1> QED BY <1>3, <1>5 DEF GInv, Known

-----------------------------------------------------------------------------
(* The directories of the remote.                                            *)

LEMMA MadeOnward ==
  ASSUME NEW w \in Remotes, NEW e \in Folders
  PROVE  DirsOnward(w, DirMade(w, e))
  <1>1. w.dirs \in [Notebooks -> [here : BOOLEAN, id : Nat]]
    BY DEF Remotes
  <1>2. CASE Here(w, e)
    BY <1>1, <1>2 DEF DirMade, DirsOnward
  <1>3. CASE ~Here(w, e)
    <2>1. e \in Notebooks
      BY <1>3 DEF Here, Notebooks
    <2> DEFINE row == [here |-> TRUE, id |-> w.dirs[e].id + 1]
    <2>2. w.dirs[e].id \in Nat /\ row.id = w.dirs[e].id + 1
      BY <1>1, <2>1
    <2>3. DirMade(w, e) = [w EXCEPT !.dirs[e] = row]
      BY <1>3 DEF DirMade
    <2> HIDE DEF row
    <2>4. DirMade(w, e).dirs = [w.dirs EXCEPT ![e] = row]
      BY <2>3 DEF Remotes
    <2>5. \A d \in Notebooks : DirMade(w, e).dirs[d] = IF d = e THEN row ELSE w.dirs[d]
      BY <1>1, <2>4
    <2>6. ASSUME NEW d \in Notebooks
          PROVE  LET a == w.dirs[d]
                     b == DirMade(w, e).dirs[d]
                 IN  a.id \in Nat /\ b.id \in Nat /\ a.id <= b.id /\ (b.here /\ b.id = a.id => a.here)
      <3>1. CASE d = e
        BY <2>2, <2>5, <3>1
      <3>2. CASE d # e
        <4>1. w.dirs[d].id \in Nat
          BY <1>1
        <4> QED BY <2>5, <3>2, <4>1
      <3> QED BY <3>1, <3>2
    <2> QED BY <2>6 DEF DirsOnward
  <1> QED BY <1>2, <1>3

\* What is put there, and a file that is taken from there.
LEMMA PutOnward ==
  ASSUME NEW w \in Remotes, NEW p \in Paths, NEW ours
  PROVE  DirsOnward(w, Created(w, p, ours))
  <1>1. p.dir \in Folders
    BY DEF Paths
  <1>2. Created(w, p, ours).dirs = DirMade(w, p.dir).dirs
    BY DEF Created, Placed
  <1>3. DirsOnward(w, DirMade(w, p.dir))
    BY <1>1, MadeOnward
  <1> QED BY <1>2, <1>3 DEF DirsOnward

LEMMA TakenOnward ==
  ASSUME NEW w \in Remotes, NEW v, v.dirs = w.dirs
  PROVE  DirsOnward(w, v)
  <1>1. \A d \in Notebooks : w.dirs[d].id \in Nat
    BY DEF Remotes
  <1> QED BY <1>1 DEF DirsOnward

\* And what a request makes of them.
LEMMA DoneOnward ==
  ASSUME IInv, remote' = Done(remote), drain.pc \in {"send", "move", "remove", "rmdir", "mkdir"}
  PROVE  DirsOnward(remote, remote')
  <1>1. remote \in Remotes
    BY DEF IInv, TypeOK, OutsideOK
  <1>2. drain.op \in OwedOps /\ drain.at \in Paths /\ drain.op.kind \in KindsAt(drain.pc)
    BY UnderWay
  <1>3. drain.op.at.dir \in Folders /\ drain.at.dir \in Folders
    BY <1>2 DEF OwedOps, QueuedOps, Paths
  <1>4. \A d \in Notebooks : remote.dirs[d].id \in Nat
    BY <1>1 DEF Remotes
  <1>5. DirsOnward(remote, remote)
    BY <1>4 DEF DirsOnward
  <1> HIDE DEF IInv
  <1>6. CASE drain.pc = "send"
    <2>1. DirsOnward(remote, Created(remote, drain.at, TRUE))
      BY <1>1, <1>2, PutOnward
    <2> QED BY <1>5, <1>6, <2>1 DEF Done
  <1>7. CASE drain.pc = "move"
    <2>1. DirsOnward(remote, DirMade(remote, drain.at.dir))
      BY <1>1, <1>3, MadeOnward
    <2>2. \A v, r, o : Placed(v, r, drain.at, o).dirs = v.dirs
      BY DEF Placed
    <2>3. DirsOnward(remote, Placed(DirMade(remote, drain.at.dir), Moving, drain.at, remote.files[Moving].ours))
      BY <2>1, <2>2 DEF DirsOnward
    <2> QED BY <1>5, <1>7, <2>3 DEF Done
  <1>8. CASE drain.pc = "remove"
    <2>1. Done(remote) = [remote EXCEPT !.files[drain.op.remote] = NoFile]
      BY <1>8 DEF Done
    <2>2. remote'.dirs = remote.dirs
      BY <1>1, <2>1 DEF Remotes
    <2> QED BY <1>1, <2>2, TakenOnward
  <1>9. CASE drain.pc = "mkdir"
    BY <1>1, <1>3, <1>9, MadeOnward DEF Done
  <1>10. CASE drain.pc = "rmdir"
    <2>1. remote.dirs \in [Notebooks -> [here : BOOLEAN, id : Nat]]
      BY <1>1 DEF Remotes
    <2>2. remote'.dirs = [remote.dirs EXCEPT ![drain.op.at.dir] = [@ EXCEPT !.here = FALSE]]
      BY <1>1, <1>10 DEF Done, DirGone, Remotes
    <2>3. ASSUME NEW d \in Notebooks
          PROVE  remote'.dirs[d].id = remote.dirs[d].id /\ (remote'.dirs[d].here => remote.dirs[d].here)
      <3>1. CASE d = drain.op.at.dir
        BY <2>1, <2>2, <3>1
      <3>2. CASE d # drain.op.at.dir
        BY <2>1, <2>2, <3>2
      <3> QED BY <3>1, <3>2
    <2> QED BY <1>4, <2>3 DEF DirsOnward
  <1> QED BY <1>6, <1>7, <1>8, <1>9, <1>10

-----------------------------------------------------------------------------
(* The turns.                                                                *)

LEMMA PastStays ==
  ASSUME UNCHANGED past
  PROVE  PastOn /\ past'.left = past.left
  BY DEF PastOn

\* An op is done with, and the store left as it is.
LEMMA SettledItself ==
  ASSUME IInv, IInv', GInv, drain.todo # <<>>, NEW op, op.tag = Head(drain.todo),
         Settled(Store, op), PastOn, past'.left = past.left, DirsOnward(remote, remote'),
         Undisturbed' => \A l \in past.left, o \in Queued(Store) :
                           RmdirOf(o, l) /\ o.tag = op.tag => Excused(l)'
  PROVE  GInv'
  <1> DEFINE s == Store
             none == NoRow
  <1>1. s \in Stores /\ s.files = files /\ s.dirs = dirs /\ s.ops = ops
    BY WhatHolds
  <1>2. ASSUME Undisturbed' PROVE SettlesTidy(s, op, none)
    <2>1. Homed(files, dirs)
      BY <1>2, Before DEF GInv, PastOn, Tidy
    <2>2. s \in Tidied(Store, none, {})
      BY <1>1, TidyItself
    <2>3. BehindFrom(ops, s.ops, files, s.files)
      BY <1>1 DEF BehindFrom
    <2>4. \A o \in Queued(s) : ~MoveOf(o, none)
      BY <1>1, NoMoveOfNone
    <2> QED BY <1>1, <1>2, <2>1, <2>2, <2>3, <2>4 DEF SettlesTidy
  <1>3. Settled(s, op) /\ \A d \in Notebooks : s.dirs[d] = dirs[d]
    BY <1>1
  <1> HIDE DEF s, none, IInv, GInv
  <1> QED BY <1>1, <1>2, <1>3, SettledGoes

LEMMA TurnEndsGoes ==
  ASSUME IInv, IInv', GInv, DrainEnds \/ PassOver \/ HoldBack PROVE GInv'
  <1>0. OutsideOK
    BY DEF IInv, TypeOK
  <1>1. /\ UNCHANGED <<files, dirs, ops, remote>> /\ drain.pc = "turn"
        /\ past' = past \/ \E crossed : past' = [past EXCEPT !.crossed = crossed]
    BY DEF DrainEnds, PassOver, HoldBack, Turn
  <1>2. PastOn /\ past'.left = past.left
    BY <1>0, <1>1 DEF PastOn, OutsideOK, Kept
  <1>3. DirsOnward(remote, remote')
    BY <1>1, RemoteStays
  <1> DEFINE s == Store
  <1>4. /\ s \in Stores /\ s.files = files /\ s.dirs = dirs /\ s.ops = ops /\ Becomes(s)
    BY <1>1, WhatHolds, StoreStays
  <1>5. s \in Tidied(Store, NoRow, {}) /\ BehindFrom(ops, s.ops, files, s.files)
    BY <1>4, TidyItself DEF BehindFrom
  <1>6. drain'.pc \in {"idle", "turn"}
        /\ \/ drain'.todo = <<>>
           \/ /\ drain.todo # <<>> /\ drain'.todo = Tail(drain.todo) /\ drain'.read = drain.read
              /\ drain.holding \subseteq drain'.holding
              /\ \A o \in Queued(s) : o.tag = Head(drain.todo) /\ o.kind \in TakesOne => o.at \in drain'.holding
    <2>1. CASE DrainEnds
      BY <2>1 DEF DrainEnds, Ends, Rest
    <2>2. CASE PassOver
      <3>1. drain.todo # <<>> /\ Now = {} /\ drain' = NextTurn
        BY <2>2 DEF PassOver
      <3>2. Onward(NextTurn, drain.copying, drain.holding, drain.failed, drain.stuck)
        BY <3>1, NextTurnIs
      <3>3. \A o \in Queued(s) : o.tag # Head(drain.todo)
        BY <3>1 DEF Now, ByTag
      <3> QED BY <3>1, <3>2, <3>3 DEF Onward
    <2>3. CASE HoldBack
      <3>1. PICK op \in Now :
              drain' = HeldBack(op, NextTurn)
        BY <2>3 DEF HoldBack
      <3>2. drain.todo # <<>> /\ op.tag = Head(drain.todo)
        BY TurnsOp
      <3>3. Onward(NextTurn, drain.copying, drain.holding, drain.failed, drain.stuck)
        BY <3>2, NextTurnIs
      <3>4. /\ drain'.pc = "turn" /\ drain'.todo = Tail(drain.todo) /\ drain'.read = drain.read
            /\ drain.holding \subseteq drain'.holding /\ (op.kind # "rmdir" => op.at \in drain'.holding)
        BY <3>1, <3>3 DEF Onward, Drains, HeldBack
      <3>5. \A o \in Queued(s) : o.tag = Head(drain.todo) => o = op
        BY <3>2, OneTag
      <3> QED BY <3>2, <3>4, <3>5 DEF TakesOne
    <2> QED BY <2>1, <2>2, <2>3
  <1> HIDE DEF s, IInv, GInv
  <1> QED BY <1>2, <1>3, <1>4, <1>5, <1>6, KeptGoes

LEMMA OutOfAttemptsGoes ==
  ASSUME IInv, IInv', GInv, OutOfAttempts PROVE GInv'
  <1>1. PICK op \in Now :
          CASE op.kind = "rmdir"  -> Settled(Store, op) /\ past' = [past EXCEPT !.gaveUp = TRUE]
                                     /\ UNCHANGED outcome
            [] op.kind = "upload" -> /\ drain' = [StepOver(op, NextTurn) EXCEPT !.stuck = TRUE]
                                     /\ UNCHANGED <<files, dirs, ops, outcome, past>>
            [] OTHER -> Ends("blocked") /\ UNCHANGED <<files, dirs, ops, past>>
    BY DEF OutOfAttempts
  <1>2. UNCHANGED remote /\ drain.pc = "turn"
    BY DEF OutOfAttempts, Turn
  <1>3. OutsideOK
    BY DEF IInv, TypeOK
  <1>4. drain.todo # <<>> /\ op.tag = Head(drain.todo)
    BY TurnsOp
  <1>5. DirsOnward(remote, remote')
    BY <1>2, RemoteStays
  <1>6. CASE op.kind = "rmdir"
    <2>1. Settled(Store, op) /\ past' = [past EXCEPT !.gaveUp = TRUE]
      BY <1>1, <1>6
    <2>2. PastOn /\ past'.left = past.left /\ past'.gaveUp
      BY <1>3, <2>1 DEF PastOn, OutsideOK, Kept
    <2>3. \A l \in past.left : Excused(l)'
      BY <2>2 DEF Excused
    <2> HIDE DEF IInv, GInv
    <2> QED BY <1>4, <1>5, <2>1, <2>2, <2>3, SettledItself
  <1>7. CASE op.kind # "rmdir"
    <2>1. UNCHANGED <<files, dirs, ops, past>>
      BY <1>1, <1>7
    <2> DEFINE s == Store
    <2>2. s \in Stores /\ s.files = files /\ s.dirs = dirs /\ s.ops = ops /\ Becomes(s)
      BY <2>1, WhatHolds, StoreStays
    <2>3. s \in Tidied(Store, NoRow, {}) /\ BehindFrom(ops, s.ops, files, s.files)
      BY <2>2, TidyItself DEF BehindFrom
    <2>4. drain'.pc \in {"idle", "turn"}
          /\ \/ drain'.todo = <<>>
             \/ /\ drain.todo # <<>> /\ drain'.todo = Tail(drain.todo) /\ drain'.read = drain.read
                /\ drain.holding \subseteq drain'.holding
                /\ \A o \in Queued(s) : o.tag = Head(drain.todo) /\ o.kind \in TakesOne => o.at \in drain'.holding
      <3>1. CASE op.kind = "upload"
        <4>1. drain' = [StepOver(op, NextTurn) EXCEPT !.stuck = TRUE]
          BY <1>1, <3>1
        <4>2. Onward(NextTurn, drain.copying, drain.holding, drain.failed, drain.stuck)
          BY <1>4, NextTurnIs
        <4>3. /\ drain'.pc = "turn" /\ drain'.todo = Tail(drain.todo) /\ drain'.read = drain.read
              /\ drain'.holding = drain.holding
          BY <4>1, <4>2 DEF Onward, Drains, StepOver
        <4>4. \A o \in Queued(s) : o.tag = Head(drain.todo) => o.kind \notin TakesOne
          BY <1>4, <3>1, OneTag DEF TakesOne
        <4> QED BY <1>4, <4>3, <4>4
      <3>2. CASE op.kind # "upload"
        <4>1. Ends("blocked")
          BY <1>1, <1>7, <3>2
        <4> QED BY <4>1 DEF Ends, Rest
      <3> QED BY <3>1, <3>2
    <2>5. PastOn /\ past'.left = past.left
      BY <2>1, PastStays
    <2> HIDE DEF s, IInv, GInv
    <2> QED BY <1>5, <2>2, <2>3, <2>4, <2>5, KeptGoes
  <1> QED BY <1>6, <1>7

-----------------------------------------------------------------------------
(* The requests begun.                                                       *)

LEMMA BeginsGoes ==
  ASSUME IInv, IInv', OInv, GInv, Turn, NEW op \in Now, NEW pc \in Calls \ {"rmdir"}, NEW at \in Paths,
         NEW from \in Ids \cup {NoFile}, Goes(op, pc, at, from), op.kind \in KindsAt(pc),
         UNCHANGED <<files, dirs, ops, remote, past>>,
         pc = "move" => at = op.to, pc = "look" => ~AwaitsCopy(op)
  PROVE  GInv'
  <1>1. /\ drain' \in Drains /\ drain'.pc = pc /\ drain'.op = op /\ drain'.at = at
        /\ drain'.todo = drain.todo /\ drain'.read = drain.read /\ drain'.holding = drain.holding
    BY AnyOp
  <1>2. drain'.sent = at
    <2>1. drain \in Drains
      BY WhatHolds
    <2> QED BY <2>1 DEF Goes, Drains
  <1>3. DirsOnward(remote, remote')
    BY RemoteStays
  <1>4. PastOn /\ past'.left = past.left
    BY PastStays
  <1>5. SentWithin'
    BY <1>1, <1>2 DEF SentWithin, Calls
  <1>6. Unhindered'
    <2>1. pc = "look" => op.kind = "rmdir"
      BY DEF KindsAt
    <2>2. pc = "look" => \A p \in drain.holding : p.dir # op.at.dir
      BY <2>1 DEF AwaitsCopy
    <2> QED BY <1>1, <2>2 DEF Unhindered
  <1>7. ASSUME Undisturbed' PROVE OneMoveRead'
    <2> SUFFICES ASSUME op.kind = "move-file",
                        NEW o \in Queued(Store), MoveOf(o, op.file)
                 PROVE  o.tag = op.tag
      <3>1. Queued(Store)' = Queued(Store)
        BY DEF Queued, Store
      <3> QED BY <1>1, <3>1 DEF OneMoveRead
    <2>1. Undisturbed /\ drain.pc # "settle"
      BY <1>4, <1>7, Before DEF PastOn, Turn
    <2>2. OneMove(Queued(Store))
      BY <2>1, PlainOwed DEF OwedBy, Owed
    <2>3. op \in Queued(Store)
      BY TurnsOp, WhatHolds DEF Queued
    <2> QED BY <2>2, <2>3 DEF OneMove
  <1> HIDE DEF IInv, GInv, OInv
  <1> QED BY <1>1, <1>3, <1>4, <1>5, <1>6, <1>7, FlightGoes

\* A turn done with its op: no rmdir.
LEMMA TurnSettles ==
  ASSUME IInv, IInv', GInv, NEW op \in Now, op.kind # "rmdir", Settled(Store, op),
         UNCHANGED <<remote, past>>
  PROVE  GInv'
  <1>1. drain.todo # <<>> /\ op.tag = Head(drain.todo)
    BY TurnsOp
  <1>2. DirsOnward(remote, remote') /\ PastOn /\ past'.left = past.left
    BY RemoteStays, PastStays
  <1>3. \A l \in past.left, o \in Queued(Store) : ~(RmdirOf(o, l) /\ o.tag = op.tag)
    BY OneTag DEF RmdirOf
  <1> HIDE DEF IInv, GInv
  <1> QED BY <1>1, <1>2, <1>3, SettledItself

\* What a row that goes leaves, and the upload with it.
LEMMA ForgottenGoes ==
  ASSUME IInv, IInv', GInv, drain.todo # <<>>, NEW op, op.tag = Head(drain.todo), op.file \in FileIds,
         Settled(ForgetFile(Store, op.file), op), UNCHANGED <<remote, past>>,
         Undisturbed => \A o \in Queued(Store) : o.tag = op.tag => o.kind # "rmdir"
  PROVE  GInv'
  <1> DEFINE s == ForgetFile(Store, op.file)
             none == NoRow
             gone == UploadsOf(Store, op.file) \cup MovesOf(Store, op.file)
             w == Withdraw(Store, gone)
  <1>1. Store \in Stores /\ Store.files = files /\ Store.dirs = dirs /\ Store.ops = ops
    BY WhatHolds
  <1>2. DirsOnward(remote, remote') /\ PastOn /\ past'.left = past.left
    BY RemoteStays, PastStays
  <1>3. w \in Stores /\ Queued(w) = Queued(Store) \ gone /\ w.dirs = Store.dirs
    BY <1>1, QueueLess
  <1>4. s = PutFile(w, op.file, NoRow)
    BY DEF ForgetFile
  <1> HIDE DEF w, s
  <1>5. s \in Stores /\ Queued(s) = Queued(w) /\ s.dirs = w.dirs
    BY <1>3, <1>4, PutIs
  <1> HIDE DEF gone, none
  <1>6. ASSUME Undisturbed' PROVE SettlesTidy(s, op, none)
    <2>1. Homed(files, dirs) /\ Undisturbed
      BY <1>2, <1>6, Before DEF GInv, PastOn, Tidy
    <2> DEFINE D == {}
    <2>2. /\ s \in Tidied(Store, none, D) /\ Homed(s.files, s.dirs)
          /\ BehindFrom(ops, s.ops, files, s.files)
      <3> HIDE DEF D
      <3> QED BY <1>1, <2>1, ForgetFileTidy DEF s
    <2>3. \A o \in Queued(s) : ~MoveOf(o, none)
      BY <1>5, NoMoveOfNone DEF none
    <2>4. \A l \in past.left, o \in Queued(s) : ~(RmdirOf(o, l) /\ o.tag = op.tag)
      BY <1>3, <1>5, <2>1 DEF RmdirOf
    <2> QED BY <2>2, <2>3, <2>4 DEF SettlesTidy
  <1>7. Settled(s, op) /\ \A d \in Notebooks : s.dirs[d] = dirs[d]
    BY <1>1, <1>3, <1>5 DEF s
  <1> HIDE DEF IInv, GInv
  <1> QED BY <1>2, <1>5, <1>6, <1>7, SettledGoes

LEMMA BeginUploadGoes ==
  ASSUME IInv, IInv', OInv, GInv, BeginUpload PROVE GInv'
  <1>1. PICK op \in Now :
          /\ op.kind = "upload"
          /\ LET row == files[op.file]
             IN  IF row = NoRow \/ row.remote # NoFile THEN Settled(Store, op)
                 ELSE IF ~row.held /\ op.copyOf = NoFile THEN Settled(ForgetFile(Store, op.file), op)
                 ELSE Goes(op, IF row.held THEN "send" ELSE "fetch", row.at, NoFile)
                      /\ UNCHANGED <<files, dirs, ops>>
    BY DEF BeginUpload
  <1>2. Turn /\ UNCHANGED <<remote, past>>
    BY DEF BeginUpload
  <1>3. drain.todo # <<>> /\ op.tag = Head(drain.todo) /\ op \in OwedOps
    BY TurnsOp
  <1>4. op.file \in FileIds
    BY <1>1, <1>3 DEF OwedOps, OpOK
  <1>5. CASE Settled(Store, op)
    <2>1. op.kind # "rmdir"
      BY <1>1
    <2> HIDE DEF IInv, GInv
    <2> QED BY <1>2, <1>5, <2>1, TurnSettles
  <1>6. CASE Settled(ForgetFile(Store, op.file), op)
    <2>1. \A o \in Queued(Store) : o.tag = op.tag => o.kind # "rmdir"
      BY <1>1, OneTag
    <2> HIDE DEF IInv, GInv
    <2> QED BY <1>2, <1>3, <1>4, <1>6, <2>1, ForgottenGoes
  <1>7. ASSUME NEW pc \in {"send", "fetch"}, Goes(op, pc, files[op.file].at, NoFile),
               UNCHANGED <<files, dirs, ops>>, files[op.file] # NoRow
        PROVE  GInv'
    <2>1. files[op.file].at \in Paths
      BY <1>4, <1>7, WhatHolds DEF Rows
    <2>2. pc \in Calls \ {"rmdir"} /\ op.kind \in KindsAt(pc) /\ pc # "move" /\ pc # "look"
      BY <1>1 DEF Calls, KindsAt
    <2> DEFINE at == files[op.file].at
               from == NoFile
    <2>3. Goes(op, pc, at, from) /\ from \in Ids \cup {NoFile}
      BY <1>7
    <2> HIDE DEF IInv, GInv, OInv, at, from
    <2> QED BY <1>2, <1>7, <2>1, <2>2, <2>3, BeginsGoes DEF at
  <1> QED BY <1>1, <1>5, <1>6, <1>7

LEMMA BeginMoveGoes ==
  ASSUME IInv, IInv', OInv, GInv, BeginMove PROVE GInv'
  <1>1. PICK op \in Now :
          /\ op.kind = "move-file"
          /\ LET row == files[op.file]
             IN  IF row = NoRow \/ row.remote = NoFile THEN Settled(Store, op)
                 ELSE Goes(op, "move", op.to, row.remote) /\ UNCHANGED <<files, dirs, ops>>
    BY DEF BeginMove
  <1>2. Turn /\ UNCHANGED <<remote, past>>
    BY DEF BeginMove
  <1>3. op \in OwedOps /\ op.to \in Paths
    BY TurnsOp
  <1>4. op.file \in FileIds
    BY <1>1, <1>3 DEF OwedOps, OpOK
  <1>5. CASE Settled(Store, op)
    <2>1. op.kind # "rmdir"
      BY <1>1
    <2> HIDE DEF IInv, GInv
    <2> QED BY <1>2, <1>5, <2>1, TurnSettles
  <1>6. ASSUME Goes(op, "move", op.to, files[op.file].remote), UNCHANGED <<files, dirs, ops>>,
               files[op.file] # NoRow
        PROVE  GInv'
    <2> DEFINE at == op.to
               from == files[op.file].remote
               pc == "move"
    <2>1. from \in Ids \cup {NoFile}
      BY <1>4, <1>6, WhatHolds DEF Rows
    <2>2. pc \in Calls \ {"rmdir"} /\ op.kind \in KindsAt(pc) /\ pc # "look" /\ at \in Paths
      BY <1>1, <1>3 DEF Calls, KindsAt
    <2>3. Goes(op, pc, at, from) /\ at = op.to
      BY <1>6
    <2> HIDE DEF IInv, GInv, OInv, at, from, pc
    <2> QED BY <1>2, <1>6, <2>1, <2>2, <2>3, BeginsGoes
  <1> QED BY <1>1, <1>5, <1>6

LEMMA BeginOthersGoes ==
  ASSUME IInv, IInv', OInv, GInv, BeginDelete \/ BeginMkdir PROVE GInv'
  <1>1. PICK op \in Now, pc \in {"remove", "mkdir"} :
          Goes(op, pc, op.at, NoFile) /\ op.kind \in KindsAt(pc)
    BY DEF BeginDelete, BeginMkdir, KindsAt
  <1>2. Turn /\ UNCHANGED <<files, dirs, ops, remote, past>>
    BY DEF BeginDelete, BeginMkdir
  <1>3. op.at \in Paths /\ pc \in Calls \ {"rmdir"} /\ pc # "move" /\ pc # "look"
    BY TurnsOp DEF Calls
  <1> DEFINE at == op.at
             from == NoFile
  <1>4. Goes(op, pc, at, from) /\ from \in Ids \cup {NoFile}
    BY <1>1
  <1> HIDE DEF IInv, GInv, OInv, at, from
  <1> QED BY <1>1, <1>2, <1>3, <1>4, BeginsGoes DEF at

\* A notebook let go of is not the user's again.
LEMMA BeginRmdirGoes ==
  ASSUME IInv, IInv', OInv, GInv, BeginRmdir PROVE GInv'
  <1>1. PICK op \in Now :
          /\ Ready(op) /\ op.kind = "rmdir"
          /\ IF TheUsersAgain(op) THEN Settled(Store, op)
             ELSE Goes(op, "look", op.at, NoFile) /\ UNCHANGED <<files, dirs, ops>>
    BY DEF BeginRmdir
  <1>2. Turn /\ UNCHANGED <<remote, past>>
    BY DEF BeginRmdir
  <1>3. drain.todo # <<>> /\ op.tag = Head(drain.todo) /\ op.at \in Paths
    BY TurnsOp
  <1>4. CASE TheUsersAgain(op) /\ Settled(Store, op)
    <2>1. DirsOnward(remote, remote') /\ PastOn /\ past'.left = past.left
      BY <1>2, RemoteStays, PastStays
    <2>2. ASSUME Undisturbed', NEW l \in past.left, NEW o \in Queued(Store), RmdirOf(o, l), o.tag = op.tag
          PROVE  FALSE
      <3>1. Homed(files, dirs) /\ LeftKnown
        BY <2>1, <2>2, Before DEF GInv, PastOn, Tidy, Known
      <3>2. l[1] = op.at.dir
        BY <2>2, OneTag DEF RmdirOf
      <3>3. op.at.dir \in Notebooks /\ dirs[op.at.dir] = NoRow
        BY <3>1, <3>2 DEF LeftKnown
      <3>4. PICK f \in FilesIn(Store, op.at.dir) : TRUE
        BY <1>4, <3>3 DEF TheUsersAgain
      <3>5. f \in FileIds /\ files[f] # NoRow /\ files[f].at.dir = op.at.dir
        <4>1. DOMAIN Store.files = FileIds /\ Store.files = files
          BY WhatHolds
        <4> QED BY <4>1 DEF FilesIn
      <3> QED BY <3>1, <3>3, <3>5 DEF Homed, Notebooks
    <2> HIDE DEF IInv, GInv
    <2> QED BY <1>3, <1>4, <2>1, <2>2, SettledItself
  <1>5. CASE Goes(op, "look", op.at, NoFile) /\ UNCHANGED <<files, dirs, ops>>
    <2> DEFINE at == op.at
               from == NoFile
               pc == "look"
    <2>1. /\ pc \in Calls \ {"rmdir"} /\ op.kind \in KindsAt(pc) /\ pc # "move" /\ ~AwaitsCopy(op)
          /\ at \in Paths /\ from \in Ids \cup {NoFile} /\ Goes(op, pc, at, from)
      BY <1>1, <1>3, <1>5 DEF Calls, KindsAt, Ready
    <2> HIDE DEF IInv, GInv, OInv, at, from, pc
    <2> QED BY <1>2, <1>5, <2>1, BeginsGoes
  <1> QED BY <1>1, <1>4, <1>5

-----------------------------------------------------------------------------
(* The answers.                                                              *)

\* A request goes on to another stage.
LEMMA GoingGoes ==
  ASSUME IInv, IInv', GInv, drain.pc \in {"fetch", "send", "move", "met"},
         NEW pc \in {"send", "move", "met", "settle"}, NEW at, NEW e, Going(drain, drain', pc, at, e),
         drain'.sent = drain.sent, at.dir = drain.at.dir, pc \in {"met", "settle"} => e.at = at,
         DirsOnward(remote, remote'), UNCHANGED <<files, dirs, ops, past>>
  PROVE  GInv'
  <1>1. /\ drain'.pc = pc /\ drain'.at = at /\ drain'.entry = e /\ drain'.op = drain.op
        /\ drain'.todo = drain.todo /\ drain'.read = drain.read /\ drain'.holding = drain.holding
    BY DEF Going
  <1>2. Flight /\ drain.op.kind \in KindsAt(drain.pc)
    BY UnderWay DEF Flight
  <1>3. SentWithin
    BY DEF GInv, Known
  <1>4. drain.op.kind = "move-file" => drain.pc \in {"move", "met"}
    BY <1>2 DEF KindsAt
  <1>5. drain'.at.dir = drain'.sent.dir /\ (drain'.op.kind = "move-file" => drain'.sent = drain'.op.to)
    BY <1>1, <1>3, <1>4 DEF SentWithin
  <1>6. SentWithin'
    BY <1>1, <1>5 DEF SentWithin
  <1>7. Unhindered'
    BY <1>1 DEF Unhindered
  <1>8. PastOn /\ past'.left = past.left
    BY PastStays
  <1>9. ASSUME Undisturbed' PROVE OneMoveRead'
    <2>1. Undisturbed
      BY <1>8, <1>9, Before DEF PastOn
    <2>2. OneMoveRead
      BY <2>1 DEF GInv, Tidy
    <2>3. Queued(Store)' = Queued(Store)
      BY DEF Queued, Store
    <2> QED BY <1>1, <1>2, <2>2, <2>3 DEF OneMoveRead
  <1> HIDE DEF IInv, GInv
  <1> QED BY <1>1, <1>6, <1>7, <1>8, <1>9, FlightGoes

\* The stage, and where the file was when the op began.
LEMMA SentStays ==
  ASSUME NEW pc, NEW at, NEW e, drain \in Drains
  PROVE  /\ [drain EXCEPT !.pc = pc].sent = drain.sent
         /\ [drain EXCEPT !.entry = e, !.pc = pc].sent = drain.sent
         /\ [drain EXCEPT !.pc = pc, !.at = at, !.entry = e].sent = drain.sent
  BY DEF Drains

LEMMA FetchedGoes ==
  ASSUME IInv, IInv', OInv, GInv, Fetched PROVE GInv'
  <1>1. drain.pc = "fetch" /\ UNCHANGED <<remote, past>>
    BY DEF Fetched
  <1>2. /\ drain.op \in OwedOps /\ drain.op.kind = "upload" /\ drain.at \in Paths
        /\ drain.todo # <<>> /\ drain.op.tag = Head(drain.todo)
    BY <1>1, UnderWay DEF KindsAt
  <1>3. CASE drain' = [drain EXCEPT !.pc = "send"] /\ UNCHANGED <<files, dirs, ops>>
    <2>1. drain \in Drains
      BY DrainIs
    <2>2. "send" \in Stages
      BY LaterStages
    <2> DEFINE pc == "send"
               at == drain.at
               e == drain.entry
    <2>3. Going(drain, drain', pc, at, e)
      BY <1>2, <1>3, <2>1, <2>2, StageIs, Zenon
    <2>4. drain'.sent = drain.sent
      BY <1>3, <2>1, SentStays
    <2>5. DirsOnward(remote, remote')
      BY <1>1, RemoteStays
    <2>6. pc \in {"send", "move", "met", "settle"} /\ pc \notin {"met", "settle"} /\ at.dir = drain.at.dir
      OBVIOUS
    <2> HIDE DEF pc, at, e, IInv, GInv
    <2> QED BY <1>1, <1>3, <2>3, <2>4, <2>5, <2>6, GoingGoes
  <1>4. CASE Settled(ForgetFile(Store, drain.op.file), drain.op)
    <2> DEFINE op == drain.op
    <2>1. op.file \in FileIds /\ op.tag = Head(drain.todo)
      BY <1>2 DEF OwedOps, OpOK
    <2>2. Undisturbed => \A o \in Queued(Store) : o.tag = op.tag => o.kind # "rmdir"
      BY <1>1, <1>2, Owing DEF AsRead, Like, Flight
    <2>3. Settled(ForgetFile(Store, op.file), op)
      BY <1>4
    <2> HIDE DEF op, IInv, GInv, OInv
    <2> QED BY <1>1, <1>2, <2>1, <2>2, <2>3, ForgottenGoes
  <1> QED BY <1>3, <1>4 DEF Fetched

LEMMA SentToGoes ==
  ASSUME IInv, IInv', GInv, SentTo PROVE GInv'
  <1> DEFINE pc == IF AtName(remote, drain.at) = {} THEN "settle" ELSE "met"
             e == Entry(remote')
             at == drain.at
  <1>1. /\ drain.pc = "send" /\ remote' = Done(remote)
        /\ AtName(remote, drain.at) = {} => remote.made < MaxRemote
        /\ drain' = [drain EXCEPT !.entry = e, !.pc = pc]
        /\ UNCHANGED <<files, dirs, ops, past>>
    BY DEF SentTo
  <1>2. at \in Paths
    BY <1>1, UnderWay
  <1>3. remote' \in Remotes
    BY <1>1, DoneOK
  <1>4. AtName(remote', drain.at) # {}
    BY <1>1, SentThere
  <1>5. e \in Answers /\ e.at = at
    <2>1. e \in Answers
      BY <1>2, <1>3, <1>4, EntryAt
    <2> QED BY <2>1 DEF Entry
  <1>6. pc \in Stages /\ pc \in {"send", "move", "met", "settle"}
    BY LaterStages
  <1>7. drain \in Drains
    BY DrainIs
  <1>8. DirsOnward(remote, remote')
    BY <1>1, DoneOnward
  <1> HIDE DEF pc, e, IInv, GInv
  <1>9. Going(drain, drain', pc, at, e)
    BY <1>1, <1>2, <1>5, <1>6, <1>7, StageIs, Zenon
  <1>10. drain'.sent = drain.sent
    BY <1>1, <1>7, SentStays
  <1>11. at.dir = drain.at.dir
    OBVIOUS
  <1> HIDE DEF at
  <1> QED BY <1>1, <1>5, <1>6, <1>8, <1>9, <1>10, <1>11, GoingGoes

LEMMA MoveLandedGoes ==
  ASSUME IInv, IInv', OInv, GInv, MoveLanded PROVE GInv'
  <1>1. drain.pc = "move" /\ remote' = Done(remote) /\ UNCHANGED past
    BY DEF MoveLanded
  <1>2. /\ drain.at \in Paths /\ drain.todo # <<>> /\ drain.op.tag = Head(drain.todo)
    BY <1>1, UnderWay
  <1>3. DirsOnward(remote, remote') /\ PastOn /\ past'.left = past.left
    BY <1>1, DoneOnward, PastStays
  <1>4. CASE remote.files[Moving] = NoFile
    <2> DEFINE op == drain.op
    <2>1. Settled(Store, op)
      BY <1>4 DEF MoveLanded
    <2>2. Undisturbed' => Undisturbed
      BY <1>3, Before DEF PastOn
    <2>3. Undisturbed => \A o \in Queued(Store) : o.tag # op.tag
      BY <1>1, <1>4, MovesTheRows
    <2>4. op.tag = Head(drain.todo)
      BY <1>2
    <2> HIDE DEF op, IInv, GInv, OInv
    <2> QED BY <1>2, <1>3, <2>1, <2>2, <2>3, <2>4, SettledItself
  <1>5. CASE remote.files[Moving] # NoFile
    <2> DEFINE pc == IF AtName(remote, drain.at) \subseteq {Moving} THEN "settle" ELSE "met"
               e == Entry(remote')
               at == drain.at
    <2>1. drain' = [drain EXCEPT !.entry = e, !.pc = pc] /\ UNCHANGED <<files, dirs, ops>>
      BY <1>5 DEF MoveLanded
    <2>2. remote' \in Remotes
      BY <1>1, DoneOK
    <2>3. AtName(remote', drain.at) # {}
      BY <1>1, <1>5, MovedThere
    <2>4. e \in Answers /\ e.at = at
      <3>1. e \in Answers
        BY <1>2, <2>2, <2>3, EntryAt
      <3> QED BY <3>1 DEF Entry
    <2>5. pc \in Stages /\ pc \in {"send", "move", "met", "settle"}
      BY LaterStages
    <2>6. drain \in Drains
      BY DrainIs
    <2> HIDE DEF pc, e, IInv, GInv
    <2>7. Going(drain, drain', pc, at, e)
      BY <1>2, <2>1, <2>4, <2>5, <2>6, StageIs, Zenon
    <2>8. drain'.sent = drain.sent
      BY <2>1, <2>6, SentStays
    <2>9. at.dir = drain.at.dir
      OBVIOUS
    <2> HIDE DEF at
    <2> QED BY <1>1, <1>3, <2>1, <2>4, <2>5, <2>7, <2>8, <2>9, GoingGoes
  <1> QED BY <1>4, <1>5

LEMMA MetGoes ==
  ASSUME IInv, IInv', GInv, Met PROVE GInv'
  <1> DEFINE free == FreeName({remote.files[i].at.k : i \in FilesThere(remote, drain.at.dir)}
                              \cup NamesHere(Store, drain.at.dir))
             again == IF drain.op.kind = "upload" THEN "send" ELSE "move"
             other == Path(drain.at.dir, free)
             none == NoFile
  <1>1. /\ drain.pc = "met" /\ UNCHANGED <<files, dirs, ops, remote, past>>
        /\ drain' = IF Adoptable(drain.entry) THEN [drain EXCEPT !.pc = "settle"]
                    ELSE [drain EXCEPT !.pc = again, !.at = other, !.entry = none]
    BY DEF Met
  <1>2. drain.at \in Paths
    BY <1>1, UnderWay
  <1>3. other \in Paths /\ other.dir = drain.at.dir
    <2>1. free \in Nat
      BY FreeThere
    <2> HIDE DEF free
    <2> QED BY <1>2, <2>1 DEF Path, Paths
  <1>4. drain \in Drains
    BY DrainIs
  <1>5. DirsOnward(remote, remote')
    BY <1>1, RemoteStays
  <1>6. SentWithin
    BY DEF GInv, Known
  <1> HIDE DEF other
  <1>7. CASE Adoptable(drain.entry)
    <2> DEFINE pc == "settle"
               at == drain.at
               e == drain.entry
    <2>1. drain' = [drain EXCEPT !.pc = pc]
      BY <1>1, <1>7
    <2>2. pc \in Stages /\ pc \in {"send", "move", "met", "settle"}
      BY LaterStages
    <2>3. Going(drain, drain', pc, at, e)
      BY <1>2, <1>4, <2>1, <2>2, StageIs, Zenon
    <2>4. drain'.sent = drain.sent
      BY <1>4, <2>1, SentStays
    <2>5. at.dir = drain.at.dir /\ e.at = at
      BY <1>1, <1>6 DEF SentWithin
    <2> HIDE DEF pc, at, e, IInv, GInv
    <2> QED BY <1>1, <1>5, <2>2, <2>3, <2>4, <2>5, GoingGoes
  <1>8. CASE ~Adoptable(drain.entry)
    <2> DEFINE pc == again
               at == other
               e == none
    <2>1. drain' = [drain EXCEPT !.pc = pc, !.at = at, !.entry = e]
      BY <1>1, <1>8
    <2>2. pc \in Stages /\ pc \in {"send", "move", "met", "settle"} /\ pc \notin {"met", "settle"}
      BY LaterStages
    <2> HIDE DEF pc, again
    <2>3. Going(drain, drain', pc, at, e)
      BY <1>3, <1>4, <2>1, <2>2, StageIs, Zenon
    <2>4. drain'.sent = drain.sent
      BY <1>4, <2>1, SentStays
    <2>5. at.dir = drain.at.dir
      BY <1>3
    <2> HIDE DEF at, e, none, IInv, GInv
    <2> QED BY <1>1, <1>5, <2>2, <2>3, <2>4, <2>5, GoingGoes
  <1> QED BY <1>7, <1>8

-----------------------------------------------------------------------------
(* The op is done with.                                                      *)

\* What the run has read of a store, it has read of the one it became of.
LEMMA ReadFrom ==
  ASSUME NEW st \in Stores, NEW rows, NEW s, OpsFrom(st.ops, s.ops, st.kept, rows),
         NEW o \in Queued(s), o.tag \in st.kept
  PROVE  \E p \in Queued(st) : SameOp(p, o)
  <1>1. PICK k \in DOMAIN s.ops : o = s.ops[k]
    BY DEF Queued
  <1>2. PICK i \in DOMAIN st.ops : SameOp(st.ops[i], o)
    BY <1>1 DEF OpsFrom
  <1> QED BY <1>2 DEF Queued

LEMMA SettleGoes ==
  ASSUME IInv, IInv', OInv, GInv, Settle PROVE GInv'
  <1> DEFINE op == drain.op
             f == op.file
             entry == drain.entry
             withdrawn == ByTag(Store, op.tag) = {}
             up == Uploaded(Store, f, entry, drain.sent)
             mv == MovedFile(Store, f, entry, withdrawn)
             A == HereOrTaken
             m == remote.made
  <1>1. /\ drain.pc = "settle" /\ UNCHANGED remote /\ Flight
        /\ Settled(IF op.kind = "upload" THEN up ELSE mv, op)
        /\ past' = [past EXCEPT !.crossed = @ \/ Crossed(ops', files'),
                      !.behind = IF op.kind = "upload" THEN @ ELSE @ \cup Behind(ops', files')]
    BY DEF Settle, Flight
  <1>2. /\ op \in OwedOps /\ op.kind \in {"upload", "move-file"} /\ f \in FileIds
        /\ drain.todo # <<>> /\ op.tag = Head(drain.todo) /\ op.tag \in drain.read
        /\ UploadOK /\ SettleOK /\ entry \in Answers /\ entry.id \in A
    BY <1>1, UnderWay, HeadRead DEF KindsAt, OwedOps, OpOK, MetOK
  <1>3. OutsideOK
    BY DEF IInv, TypeOK
  <1>4. /\ PastOn /\ past'.left = past.left
        /\ op.kind # "upload" => Behind(ops', files') \subseteq past'.behind
    BY <1>1, <1>3 DEF OutsideOK, Kept, PastOn
  <1>5. DirsOnward(remote, remote')
    BY <1>1, RemoteStays
  <1>6. /\ Store \in Stores /\ A \in SUBSET Ids /\ (\A r \in A : r <= m) /\ StoreOK(Store, A, m)
        /\ Store.files = files /\ Store.dirs = dirs /\ Store.ops = ops /\ Store.kept = drain.read
    BY WhatHolds
  <1>7. \A g \in FileIds \ {f} : ~BoundTo(Store.files, g, entry.id)
    BY <1>1, <1>2, <1>6 DEF SettleOK, OthersBoundTo
  <1>8. Store.files[f] # NoRow \/ op.kind = "upload" =>
          \A i \in DOMAIN Store.ops : ~DeleteOf(Store.ops[i], entry.id)
    BY <1>1, <1>2, <1>6 DEF SettleOK, Row
  <1>9. Undisturbed' =>
          /\ Homed(files, dirs) /\ OneMoveRead /\ Owed(files, dirs, Queued(Store), Env)
          /\ \A o \in Queued(Store) : o.tag = op.tag => Like(op, o)
    <2> SUFFICES ASSUME Undisturbed'
                 PROVE  /\ Homed(files, dirs) /\ OneMoveRead /\ Owed(files, dirs, Queued(Store), Env)
                        /\ \A o \in Queued(Store) : o.tag = op.tag => Like(op, o)
      OBVIOUS
    <2>1. Undisturbed
      BY <1>4, Before DEF PastOn
    <2> QED BY <1>1, <1>6, <2>1, Owing DEF GInv, Tidy, AsRead, OwedBy
  <1>10. entry.at.dir = drain.sent.dir /\ (op.kind = "move-file" => drain.sent = op.to)
    BY <1>1 DEF GInv, Known, SentWithin
  <1>11. CASE op.kind = "upload"
    <2> DEFINE s == up
               none == NoRow
    <2>1. Store.files[f] = NoRow \/ Store.files[f].remote = NoFile
      BY <1>2, <1>6, <1>11 DEF UploadOK, Row
    <2>2. /\ s \in Tidied(Store, none, {}) /\ s.dirs = dirs
          /\ Homed(files, dirs) => Homed(s.files, s.dirs)
          /\ (\A o \in Queued(Store) : ~MoveOf(o, f)) => BehindFrom(ops, s.ops, files, s.files)
      BY <1>2, <1>6, <1>10, UploadedTidy
    <2> HIDE DEF A, m, op, f, entry
    <2>3. Fine(Store, up, files, A, m)
      BY <1>2, <1>6, <1>7, <1>8, <1>11, <2>1, UploadedOK
    <2> HIDE DEF up, IInv, GInv
    <2>4. s \in Stores /\ OpsFrom(Store.ops, s.ops, Store.kept, files)
      BY <2>3 DEF Fine
    <2>5. ASSUME Undisturbed' PROVE SettlesTidy(s, op, none)
      <3>1. \A o \in Queued(Store) : ~MoveOf(o, f)
        BY <1>6, <1>9, <2>1, <2>5 DEF Owed, MovesMeant, Bound, MoveOf
      <3>2. \A o \in Queued(s) : ~MoveOf(o, none)
        BY <2>4, NoMoveOfNone
      <3>3. ASSUME NEW o \in Queued(s), o.tag = op.tag PROVE o.kind # "rmdir"
        <4>1. PICK p \in Queued(Store) : SameOp(p, o)
          BY <1>2, <1>6, <2>4, <3>3, ReadFrom
        <4> QED BY <1>9, <1>11, <2>5, <3>3, <4>1 DEF SameOp, Like
      <3> QED BY <1>9, <2>2, <2>5, <3>1, <3>2, <3>3 DEF SettlesTidy, RmdirOf
    <2>6. Settled(s, op) /\ \A d \in Notebooks : s.dirs[d] = dirs[d]
      BY <1>1, <1>11, <2>2
    <2> HIDE DEF s, none
    <2> QED BY <1>2, <1>4, <1>5, <2>4, <2>5, <2>6, SettledGoes
  <1>12. CASE op.kind # "upload"
    <2> DEFINE s == mv
               D == {}
    <2> HIDE DEF D
    <2>1. /\ s \in Tidied(Store, f, D) /\ s.dirs = dirs
          /\ /\ Homed(files, dirs)
             /\ ~withdrawn /\ files[f] # NoRow => entry.at.dir = files[f].at.dir
             => Homed(s.files, s.dirs)
      <3> HIDE DEF f, entry
      <3>1. withdrawn \in BOOLEAN
        OBVIOUS
      <3> HIDE DEF withdrawn
      <3> QED BY <1>2, <1>6, <3>1, MovedFileTidy
    <2>2. op.kind = "move-file"
      BY <1>2, <1>12
    <2> HIDE DEF A, m, f, entry
    <2>3. Fine(Store, mv, files, A, m)
      <3> HIDE DEF withdrawn
      <3> QED BY <1>2, <1>6, <1>7, <1>8, MovedFileOK
    <2> HIDE DEF mv, IInv, GInv
    <2>4. s \in Stores /\ OpsFrom(Store.ops, s.ops, Store.kept, files)
      BY <2>3 DEF Fine
    <2>5. ASSUME Undisturbed' PROVE SettlesTidy(s, op, f)
      <3>1. ~withdrawn => entry.at.dir = files[f].at.dir
        <4> SUFFICES ASSUME ~withdrawn PROVE entry.at.dir = files[f].at.dir
          OBVIOUS
        <4>1. PICK o \in Queued(Store) : o.tag = op.tag
          BY DEF ByTag
        <4>2. o.kind = "move-file" /\ o.file = f /\ o.to = op.to
          BY <1>9, <2>2, <2>5, <4>1 DEF Like, f
        <4>3. o.to = files[f].at
          BY <1>9, <2>5, <4>2 DEF Owed, MovesMeant
        <4> QED BY <1>10, <2>2, <4>2, <4>3
      <3>2. Homed(s.files, s.dirs)
        BY <1>9, <2>1, <2>5, <3>1
      <3>3. ASSUME NEW o \in Queued(s), MoveOf(o, f), o.tag \in drain.read PROVE o.tag = op.tag
        <4>1. PICK p \in Queued(Store) : SameOp(p, o)
          BY <1>6, <2>4, <3>3, ReadFrom
        <4>2. MoveOf(p, f) /\ p.tag = o.tag
          BY <3>3, <4>1 DEF SameOp, MoveOf
        <4> QED BY <1>1, <1>9, <2>2, <2>5, <3>3, <4>2 DEF OneMoveRead, f
      <3>4. ASSUME NEW o \in Queued(s), o.tag = op.tag PROVE o.kind # "rmdir"
        <4>1. PICK p \in Queued(Store) : SameOp(p, o)
          BY <1>2, <1>6, <2>4, <3>4, ReadFrom
        <4> QED BY <1>9, <2>2, <2>5, <3>4, <4>1 DEF SameOp, Like
      <3>5. Behind(ops', files') \subseteq past'.behind \cup {NoFile}
        BY <1>4, <1>12
      <3> QED BY <2>1, <3>2, <3>3, <3>4, <3>5 DEF SettlesTidy, RmdirOf, D
    <2>6. Settled(s, op) /\ \A d \in Notebooks : s.dirs[d] = dirs[d]
      BY <1>1, <1>12, <2>1
    <2> HIDE DEF s, op
    <2> QED BY <1>2, <1>4, <1>5, <2>4, <2>5, <2>6, SettledGoes
  <1> QED BY <1>11, <1>12

\* A file goes that was to go, and a directory.
LEMMA RemovedGoes ==
  ASSUME IInv, IInv', OInv, GInv, Removed \/ RemovedDir PROVE GInv'
  <1> DEFINE op == drain.op
  <1>1. /\ drain.pc \in {"remove", "rmdir"} /\ remote' = Done(remote) /\ Settled(Store, op)
        /\ UNCHANGED past /\ Flight
    BY DEF Removed, RemovedDir, Flight
  <1>2. /\ op \in OwedOps /\ op.kind \in {"delete-file", "rmdir"} /\ (op.kind = "rmdir" <=> drain.pc = "rmdir")
        /\ drain.todo # <<>> /\ op.tag = Head(drain.todo)
    BY <1>1, UnderWay DEF KindsAt
  <1>3. DirsOnward(remote, remote') /\ PastOn /\ past'.left = past.left
    BY <1>1, DoneOnward, PastStays
  <1>4. ASSUME Undisturbed', NEW l \in past.left, NEW o \in Queued(Store), RmdirOf(o, l), o.tag = op.tag
        PROVE  Excused(l)'
    <2>1. Undisturbed
      BY <1>3, <1>4, Before DEF PastOn
    <2>2. Like(op, o)
      BY <1>1, <1>4, <2>1, Owing DEF AsRead
    <2>3. op.kind = "rmdir" /\ l[1] = op.at.dir
      BY <1>4, <2>2 DEF Like, RmdirOf
    <2>4. op.at.dir \in Notebooks
      BY <1>2, <2>3 DEF OwedOps, OpOK
    <2>5. ~remote'.dirs[op.at.dir].here
      <3>1. remote \in Remotes
        BY DEF IInv, TypeOK, OutsideOK
      <3>2. remote.dirs \in [Notebooks -> [here : BOOLEAN, id : Nat]]
        BY <3>1 DEF Remotes
      <3>3. remote'.dirs = [remote.dirs EXCEPT ![op.at.dir] = [@ EXCEPT !.here = FALSE]]
        BY <1>1, <1>2, <2>3, <3>1 DEF Done, DirGone, Remotes
      <3> HIDE DEF op
      <3> QED BY <2>4, <3>2, <3>3
    <2> QED BY <2>3, <2>5 DEF Excused
  <1> HIDE DEF op, IInv, GInv
  <1> QED BY <1>1, <1>2, <1>3, <1>4, SettledItself

\* A directory is made, and its row told.
LEMMA MadeDirGoes ==
  ASSUME IInv, IInv', OInv, GInv, MadeDir PROVE GInv'
  <1> DEFINE op == drain.op
             d == op.at.dir
             id == remote'.dirs[d].id
             s == MadeFolder(Store, d, id)
             none == NoRow
             D == {}
  <1>1. drain.pc = "mkdir" /\ remote' = Done(remote) /\ Settled(s, op) /\ UNCHANGED past /\ Flight
    BY DEF MadeDir, Flight
  <1>2. op.kind = "mkdir" /\ op \in OwedOps /\ drain.todo # <<>> /\ op.tag = Head(drain.todo)
    BY <1>1, UnderWay DEF KindsAt
  <1>3. d \in Notebooks
    BY <1>2 DEF OwedOps, OpOK
  <1>4. DirsOnward(remote, remote') /\ PastOn /\ past'.left = past.left
    BY <1>1, DoneOnward, PastStays
  <1>5. id \in Nat
    BY <1>3, <1>4 DEF DirsOnward
  <1>6. Store \in Stores /\ Store.files = files /\ Store.dirs = dirs /\ Store.ops = ops
    BY WhatHolds
  <1>7. /\ s \in Stores /\ s.files = files /\ s.ops = ops
        /\ \A c \in Notebooks : s.dirs[c] = dirs[c] \/ (dirs[c] # NoRow /\ s.dirs[c] = remote'.dirs[c].id)
    BY <1>3, <1>5, <1>6 DEF MadeFolder, Stores
  <1>8. Queued(s) = Queued(Store)
    BY <1>6, <1>7 DEF Queued
  <1> HIDE DEF D, none
  <1>9. Homed(files, dirs) => s \in Tidied(Store, none, D) /\ Homed(s.files, s.dirs)
    <2> HIDE DEF d, id
    <2> QED BY <1>3, <1>5, <1>6, MadeFolderTidy
  <1> HIDE DEF d, id, s
  <1>10. ASSUME Undisturbed' PROVE SettlesTidy(s, op, none)
    <2>1. Undisturbed
      BY <1>4, <1>10, Before DEF PastOn
    <2>2. Homed(files, dirs)
      BY <2>1 DEF GInv, Tidy
    <2>3. \A o \in Queued(s) : ~MoveOf(o, none)
      BY <1>7, NoMoveOfNone DEF none
    <2>4. BehindFrom(ops, s.ops, files, s.files)
      BY <1>7 DEF BehindFrom
    <2>5. \A o \in Queued(s) : o.tag = op.tag => o.kind = "mkdir"
      BY <1>1, <1>2, <1>8, <2>1, Owing DEF AsRead, Like
    <2> QED BY <1>9, <2>2, <2>3, <2>4, <2>5 DEF SettlesTidy, RmdirOf, D
  <1> HIDE DEF op, none, IInv, GInv
  <1> QED BY <1>1, <1>2, <1>4, <1>7, <1>10, SettledGoes

\* A file in a directory whose rmdir's turn it is was put behind it in the
\* queue, or is not where the op that takes it has it.
LEMMA InTheWay ==
  ASSUME IInv, OInv, GInv, Undisturbed, drain.pc = "look", ~Unheard("upload"),
         NEW o \in Queued(Store), o.tag = drain.op.tag,
         NEW l \in past.left, RmdirOf(o, l),
         NEW r \in FilesThere(remote, l[1])
  PROVE  r \in past.behind \cup Astray
  <1> DEFINE d == l[1]
  <1>1. r \in Ids /\ remote.files[r] # NoFile /\ remote.files[r].at.dir = d /\ r # NoFile
    BY NothingAssumption DEF FilesThere, Ids
  <1>2. Homed(files, dirs) /\ TakenAhead /\ BehindKnown /\ LeftKnown /\ Unhindered
    BY DEF GInv, Known, Tidy
  <1>3. d \in Notebooks /\ dirs[d] = NoRow
    BY <1>2 DEF LeftKnown
  <1>4. /\ drain.todo # <<>> /\ drain.op.tag = Head(drain.todo) /\ drain.todo \in Seq(Nat)
        /\ files \in [FileIds -> Rows \cup {NoRow}] /\ Store.files = files /\ Store.dirs = dirs /\ Store.ops = ops
        /\ ops \in Seq(OwedOps)
    BY UnderWay, WhatHolds
  <1>5. Like(drain.op, o) /\ o.kind = "rmdir" /\ o.at.dir = d
    BY Owing DEF AsRead, RmdirOf, Flight
  <1>6. drain.op.at.dir = d
    BY <1>5 DEF Like
  <1>7. Owed(files, dirs, Queued(Store), Env)
    BY <1>4, Owing DEF OwedBy
  <1>8. Env.files = remote.files /\ Env.known = {} /\ Env.moving = NoRow
    BY DEF Env, Plain, Settling
  <1> HIDE DEF d
  <1>9. r \in Astray \/ \E q \in Queued(Store) : q.kind \in TakesOne /\ q.at.dir = d /\ Takes(q, files) = r
    <2>1. (\E f \in FileIds : BoundTo(files, f, r)) \/ \E q \in Queued(Store) : DeleteOf(q, r)
      BY <1>1, <1>7, <1>8 DEF Owed, Accounted
    <2>2. ASSUME NEW f \in FileIds, BoundTo(files, f, r)
          PROVE  \E q \in Queued(Store) : q.kind \in TakesOne /\ q.at.dir = d /\ Takes(q, files) = r
      <3>1. files[f] # NoRow /\ files[f].remote = r /\ Bound(files[f]) /\ f # NoRow
        BY <1>1, <2>2, NothingAssumption DEF BoundTo, Bound
      <3>2. files[f].at.dir # d
        BY <1>2, <1>3, <3>1 DEF Homed, Notebooks
      <3>3. PICK q \in Queued(Store) : MoveOf(q, f) /\ q.at = remote.files[r].at
        BY <1>1, <1>7, <1>8, <3>1, <3>2 DEF Owed, Standing
      <3> QED BY <1>1, <3>1, <3>3 DEF MoveOf, Takes, TakesOne
    <2>3. ASSUME NEW q \in Queued(Store), DeleteOf(q, r), r \notin Astray
          PROVE  q.kind \in TakesOne /\ q.at.dir = d /\ Takes(q, files) = r
      <3>1. q.kind = "delete-file" /\ q.remote = r
        BY <2>3 DEF DeleteOf
      <3>2. q.at = remote.files[r].at
        BY <1>1, <2>3, <3>1 DEF Astray
      <3> QED BY <1>1, <3>1, <3>2 DEF Takes, TakesOne
    <2> QED BY <2>1, <2>2, <2>3
  <1>10. ASSUME NEW q \in Queued(Store), q.kind \in TakesOne, q.at.dir = d, Takes(q, files) = r
         PROVE  r \in past.behind
    <2>1. PICK i \in DOMAIN ops : q = ops[i]
      BY <1>4 DEF Queued
    <2>2. PICK j \in DOMAIN ops : o = ops[j]
      BY <1>4 DEF Queued
    <2>3. i \in Nat /\ j \in Nat /\ 1 <= i /\ 1 <= j /\ i <= Len(ops) /\ j <= Len(ops) /\ i # j
      BY <1>4, <1>5, <1>10, <2>1, <2>2 DEF TakesOne
    <2>4. CASE j < i
      <3>1. j \in 1..(i - 1)
        BY <2>3, <2>4
      <3>2. r \in Behind(ops, files)
        BY <1>5, <1>10, <2>1, <2>2, <3>1 DEF Behind
      <3> QED BY <1>1, <1>2, <3>2 DEF BehindKnown
    <2>5. CASE i < j
      <3>1. 1 \in DOMAIN drain.todo /\ drain.todo[1] = drain.op.tag /\ ~Earlier(q.tag, 1)
        <4>1. 1 \in DOMAIN drain.todo /\ drain.todo[1] = drain.op.tag /\ DOMAIN drain.todo \subseteq Nat \ {0}
          BY <1>4
        <4> QED BY <4>1 DEF Earlier
      <3>2. q.at \in drain.holding
        BY <1>2, <1>5, <1>10, <2>1, <2>2, <2>5, <3>1 DEF TakenAhead
      <3> QED BY <1>2, <1>6, <1>10, <3>2 DEF Unhindered
    <2> QED BY <2>3, <2>4, <2>5
  <1> QED BY <1>9, <1>10

LEMMA LookGoes ==
  ASSUME IInv, IInv', OInv, GInv, Look PROVE GInv'
  <1> DEFINE op == drain.op
             there == FilesThere(remote, op.at.dir)
  <1>1. /\ drain.pc = "look" /\ UNCHANGED remote /\ Flight
        /\ past' = [past EXCEPT !.strays = {},
                      !.overtaken = IF there \cap (past.behind \cup Astray) = {} THEN @
                                    ELSE @ \cup {op.at.dir}]
    BY DEF Look, Flight
  <1>2. /\ op.kind = "rmdir" /\ op \in OwedOps /\ drain.at \in Paths
        /\ drain.todo # <<>> /\ op.tag = Head(drain.todo)
    BY <1>1, UnderWay DEF KindsAt
  <1>3. OutsideOK
    BY DEF IInv, TypeOK
  <1>4. /\ PastOn /\ past'.left = past.left /\ past'.unheard = past.unheard
        /\ there \cap (past.behind \cup Astray) # {} => op.at.dir \in past'.overtaken
    BY <1>1, <1>3 DEF OutsideOK, Kept, PastOn
  <1>5. DirsOnward(remote, remote')
    BY <1>1, RemoteStays
  <1>6. CASE Removable(op)
    <2>1. drain' = [drain EXCEPT !.pc = "rmdir"] /\ UNCHANGED <<files, dirs, ops>>
      BY <1>6 DEF Look
    <2>2. "rmdir" \in Stages
      BY LaterStages
    <2>3. drain \in Drains
      BY DrainIs
    <2>4. Going(drain, drain', "rmdir", drain.at, drain.entry)
      BY <1>2, <2>1, <2>2, <2>3, StageIs, Zenon
    <2>5. /\ drain'.pc = "rmdir" /\ drain'.op = op /\ drain'.todo = drain.todo /\ drain'.read = drain.read
          /\ drain'.holding = drain.holding
      BY <2>4 DEF Going
    <2>6. SentWithin'
      BY <2>5 DEF SentWithin
    <2>7. Unhindered'
      BY <1>1, <2>5 DEF GInv, Known, Unhindered
    <2>8. OneMoveRead'
      BY <1>2, <2>5 DEF OneMoveRead
    <2> HIDE DEF op, IInv, GInv
    <2> QED BY <1>4, <1>5, <2>1, <2>5, <2>6, <2>7, <2>8, FlightGoes
  <1>7. CASE ~Removable(op)
    <2>1. Settled(Store, op)
      BY <1>7 DEF Look
    <2>2. ASSUME Undisturbed', NEW l \in past.left, NEW o \in Queued(Store), RmdirOf(o, l), o.tag = op.tag
          PROVE  Excused(l)'
      <3>1. Undisturbed
        BY <1>4, <2>2, Before DEF PastOn
      <3>2. Like(op, o)
        BY <1>1, <2>2, <3>1, Owing DEF AsRead
      <3>3. l[1] = op.at.dir /\ l[2] = op.remote
        BY <1>2, <2>2, <3>2 DEF Like, RmdirOf
      <3>4. CASE remote.dirs[op.at.dir] # [here |-> TRUE, id |-> op.remote]
        BY <1>1, <3>3, <3>4 DEF Excused
      <3>5. CASE Unheard("upload")
        BY <1>4, <3>5 DEF Excused, Unheard
      <3>6. CASE ~Unheard("upload") /\ there # {}
        <4>1. PICK r \in there : TRUE
          BY <3>6
        <4>2. r \in FilesThere(remote, l[1])
          BY <3>3, <4>1
        <4>3. r \in past.behind \cup Astray
          <5> HIDE DEF IInv, OInv, GInv
          <5> QED BY <1>1, <2>2, <3>1, <3>6, <4>2, InTheWay
        <4>4. op.at.dir \in past'.overtaken
          BY <1>4, <4>1, <4>3
        <4> QED BY <3>3, <4>4 DEF Excused
      <3> QED BY <1>7, <3>4, <3>5, <3>6 DEF Removable
    <2> HIDE DEF op, IInv, GInv
    <2> QED BY <1>2, <1>4, <1>5, <2>1, <2>2, SettledItself
  <1> QED BY <1>6, <1>7

-----------------------------------------------------------------------------
(* What goes wrong.                                                          *)

LEMMA FailedGoes ==
  ASSUME IInv, IInv', OInv, GInv, Flight, Failed, PastOn, past'.left = past.left, DirsOnward(remote, remote')
  PROVE  GInv'
  <1> DEFINE op == drain.op
             tag == op.tag
             s == FailOp(Store, tag)
             none == NoRow
             D == {}
  <1>1. Becomes(s)
    BY StoreIsOne DEF Failed
  <1>2. Store \in Stores /\ Store.files = files /\ Store.dirs = dirs /\ Store.ops = ops
    BY WhatHolds
  <1>3. s \in Stores
    <2>1. Fine(Store, FailOp(Store, tag), files, HereOrTaken, remote.made)
      BY WhatHolds, FailOpOK
    <2> QED BY <2>1 DEF Fine
  <1>4. drain.todo # <<>> /\ tag = Head(drain.todo)
    BY UnderWay DEF Flight
  <1> HIDE DEF D, none, tag
  <1>5. /\ s \in Tidied(Store, none, D) /\ s.files = files /\ s.dirs = dirs
        /\ BehindFrom(ops, s.ops, files, s.files)
        /\ \A o \in Queued(s) : \E p \in Queued(Store) : o.tag = p.tag /\ o.kind = p.kind
    BY <1>2, <1>3, CountedTidy
  <1> HIDE DEF s
  <1>6. drain'.pc \in {"idle", "turn"}
        /\ \/ drain'.todo = <<>>
           \/ /\ drain.todo # <<>> /\ drain'.todo = Tail(drain.todo) /\ drain'.read = drain.read
              /\ drain.holding \subseteq drain'.holding
              /\ Undisturbed' =>
                   \A o \in Queued(s) : o.tag = Head(drain.todo) /\ o.kind \in TakesOne => o.at \in drain'.holding
    <2>1. CASE op.kind = "upload"
      <3>1. drain' = [StepOver(op, NextTurn) EXCEPT !.failed = TRUE]
        BY <2>1 DEF Failed
      <3>2. Onward(NextTurn, drain.copying, drain.holding, drain.failed, drain.stuck)
        BY <1>4, NextTurnIs
      <3>3. /\ drain'.pc = "turn" /\ drain'.todo = Tail(drain.todo) /\ drain'.read = drain.read
            /\ drain'.holding = drain.holding
        BY <3>1, <3>2 DEF Onward, Drains, StepOver
      <3>4. ASSUME Undisturbed', NEW o \in Queued(s), o.tag = Head(drain.todo) PROVE o.kind \notin TakesOne
        <4>1. PICK p \in Queued(Store) : o.tag = p.tag /\ o.kind = p.kind
          BY <1>5
        <4>2. Undisturbed
          BY <3>4, Before DEF PastOn
        <4>3. Like(op, p)
          BY <1>4, <3>4, <4>1, <4>2, Owing DEF AsRead, tag
        <4> QED BY <2>1, <4>1, <4>3 DEF Like, TakesOne
      <3> QED BY <1>4, <3>3, <3>4
    <2>2. CASE op.kind # "upload"
      BY <2>2 DEF Failed, Ends, Rest
    <2> QED BY <2>1, <2>2
  <1> HIDE DEF op, IInv, GInv
  <1> QED BY <1>1, <1>5, <1>6, KeptGoes DEF none, D

\* The run ends and the store is as it was.
LEMMA EndsGoes ==
  ASSUME IInv, IInv', GInv, NEW how, Ends(how), UNCHANGED <<files, dirs, ops>>,
         PastOn, past'.left = past.left, DirsOnward(remote, remote')
  PROVE  GInv'
  <1> DEFINE s == Store
             none == NoRow
             D == {}
  <1>1. s \in Stores /\ s.files = files /\ s.dirs = dirs /\ s.ops = ops /\ Becomes(s)
    BY WhatHolds, StoreStays
  <1> HIDE DEF none, D
  <1>2. s \in Tidied(Store, none, D) /\ BehindFrom(ops, s.ops, files, s.files)
    BY <1>1, TidyItself DEF BehindFrom
  <1>3. drain'.pc \in {"idle", "turn"} /\ drain'.todo = <<>>
    BY DEF Ends, Rest
  <1> HIDE DEF s, IInv, GInv
  <1> QED BY <1>1, <1>2, <1>3, KeptGoes DEF none, D

LEMMA TroubleGoes ==
  ASSUME IInv, IInv', OInv, GInv, Failure \/ LostAnswer \/ Stopped \/ Crash PROVE GInv'
  <1>0. OutsideOK
    BY DEF IInv, TypeOK
  <1>1. CASE Failure
    <2>1. Failed /\ UNCHANGED <<remote, past>> /\ Flight
      BY <1>1 DEF Failure, InCall, Calls, Flight
    <2>2. DirsOnward(remote, remote') /\ PastOn /\ past'.left = past.left
      BY <2>1, RemoteStays, PastStays
    <2> HIDE DEF IInv, GInv, OInv
    <2> QED BY <2>1, <2>2, FailedGoes
  <1>2. CASE LostAnswer
    <2>1. /\ drain.pc \in {"send", "move", "remove", "rmdir", "mkdir"} /\ Flight
          /\ remote' = Done(remote) /\ past' = [past EXCEPT !.unheard = @ \cup {drain.op.kind}]
          /\ Failed \/ (Ends("stopped") /\ UNCHANGED <<files, dirs, ops>>)
      BY <1>2 DEF LostAnswer, Flight
    <2>2. PastOn /\ past'.left = past.left
      BY <1>0, <2>1 DEF PastOn, OutsideOK, Kept
    <2>3. DirsOnward(remote, remote')
      BY <2>1, DoneOnward
    <2> DEFINE how == "stopped"
    <2>4. Failed \/ (Ends(how) /\ UNCHANGED <<files, dirs, ops>>)
      BY <2>1
    <2> HIDE DEF IInv, GInv, OInv, how
    <2> QED BY <2>1, <2>2, <2>3, <2>4, FailedGoes, EndsGoes
  <1>3. CASE Stopped \/ Crash
    <2> DEFINE how == "stopped"
    <2>1. UNCHANGED <<files, dirs, ops, remote>> /\ Ends(how)
      BY <1>3 DEF Stopped, Crash
    <2>2. past' = past \/ \E kinds : past' = [past EXCEPT !.unheard = @ \cup kinds]
      BY <1>3 DEF Stopped, Crash
    <2>3. PastOn /\ past'.left = past.left
      BY <1>0, <2>2 DEF PastOn, OutsideOK, Kept
    <2>4. DirsOnward(remote, remote')
      BY <2>1, RemoteStays
    <2> HIDE DEF IInv, GInv, how
    <2> QED BY <2>1, <2>3, <2>4, EndsGoes
  <1> QED BY <1>1, <1>2, <1>3

LEMMA GiveBackGoes ==
  ASSUME IInv, IInv', GInv, GiveBack PROVE GInv'
  <1> DEFINE s == ResetAttempts(Store)
             none == NoRow
             D == {}
             tag == 0
  <1>1. drain.pc = "idle" /\ Becomes(s) /\ UNCHANGED <<remote, drain, past>>
    BY StoreIsOne DEF GiveBack
  <1>2. Store \in Stores /\ Store.files = files /\ Store.dirs = dirs /\ Store.ops = ops
    BY WhatHolds
  <1>3. s \in Stores
    <2>1. Fine(Store, ResetAttempts(Store), files, HereOrTaken, remote.made)
      BY WhatHolds, ResetOK
    <2> QED BY <2>1 DEF Fine
  <1> HIDE DEF D, none, tag
  <1>4. /\ s \in Tidied(Store, none, D) /\ s.files = files /\ s.dirs = dirs
        /\ BehindFrom(ops, s.ops, files, s.files)
    BY <1>2, <1>3, CountedTidy
  <1>5. drain'.pc \in {"idle", "turn"} /\ drain'.todo = <<>>
    BY <1>1 DEF IInv, RunOK, Rest
  <1>6. DirsOnward(remote, remote') /\ PastOn /\ past'.left = past.left
    BY <1>1, RemoteStays, PastStays
  <1> HIDE DEF s, IInv, GInv
  <1> QED BY <1>1, <1>4, <1>5, <1>6, KeptGoes DEF none, D

-----------------------------------------------------------------------------
(* The run begins.                                                           *)

\* What does not go last keeps its order.
LEMMA StartsInOrder ==
  ASSUME IInv, Start, NEW i \in DOMAIN ops, NEW j \in DOMAIN ops, i < j, ~Later(ops[i]), ~Later(ops[j]),
         NEW m \in DOMAIN drain'.todo, drain'.todo[m] = ops[j].tag
  PROVE  \E n \in DOMAIN drain'.todo : n < m /\ drain'.todo[n] = ops[i].tag
  <1> DEFINE last == {k \in DOMAIN ops : Later(ops[k])}
             I == DOMAIN ops \ last
             order == Those(ops, I) \o Those(ops, last)
             todo == [k \in DOMAIN order |-> order[k].tag]
  <1>1. drain'.todo = todo /\ UNCHANGED ops
    BY DEF Start, Rest
  <1>2. ops \in Seq(OwedOps) /\ TagsApart(ops)
    BY WhatHolds DEF StoreOK
  <1>3. InOrder(ops, order, I)
    <2>1. DOMAIN ops \ I = last /\ I \in SUBSET DOMAIN ops
      OBVIOUS
    <2> HIDE DEF last, I
    <2>2. InOrder(ops, Those(ops, I) \o Those(ops, DOMAIN ops \ I), I)
      BY <1>2, <2>1, OrderIs
    <2> QED BY <2>1, <2>2
  <1>4. i \in I /\ j \in I
    OBVIOUS
  <1> HIDE DEF order, I
  <1>5. m \in DOMAIN order /\ order[m].tag = ops[j].tag
    BY <1>1
  <1>6. PICK n \in DOMAIN order : n < m /\ order[n] = ops[i]
    BY <1>2, <1>3, <1>4, <1>5 DEF InOrder
  <1>7. n \in DOMAIN drain'.todo /\ drain'.todo[n] = ops[i].tag
    BY <1>1, <1>6
  <1> QED BY <1>6, <1>7

LEMMA StartGoes ==
  ASSUME IInv, IInv', GInv, Start PROVE GInv'
  <1>1. UNCHANGED <<files, dirs, ops, remote, past>> /\ drain'.pc = "turn"
    BY DEF Start, Rest
  <1>2. DirsOnward(remote, remote') /\ PastOn /\ past'.left = past.left
    BY <1>1, RemoteStays, PastStays
  <1>3. Known /\ (Undisturbed => Tidy) /\ (Undisturbed' => Undisturbed)
    BY <1>2, Before DEF GInv, PastOn
  <1>4. LeftKnown' /\ DirsKnown'
    <2> HIDE DEF IInv
    <2> QED BY <1>1, <1>2, <1>3, KnownStays DEF Known
  <1>5. SentWithin' /\ Unhindered' /\ OneMoveRead'
    BY <1>1, Quiet
  <1>6. TakenAhead'
    <2> SUFFICES ASSUME NEW i \in DOMAIN ops, NEW j \in DOMAIN ops, NEW m \in DOMAIN drain'.todo,
                        i < j, ops[i].kind \in TakesOne, ops[j].kind = "rmdir", ops[j].tag = drain'.todo[m]
                 PROVE  \E n \in DOMAIN drain'.todo : n < m /\ drain'.todo[n] = ops[i].tag
      BY <1>1 DEF TakenAhead, Earlier
    <2>1. ~Later(ops[i]) /\ ~Later(ops[j])
      BY DEF Later, TakesOne
    <2> HIDE DEF IInv
    <2> QED BY <2>1, StartsInOrder
  <1>7. ASSUME Undisturbed' PROVE Tidy'
    <2>1. Homed(files, dirs) /\ BehindKnown /\ LeftOwed /\ LeftKnown
      BY <1>3, <1>7 DEF Tidy, Known
    <2>2. Homed(files', dirs')
      BY <1>1, <2>1
    <2>3. BehindKnown'
      BY <1>1, <2>1 DEF BehindKnown, Behind, Takes
    <2>4. LeftOwed'
      <3>1. Becomes(Store)
        BY <1>1, StoreStays
      <3>2. \A l \in past'.left : l \in past.left
        BY <1>1
      <3> HIDE DEF IInv, LeftOwed, LeftKnown
      <3> QED BY <1>2, <2>1, <3>1, <3>2, LeftGoes
    <2> QED BY <1>5, <1>6, <2>2, <2>3, <2>4 DEF Tidy
  <1> QED BY <1>4, <1>5, <1>7 DEF GInv, Known

-----------------------------------------------------------------------------
(* The user.                                                                 *)

\* What an act makes of the notebooks: those of D are there anew, others are
\* let go of.
DirsActed(ds, D) == \A c \in Notebooks : ds[c] \in {NoRow, dirs[c]} \/ (c \in D /\ ds[c] = NoDir)
\* And what it lets go of is owed an rmdir.
LetGoOwed(s, x) ==
  /\ \E d \in Notebooks : dirs[d] # NoRow /\ x = <<d, dirs[d]>> /\ s.dirs[d] = NoRow
  /\ x[2] # NoDir => \E o \in Queued(s) : RmdirOf(o, x)

LEMMA ActGoes ==
  ASSUME IInv, IInv', GInv, NEW what, Act(what), NEW s, NEW born, NEW l, NEW D,
         FineForUser(Store, s, born, HereOrTaken, remote.made), StoreIs(s), Left(l),
         s \in Tidied(Store, NoRow, D), Homed(files, dirs) => Homed(s.files, s.dirs),
         DirsActed(s.dirs, D),
         \A x \in l : (x \in past.left /\ x[1] \notin D) \/ LetGoOwed(s, x)
  PROVE  GInv'
  <1> DEFINE none == NoRow
  <1>1. Becomes(s) /\ UNCHANGED <<remote, drain>>
    BY StoreIsOne DEF Act
  <1>2. OutsideOK /\ s \in Stores
    BY DEF IInv, TypeOK, Tidied
  <1>3. PastOn /\ past'.left = l /\ past'.behind = past.behind \cup Behind(ops', files')
    BY <1>2 DEF OutsideOK, Left, Kept, PastOn
  <1>4. DirsOnward(remote, remote')
    BY <1>1, RemoteStays
  <1>5. Known /\ (Undisturbed' => Tidy)
    BY <1>3, Before DEF GInv, PastOn
  <1>6. ASSUME NEW x \in l
        PROVE  /\ x \in past.left \/ \E d \in Notebooks : dirs[d] # NoRow /\ x = <<d, dirs[d]>>
               /\ s.dirs[x[1]] = NoRow
    <2>1. CASE x \in past.left /\ x[1] \notin D
      <3>1. x[1] \in Notebooks /\ dirs[x[1]] = NoRow
        BY <1>5, <2>1 DEF Known, LeftKnown
      <3> QED BY <2>1, <3>1 DEF DirsActed
    <2>2. CASE LetGoOwed(s, x)
      BY <2>2 DEF LetGoOwed
    <2> QED BY <1>6, <2>1, <2>2
  <1>7. LeftKnown' /\ DirsKnown'
    <2>1. dirs' = s.dirs
      BY <1>1 DEF Becomes
    <2>2. \A d \in Notebooks : dirs'[d] \in {NoRow, NoDir, dirs[d], remote'.dirs[d].id}
      BY <2>1 DEF DirsActed
    <2>3. /\ \A x \in past'.left : x \in past.left \/ \E d \in Notebooks : dirs[d] # NoRow /\ x = <<d, dirs[d]>>
          /\ \A x \in past'.left : dirs'[x[1]] = NoRow
      BY <1>3, <1>6, <2>1
    <2>4. LeftKnown /\ DirsKnown
      BY <1>5 DEF Known
    <2> HIDE DEF IInv, LeftKnown, DirsKnown, DirsOnward
    <2> QED BY <1>4, <2>2, <2>3, <2>4, KnownGoes
  <1>8. SentWithin' /\ Unhindered'
    BY <1>1, <1>5 DEF Known, SentWithin, Unhindered
  <1>9. ASSUME Undisturbed' PROVE Tidy'
    <2>1. Tidy /\ LeftKnown
      BY <1>5, <1>9 DEF Known
    <2>2. Homed(files', dirs')
      BY <1>1, <2>1 DEF Tidy, Becomes
    <2>3. BehindKnown'
      BY <1>3 DEF BehindKnown, Behind, Takes
    <2>4. OneMoveRead'
      <3> SUFFICES ASSUME Flight, drain.op.kind = "move-file", NEW o \in Queued(s),
                          MoveOf(o, drain.op.file), o.tag \in drain.read
                   PROVE  o.tag = drain.op.tag
        <4>1. Queued(Store)' = Queued(s)
          BY <1>1 DEF Queued, Store, Becomes
        <4> QED BY <1>1, <4>1 DEF OneMoveRead, Flight
      <3>1. /\ Store \in Stores /\ Store.kept = drain.read
            /\ OpsFrom(Store.ops, s.ops, Store.kept, Store.files)
        BY WhatHolds DEF FineForUser, Fine
      <3> HIDE DEF IInv
      <3>2. PICK p \in Queued(Store) : SameOp(p, o)
        BY <3>1, ReadFrom
      <3>3. MoveOf(p, drain.op.file) /\ p.tag = o.tag
        BY <3>2 DEF SameOp, MoveOf
      <3> QED BY <2>1, <3>3 DEF Tidy, OneMoveRead
    <2>5. TakenAhead'
      <3>1. \A o \in Queued(s) : ~MoveOf(o, none)
        BY <1>2, NoMoveOfNone
      <3>2. s \in Tidied(Store, none, D) /\ TakenAhead
        BY <2>1 DEF Tidy
      <3> HIDE DEF none, IInv, TakenAhead
      <3> QED BY <1>1, <3>1, <3>2, AheadGoes
    <2>6. LeftOwed'
      <3>1. ASSUME NEW x \in past'.left, x[2] # NoDir
            PROVE  \/ \E o \in Queued(s) : RmdirOf(o, x)
                   \/ /\ x \in past.left
                      /\ \A o \in Queued(Store) : RmdirOf(o, x) => \E p \in Queued(s) : RmdirOf(p, x)
        <4>1. CASE x \in past.left /\ x[1] \notin D
          <5> SUFFICES ASSUME NEW o \in Queued(Store), RmdirOf(o, x) PROVE \E p \in Queued(s) : RmdirOf(p, x)
            BY <4>1
          <5>1. RmdirsFrom(Queued(Store), Queued(s), D)
            BY DEF Tidied
          <5> QED BY <4>1, <5>1 DEF RmdirsFrom, RmdirOf
        <4>2. CASE LetGoOwed(s, x)
          BY <3>1, <4>2 DEF LetGoOwed
        <4> QED BY <1>3, <4>1, <4>2
      <3>2. LeftOwed
        BY <2>1 DEF Tidy
      <3> HIDE DEF IInv, LeftOwed, LeftKnown, PastOn, DirsOnward, Becomes
      <3> QED BY <1>1, <1>3, <1>4, <2>1, <3>1, <3>2, LeftGoes
    <2> QED BY <2>2, <2>3, <2>4, <2>5, <2>6 DEF Tidy
  <1> QED BY <1>7, <1>8, <1>9 DEF GInv, Known

\* An act that leaves the notebooks.
LEMMA FileActGoes ==
  ASSUME IInv, IInv', GInv, NEW what, Act(what), NEW s, NEW born,
         FineForUser(Store, s, born, HereOrTaken, remote.made), StoreIs(s), Left(past.left),
         s \in Tidied(Store, NoRow, {}), Homed(files, dirs) => Homed(s.files, s.dirs), s.dirs = dirs
  PROVE  GInv'
  <1> DEFINE D == {}
             l == past.left
  <1>1. DirsActed(s.dirs, D) /\ s \in Tidied(Store, NoRow, D) /\ Left(l)
    BY DEF DirsActed
  <1>2. \A x \in l : (x \in past.left /\ x[1] \notin D) \/ LetGoOwed(s, x)
    OBVIOUS
  <1> HIDE DEF D, l, IInv, GInv
  <1> QED BY <1>1, <1>2, ActGoes

\* Every act of the user.
LEMMA UserGoes ==
  ASSUME IInv, IInv', GInv, User PROVE GInv'
  <1> DEFINE none == NoRow
             A == HereOrTaken
             m == remote.made
  <1>1. /\ Store \in Stores /\ StoreOK(Store, A, m) /\ A \in SUBSET Ids
        /\ \A r \in A : r <= m
        /\ Store.files = files /\ Store.dirs = dirs /\ Store.ops = ops
    BY WhatHolds
  <1> HIDE DEF IInv, GInv, none, A, m
  <1>2. ASSUME NEW d \in Folders, UserAdds(d) PROVE GInv'
    <2>1. PICK f \in NewFile : StoreIs(AddFile(Store, f, d))
      BY <1>2 DEF UserAdds
    <2> DEFINE s == AddFile(Store, f, d)
               born == {f}
               D == {}
    <2>2. f \in FileIds /\ Store.files[f] = NoRow /\ \A o \in Queued(Store) : o.file # f
      BY <1>1, <2>1 DEF NewFile
    <2>3. FineForUser(Store, s, born, A, m)
      BY <1>1, <2>2, AddFileOK
    <2>4. Act("add") /\ Left(past.left) /\ d \in {e \in Notebooks : Store.dirs[e] # NoRow} \cup {Top}
      BY <1>1, <1>2 DEF UserAdds, There
    <2> HIDE DEF D, s, born
    <2>5. s \in Tidied(Store, none, D) /\ s.dirs = dirs /\ (Homed(files, dirs) => Homed(s.files, s.dirs))
      BY <1>1, <2>2, <2>4, AddFileTidy DEF s
    <2> QED BY <2>1, <2>3, <2>4, <2>5, FileActGoes DEF D, s, none, A, m
  <1>3. ASSUME NEW f \in FileIds, NEW d \in Folders, UserCopies(f, d) PROVE GInv'
    <2>1. PICK g \in NewFile : StoreIs(CopyFileTo(Store, f, g, d))
      BY <1>3 DEF UserCopies
    <2> DEFINE s == CopyFileTo(Store, f, g, d)
               born == {g}
               D == {}
    <2>2. g \in FileIds /\ Store.files[g] = NoRow /\ \A o \in Queued(Store) : o.file # g
      BY <1>1, <2>1 DEF NewFile
    <2>3. Store.files[f] # NoRow /\ (Store.files[f].held \/ Store.files[f].remote # NoFile)
      BY <1>1, <1>3 DEF UserCopies
    <2>4. FineForUser(Store, s, born, A, m)
      BY <1>1, <2>2, <2>3, CopyFileOK
    <2>5. Act("copy") /\ Left(past.left) /\ d \in {e \in Notebooks : Store.dirs[e] # NoRow} \cup {Top}
      BY <1>1, <1>3 DEF UserCopies, There
    <2> HIDE DEF D, s, born
    <2>6. s \in Tidied(Store, none, D) /\ s.dirs = dirs /\ (Homed(files, dirs) => Homed(s.files, s.dirs))
      BY <1>1, <2>2, <2>3, <2>5, CopyFileTidy DEF s
    <2> QED BY <2>1, <2>4, <2>5, <2>6, FileActGoes DEF D, s, none, A, m
  <1>4. ASSUME NEW f \in FileIds, NEW d \in Folders, UserMoves(f, d) PROVE GInv'
    <2> DEFINE s == MoveFileTo(Store, f, d)
               born == {}
               D == {}
    <2>1. /\ Act("move") /\ Store.files[f] # NoRow /\ StoreIs(s) /\ Left(past.left)
          /\ d \in {e \in Notebooks : dirs[e] # NoRow} \cup {Top}
      BY <1>1, <1>4 DEF UserMoves, There
    <2>2. FineForUser(Store, s, born, A, m)
      BY <1>1, <2>1, MoveFileOK
    <2> HIDE DEF D, s, born
    <2>3. /\ s \in Tidied(Store, none, D) /\ s.dirs = dirs
          /\ s.files[f].at.dir = d /\ \A g \in FileIds \ {f} : s.files[g] = files[g]
      BY <1>1, <2>1, MoveFileTidy DEF s
    <2>4. Homed(files, dirs) => Homed(s.files, s.dirs)
      BY <2>1, <2>3 DEF Homed
    <2> QED BY <2>1, <2>2, <2>3, <2>4, FileActGoes DEF D, s, none, A, m
  <1>5. ASSUME NEW f \in FileIds, UserDrops(f) PROVE GInv'
    <2> DEFINE s == DropFile(Store, f)
               born == {}
               D == {}
    <2>1. Act("drop") /\ Store.files[f] # NoRow /\ StoreIs(s) /\ Left(past.left)
      BY <1>1, <1>5 DEF UserDrops
    <2>2. FineForUser(Store, s, born, A, m)
      BY <1>1, <2>1, DropFileOK
    <2> HIDE DEF D, s, born
    <2>3. /\ s \in Tidied(Store, none, D) /\ s.dirs = dirs /\ s.files[f] = NoRow
          /\ \A g \in FileIds \ {f} :
               /\ files[g] # NoRow <=> s.files[g] # NoRow
               /\ s.files[g] # NoRow => s.files[g].at = files[g].at
      BY <1>1, <2>1, DropFileTidy DEF s
    <2>4. Homed(files, dirs) => Homed(s.files, s.dirs)
      BY <2>3 DEF Homed
    <2> QED BY <2>1, <2>2, <2>3, <2>4, FileActGoes DEF D, s, none, A, m
  <1>6. ASSUME NEW d \in Notebooks, UserCreates(d) PROVE GInv'
    <2> DEFINE l == {x \in past.left : x[1] # d}
               s == CreateFolder(Store, d)
               born == {}
               D == {d}
    <2>1. Act("create") /\ StoreIs(s) /\ Left(l) /\ Store.dirs[d] = NoRow
      BY <1>1, <1>6 DEF UserCreates
    <2>2. FineForUser(Store, s, born, A, m)
      BY <1>1, CreateFolderOK
    <2>3. \A x \in l : (x \in past.left /\ x[1] \notin D) \/ LetGoOwed(s, x)
      OBVIOUS
    <2> HIDE DEF l, s, born
    <2>4. /\ s \in Tidied(Store, none, D) /\ (Homed(files, dirs) => Homed(s.files, s.dirs))
          /\ s.dirs[d] = NoDir /\ \A c \in Notebooks \ {d} : s.dirs[c] = dirs[c]
      BY <1>1, <2>1, CreateFolderTidy DEF s
    <2>5. DirsActed(s.dirs, D)
      BY <2>4 DEF DirsActed
    <2> HIDE DEF D
    <2> QED BY <2>1, <2>2, <2>3, <2>4, <2>5, ActGoes DEF none, A, m
  <1>7. ASSUME NEW d \in Notebooks, UserDeletes(d) PROVE GInv'
    <2> DEFINE l == past.left \cup LetsGo(d)
               s == DeleteFolder(Store, d)
               born == {}
               D == {}
    <2>1. Act("delete") /\ Store.dirs[d] # NoRow /\ StoreIs(s) /\ Left(l)
      BY <1>1, <1>7 DEF UserDeletes
    <2>2. FineForUser(Store, s, born, A, m)
      BY <1>1, <2>1, DeleteFolderOK
    <2> HIDE DEF s, born, D
    <2>3. /\ s \in Tidied(Store, none, D) /\ (Homed(files, dirs) => Homed(s.files, s.dirs))
          /\ s.dirs[d] = NoRow /\ (\A c \in Notebooks \ {d} : s.dirs[c] = dirs[c])
          /\ dirs[d] # NoDir => \E o \in Queued(s) : RmdirOf(o, <<d, dirs[d]>>)
      BY <1>1, <2>1, DeleteFolderTidy DEF s, D
    <2>4. DirsActed(s.dirs, D)
      BY <2>3 DEF DirsActed
    <2>5. \A x \in l : (x \in past.left /\ x[1] \notin D) \/ LetGoOwed(s, x)
      <3>1. \A x \in LetsGo(d) : x = <<d, dirs[d]>>
        BY DEF LetsGo
      <3>2. LetGoOwed(s, <<d, dirs[d]>>)
        BY <1>1, <2>1, <2>3 DEF LetGoOwed
      <3> QED BY <3>1, <3>2 DEF D
    <2> HIDE DEF l
    <2> QED BY <2>1, <2>2, <2>3, <2>4, <2>5, ActGoes DEF none, A, m
  <1>8. ASSUME NEW d \in Notebooks, NEW e \in Notebooks, UserRenames(d, e) PROVE GInv'
    <2> DEFINE l == {x \in past.left : x[1] # e} \cup LetsGo(d)
               s == RenameFolder(Store, d, e)
               born == {}
               D == {e}
    <2>1. /\ Act("rename") /\ Store.dirs[d] # NoRow /\ Store.dirs[e] = NoRow
          /\ StoreIs(s) /\ Left(l)
      BY <1>1, <1>8 DEF UserRenames
    <2>2. FineForUser(Store, s, born, A, m)
      BY <1>1, <2>1, RenameFolderOK
    <2> HIDE DEF s, born
    <2>3. /\ s \in Tidied(Store, none, D) /\ (Homed(files, dirs) => Homed(s.files, s.dirs))
          /\ s.dirs[d] = NoRow /\ s.dirs[e] = NoDir
          /\ (\A c \in Notebooks \ {d, e} : s.dirs[c] = dirs[c])
          /\ dirs[d] # NoDir => \E o \in Queued(s) : RmdirOf(o, <<d, dirs[d]>>)
      <3> DEFINE st == Store
      <3>1. st \in Stores /\ st.dirs[d] # NoRow /\ st.dirs[e] = NoRow /\ st.files = files /\ st.dirs = dirs
        BY <1>1, <2>1
      <3> HIDE DEF st
      <3>2. LET t == RenameFolder(st, d, e)
            IN  /\ t \in Tidied(st, none, {e}) /\ (Homed(st.files, st.dirs) => Homed(t.files, t.dirs))
                /\ t.dirs[d] = NoRow /\ t.dirs[e] = NoDir /\ \A c \in Notebooks \ {d, e} : t.dirs[c] = st.dirs[c]
                /\ st.dirs[d] # NoDir => \E o \in Queued(t) : RmdirOf(o, <<d, st.dirs[d]>>)
        BY <3>1, RenameFolderTidy
      <3> QED BY <3>1, <3>2 DEF st, s
    <2>4. DirsActed(s.dirs, D)
      BY <2>3 DEF DirsActed
    <2>5. \A x \in l : (x \in past.left /\ x[1] \notin D) \/ LetGoOwed(s, x)
      <3>1. \A x \in LetsGo(d) : x = <<d, dirs[d]>>
        BY DEF LetsGo
      <3>2. LetGoOwed(s, <<d, dirs[d]>>)
        BY <1>1, <2>1, <2>3 DEF LetGoOwed
      <3> QED BY <3>1, <3>2
    <2> HIDE DEF l, D
    <2> QED BY <2>1, <2>2, <2>3, <2>4, <2>5, ActGoes DEF none, A, m
  <1> QED BY <1>2, <1>3, <1>4, <1>5, <1>6, <1>7, <1>8 DEF User

\* The other devices: from then on nothing is said but of what is known.
LEMMA OthersGo ==
  ASSUME IInv, GInv, Others PROVE GInv'
  <1>1. OutsideOK /\ remote \in Remotes
    BY DEF IInv, TypeOK, OutsideOK
  <1>2. ASSUME NEW d \in Folders, NEW ours \in BOOLEAN, OtherAdds(Path(d, 0), ours)
        PROVE  /\ UNCHANGED <<dirs, drain>> /\ past'.left = past.left /\ past'.meddled
               /\ DirsOnward(remote, remote')
    <2> DEFINE p == Path(d, 0)
    <2>1. p \in Paths
      BY DEF Path, Paths
    <2>2. remote' = Created(remote, p, ours) /\ UNCHANGED <<dirs, drain>>
      BY <1>2 DEF OtherAdds
    <2>3. past'.left = past.left /\ past'.meddled
      BY <1>1, <1>2 DEF OtherAdds, OutsideOK, Kept
    <2> HIDE DEF p
    <2> QED BY <1>1, <2>1, <2>2, <2>3, PutOnward
  <1>3. ASSUME NEW i \in Ids, OtherDeletes(i)
        PROVE  /\ UNCHANGED <<dirs, drain>> /\ past'.left = past.left /\ past'.meddled
               /\ DirsOnward(remote, remote')
    <2>1. past'.left = past.left /\ past'.meddled
      BY <1>1, <1>3 DEF OtherDeletes, OutsideOK, Kept
    <2>2. remote'.dirs = remote.dirs /\ UNCHANGED <<dirs, drain>>
      BY <1>1, <1>3 DEF OtherDeletes, Remotes
    <2> QED BY <1>1, <2>1, <2>2, TakenOnward
  <1>4. /\ UNCHANGED <<dirs, drain>> /\ past'.left = past.left /\ past'.meddled
        /\ DirsOnward(remote, remote')
    BY <1>2, <1>3 DEF Others
  <1>5. LeftKnown /\ DirsKnown /\ SentWithin /\ Unhindered
    BY DEF GInv, Known
  <1>6. LeftKnown' /\ DirsKnown'
    <2> HIDE DEF IInv, LeftKnown, DirsKnown, DirsOnward
    <2> QED BY <1>4, <1>5, KnownStays
  <1>7. SentWithin' /\ Unhindered'
    BY <1>4, <1>5 DEF SentWithin, Unhindered
  <1> QED BY <1>4, <1>6, <1>7 DEF GInv, Known, Undisturbed

-----------------------------------------------------------------------------
(* It holds, and what follows.                                               *)

LEMMA GoneFirst == Init => GInv
  <1> SUFFICES ASSUME Init PROVE GInv
    OBVIOUS
  <1> DEFINE d == CHOOSE d \in Notebooks : TRUE
             at == Path(d, 0)
  <1>1. PICK held \in BOOLEAN :
          /\ files = [g \in FileIds |-> IF g = 1 THEN [at |-> at, remote |-> 1, held |-> held] ELSE NoRow]
          /\ dirs = [c \in Notebooks |-> IF c = d THEN 1 ELSE NoRow]
          /\ remote.dirs = [c \in Notebooks |-> [here |-> c = d, id |-> IF c = d THEN 1 ELSE 0]]
    BY DEF Init
  <1>2. ops = <<>> /\ drain.pc = "idle" /\ drain.todo = <<>> /\ past.left = {}
    BY DEF Init, Rest
  <1>3. d \in Notebooks /\ 1 # NoRow
    BY FilePushAssumption, NothingAssumption DEF Notebooks
  <1>4. at.dir = d
    BY DEF Path
  <1> HIDE DEF d, at
  <1>5. LeftKnown /\ LeftOwed
    BY <1>2 DEF LeftKnown, LeftOwed
  <1>6. DirsKnown
    BY <1>1 DEF DirsKnown
  <1>7. SentWithin /\ Unhindered /\ OneMoveRead
    BY <1>2 DEF SentWithin, Unhindered, OneMoveRead, Flight
  <1>8. Homed(files, dirs)
    <2> SUFFICES ASSUME NEW f \in FileIds, files[f] # NoRow
                 PROVE  files[f].at.dir = d /\ dirs[d] # NoRow
      BY <1>3 DEF Homed
    <2> QED BY <1>1, <1>3, <1>4
  <1>9. TakenAhead /\ BehindKnown
    BY <1>2 DEF TakenAhead, BehindKnown, Behind
  <1> QED BY <1>5, <1>6, <1>7, <1>8, <1>9 DEF GInv, Known, Tidy

LEMMA DrainGoes ==
  ASSUME IInv, IInv', OInv, GInv, Drain PROVE GInv'
  <1> HIDE DEF IInv, OInv, GInv
  <1>1. CASE DrainEnds \/ PassOver \/ HoldBack
    BY <1>1, TurnEndsGoes
  <1>2. CASE OutOfAttempts
    BY <1>2, OutOfAttemptsGoes
  <1>3. CASE BeginUpload
    BY <1>3, BeginUploadGoes
  <1>4. CASE BeginMove
    BY <1>4, BeginMoveGoes
  <1>5. CASE BeginDelete \/ BeginMkdir
    BY <1>5, BeginOthersGoes
  <1>6. CASE BeginRmdir
    BY <1>6, BeginRmdirGoes
  <1>7. CASE Fetched
    BY <1>7, FetchedGoes
  <1>8. CASE SentTo
    BY <1>8, SentToGoes
  <1>9. CASE MoveLanded
    BY <1>9, MoveLandedGoes
  <1>10. CASE Met
    BY <1>10, MetGoes
  <1>11. CASE Settle
    BY <1>11, SettleGoes
  <1>12. CASE Removed \/ RemovedDir
    BY <1>12, RemovedGoes
  <1>13. CASE Look
    BY <1>13, LookGoes
  <1>14. CASE MadeDir
    BY <1>14, MadeDirGoes
  <1> QED BY <1>1, <1>2, <1>3, <1>4, <1>5, <1>6, <1>7, <1>8, <1>9, <1>10, <1>11, <1>12, <1>13, <1>14
          DEF Drain

LEMMA GoneNext == IInv /\ IInv' /\ OInv /\ GInv /\ [Next]_vars => GInv'
  <1> SUFFICES ASSUME IInv, IInv', OInv, GInv, [Next]_vars PROVE GInv'
    OBVIOUS
  <1>1. CASE UNCHANGED vars
    <2>1. Known'
      BY <1>1 DEF GInv, Known, LeftKnown, DirsKnown, SentWithin, Unhindered, vars
    <2>2. Undisturbed' => Tidy'
      BY <1>1 DEF GInv, Undisturbed, Unheard, Tidy, Homed, TakenAhead, Earlier, OneMoveRead, Flight, BehindKnown,
         Behind, Takes, LeftOwed, Excused, Queued, Store, vars
    <2> QED BY <2>1, <2>2 DEF GInv
  <1> HIDE DEF IInv, OInv, GInv
  <1>2. CASE Start
    BY <1>2, StartGoes
  <1>3. CASE Drain
    BY <1>3, DrainGoes
  <1>4. CASE GiveBack
    BY <1>4, GiveBackGoes
  <1>5. CASE User
    BY <1>5, UserGoes
  <1>6. CASE Others
    BY <1>6, OthersGo
  <1>7. CASE Failure \/ LostAnswer \/ Stopped \/ Crash
    BY <1>7, TroubleGoes
  <1> QED BY <1>1, <1>2, <1>3, <1>4, <1>5, <1>6, <1>7 DEF Next

\* With nothing queued no rmdir is owed.
LEMMA NoneStands ==
  ASSUME IInv, GInv PROVE FolderGone
  <1> SUFFICES ASSUME AtRest, ~past.meddled, past.unheard \cap {"upload", "move-file"} = {}, ~past.gaveUp,
                      NEW l \in past.left, l[2] # NoDir, l[1] \notin past.overtaken
               PROVE  ~(remote.dirs[l[1]].here /\ remote.dirs[l[1]].id = l[2])
    BY DEF FolderGone
  <1>1. Queued(Store) = {} /\ Undisturbed
    BY DEF AtRest, Queued, Store, Undisturbed, Unheard
  <1>2. LeftKnown /\ LeftOwed
    BY <1>1 DEF GInv, Known, Tidy
  <1>3. remote.dirs[l[1]] # [here |-> TRUE, id |-> l[2]]
    BY <1>1, <1>2 DEF LeftOwed, Excused
  <1>4. remote.dirs[l[1]] \in [here : BOOLEAN, id : Nat]
    BY <1>2 DEF LeftKnown, IInv, TypeOK, OutsideOK, Remotes
  <1> QED BY <1>3, <1>4

\* A notebook the user let go of, whose directory the remote had told us of,
\* is gone from the remote once nothing is owed, but where an op that takes a
\* file out of it was behind its rmdir, or did not know where the file was
\* (past.overtaken).  It waits for every other (holdBack), and a failed one
\* leaves it queued (runPush, queueRmdir).
THEOREM FolderGoes == Spec => []FolderGone
  <1>1. Spec => []IInv
    BY Holds
  <1>2. Init => OInv
    BY OwedFirst
  <1>3. IInv /\ OInv /\ [Next]_vars => OInv'
    BY OwedNext
  <1>4. Init => GInv
    BY GoneFirst
  <1>5. IInv /\ IInv' /\ OInv /\ GInv /\ [Next]_vars => GInv'
    BY GoneNext
  <1>6. IInv /\ GInv => FolderGone
    BY NoneStands
  <1> QED BY <1>1, <1>2, <1>3, <1>4, <1>5, <1>6, PTL DEF Spec
=============================================================================

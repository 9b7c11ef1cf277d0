--------------------------- MODULE FilePush_proofs ---------------------------
(* What FilePush may never do, for any notebooks, any number of files here   *)
(* and on the remote, and whatever may happen.                               *)
(*                                                                           *)
(* The invariant comes first, because what is to be kept of a store is its   *)
(* part StoreOK: one row a file; bytes somewhere for what is still to be     *)
(* sent; and a delete behind every upload that copies what it deletes.  Then *)
(* recursion and induction along a sequence, and one lemma for each operator *)
(* of FileQueue: what it makes of a store that is OK is OK, and Fine says    *)
(* where its ops and rows come from.  Then the steps and the theorems.       *)
(*                                                                           *)
(* A copy is sent from its original's bytes on the remote, so the queue must *)
(* not take them first: RunOK says where in the run that drains the queue a  *)
(* delete is behind every upload that copies what it deletes, or that upload *)
(* has been stepped over and is remembered; FlightOK says what is known of   *)
(* the request under way, whatever the user does meanwhile.                  *)
EXTENDS FilePush, SequenceTheorems, FiniteSetTheorems, WellFoundedInduction, TLAPS

-----------------------------------------------------------------------------
(* The types.                                                                *)

Bound(row) == row # NoRow /\ row.remote # NoFile
BoundTo(rows, f, r) == rows[f] # NoRow /\ rows[f].remote = r

\* An op names what its kind is about.
OpOK(o) ==
  /\ o.kind \in {"upload", "move-file"} => o.file \in FileIds
  /\ o.kind = "delete-file" => o.remote \in Ids
  /\ o.kind \in {"mkdir", "rmdir"} => o.at.dir \in Notebooks
OwedOps == {o \in QueuedOps : OpOK(o)}
FiniteTags == {T \in SUBSET Nat : IsFiniteSet(T)}

Stores == [files : [FileIds -> Rows \cup {NoRow}],
           dirs  : [Notebooks -> {NoRow, NoDir} \cup Nat],
           ops   : Seq(OwedOps), kept : FiniteTags]
Remotes == [files : [Ids -> Entries \cup {NoFile}],
            dirs  : [Notebooks -> [here : BOOLEAN, id : Nat]], made : Ids]
Answers == [id : Ids, at : Paths, ours : BOOLEAN]
Stages == Calls \cup {"idle", "turn", "met", "settle"}
Drains == [pc : Stages, todo : Seq(Nat), read : FiniteTags, op : OwedOps \cup {NoRow},
           at : Paths \cup {NoFile}, sent : Paths \cup {NoFile}, from : Ids \cup {NoFile},
           entry : Answers \cup {NoFile}, copying : SUBSET (Ids \cup {NoFile}),
           holding : SUBSET Paths, failed : BOOLEAN, stuck : BOOLEAN]
Kept == {"meddled", "unheard", "gaveUp", "taken", "left", "strays", "behind", "overtaken", "crossed"}

OutsideOK ==
  /\ remote \in Remotes /\ play \in Play
  /\ outcome \in {"none", "ok", "retry", "blocked", "stopped"}
  /\ DOMAIN past = Kept /\ past.taken \subseteq Ids /\ past.strays \subseteq Ids
TypeOK == Store \in Stores /\ drain \in Drains /\ OutsideOK

-----------------------------------------------------------------------------
(* The invariant.                                                            *)

\* The files that are there, or were until another device deleted them.
HereOrTaken == {i \in Ids : remote.files[i] # NoFile} \cup past.taken

CopyOf(o, r) == o.kind = "upload" /\ o.copyOf = r /\ r # NoFile
DeleteOf(o, r) == o.kind = "delete-file" /\ o.remote = r

\* One row a file; a row that is neither here nor there has something to copy;
\* and what is copied is deleted behind it, by a row that is no more.
TagsApart(q) == \A i, j \in DOMAIN q : q[i].tag = q[j].tag => i = j
OneRowPerFile(rows) ==
  \A f, g \in FileIds : Bound(rows[f]) /\ BoundTo(rows, g, rows[f].remote) => f = g
BytesSomewhere(rows, q) ==
  \A i \in DOMAIN q : q[i].kind = "upload" =>
    LET row == rows[q[i].file] IN row # NoRow /\ row.remote = NoFile /\ ~row.held => q[i].copyOf # NoFile
DeletedUnbound(rows, q) ==
  \A i \in DOMAIN q, f \in FileIds : q[i].kind = "delete-file" => ~BoundTo(rows, f, q[i].remote)
CopiesFirst(q) ==
  \A i, j \in DOMAIN q : q[j].kind = "delete-file" /\ CopyOf(q[i], q[j].remote) => i < j
\* What rows and ops name has been made, and what is held or copied is there.
NamesMade(rows, q, there, made) ==
  /\ \A f \in FileIds : Bound(rows[f]) => rows[f].remote \in there
  /\ \A i \in DOMAIN q : q[i].kind = "upload" /\ q[i].copyOf # NoFile => q[i].copyOf \in there
  /\ \A i \in DOMAIN q : q[i].kind = "delete-file" => q[i].remote <= made

StoreOK(st, there, made) ==
  /\ TagsApart(st.ops) /\ OneRowPerFile(st.files) /\ BytesSomewhere(st.files, st.ops)
  /\ DeletedUnbound(st.files, st.ops) /\ CopiesFirst(st.ops)
  /\ NamesMade(st.files, st.ops, there, made)

WorldOK == \A i \in HereOrTaken : i <= remote.made

Flight == drain.pc \notin {"idle", "turn"}
KindsAt(pc) ==
  CASE pc \in {"fetch", "send"} -> {"upload"}
    [] pc = "move" -> {"move-file"}
    [] pc \in {"met", "settle"} -> {"upload", "move-file"}
    [] pc = "remove" -> {"delete-file"}
    [] pc \in {"look", "rmdir"} -> {"rmdir"}
    [] pc = "mkdir" -> {"mkdir"}
    [] OTHER -> {}

InTodo(tag) == \E i \in DOMAIN drain.todo : drain.todo[i] = tag

\* The run knows of every op it has read and the queue still has; and of every
\* delete that its copies come first, or have been stepped over.
RunOK ==
  /\ drain.pc = "idle" => drain = Rest
  /\ \A i \in DOMAIN drain.todo : drain.todo[i] \in drain.read
  /\ drain.copying # {} \/ drain.holding # {} => drain.failed \/ drain.stuck
  /\ drain.pc # "idle" =>
       \A i \in DOMAIN ops : ops[i].tag \in drain.read => InTodo(ops[i].tag) \/ drain.failed \/ drain.stuck
  /\ \A i, j \in DOMAIN ops, n \in DOMAIN drain.todo :
       ops[j].kind = "delete-file" /\ CopyOf(ops[i], ops[j].remote) /\ drain.todo[n] = ops[j].tag
         => \/ ops[j].remote \in drain.copying
            \/ \E m \in DOMAIN drain.todo : m < n /\ drain.todo[m] = ops[i].tag

\* The op under way, as it was read.
OpUnderWay ==
  /\ drain.op \in OwedOps /\ drain.op.kind \in KindsAt(drain.pc)
  /\ drain.todo # <<>> /\ Head(drain.todo) = drain.op.tag
  /\ drain.at \in Paths
  /\ \A i \in DOMAIN ops : ops[i].tag = drain.op.tag => ops[i].copyOf \in {drain.op.copyOf, NoFile}

OthersBoundTo(r) == \E f \in FileIds : f # drain.op.file /\ BoundTo(files, f, r)
Row == files[drain.op.file]

UploadOK == drain.op.kind = "upload" => Row = NoRow \/ Row.remote = NoFile
MoveOK ==
  drain.op.kind = "move-file" =>
    /\ drain.from \in Ids /\ ~OthersBoundTo(drain.from)
    /\ Row = NoRow \/ Row.remote = drain.from
FetchOK == drain.pc = "fetch" => drain.op.copyOf # NoFile /\ drain.op.copyOf \in HereOrTaken
MetOK == drain.pc \in {"met", "settle"} => drain.entry \in Answers /\ drain.entry.id \in HereOrTaken
\* Nobody else's, and nobody has deleted it.
SettleOK ==
  drain.pc = "settle" =>
    /\ ~OthersBoundTo(drain.entry.id)
    /\ Row # NoRow \/ drain.op.kind = "upload" => \A i \in DOMAIN ops : ~DeleteOf(ops[i], drain.entry.id)
\* What is being taken away is nothing to us.
Unwanted(r) ==
  /\ \A f \in FileIds : ~BoundTo(files, f, r)
  /\ \A i \in DOMAIN ops : ~CopyOf(ops[i], r)
RemoveOK == drain.pc = "remove" => Unwanted(drain.op.remote)
RmdirOK ==
  drain.pc = "rmdir" =>
    LET inIt == FilesThere(remote, drain.op.at.dir)
    IN  inIt \subseteq past.strays /\ \A r \in inIt : Unwanted(r)

FlightOK ==
  Flight => /\ OpUnderWay /\ UploadOK /\ MoveOK /\ FetchOK /\ MetOK /\ SettleOK
            /\ RemoveOK /\ RmdirOK

QueueOK == StoreOK(Store, HereOrTaken, remote.made)
IInv == TypeOK /\ WorldOK /\ QueueOK /\ RunOK /\ FlightOK

-----------------------------------------------------------------------------
(* Recursion and induction along a sequence, without operator parameters.    *)

\* A set of numbers with something in it has a least.
LEMMA Least ==
  ASSUME NEW S \in SUBSET Nat, S # {}
  PROVE  \E m \in S : \A k \in S : m <= k
  <1>1. PICK m \in S : \A k \in S : ~(<<k, m>> \in OpToRel(<, Nat))
    BY WFMin, NatLessThanWellFounded
  <1>2. \A k \in S : ~(k < m)
    BY <1>1 DEF OpToRel
  <1> QED BY <1>2

\* Induction up to N, for a set in place of a predicate.
LEMMA Steps ==
  ASSUME NEW N \in Nat, NEW S, 0 \in S, \A i \in 1..N : i - 1 \in S => i \in S
  PROVE  \A i \in 0..N : i \in S
  <1> DEFINE Out == {i \in 0..N : i \notin S}
  <1>1. SUFFICES ASSUME Out # {} PROVE FALSE
    OBVIOUS
  <1>2. PICK m \in Out : \A k \in Out : m <= k
    <2>1. Out \in SUBSET Nat
      OBVIOUS
    <2> QED BY <1>1, <2>1, Least
  <1>3. m \in 1..N /\ m - 1 \in 0..N /\ m - 1 \notin Out
    BY <1>2
  <1> QED BY <1>2, <1>3

\* g is a function on 0..N; it begins with c and goes on by d; its i-th value
\* is one of T[i].
Along(g, N) == g = [i \in 0..N |-> g[i]]
GoesBy(g, N, d, c) == g[0] = c /\ \A i \in 1..N : g[i] = d[<<g[i - 1], i>>]
StaysIn(g, N, T) == \A i \in 0..N : g[i] \in T[i]
Keeps(N, T, d, c) == c \in T[0] /\ \A i \in 1..N : \A s \in T[i - 1] : d[<<s, i>>] \in T[i]

\* There is such a function, and it stays where each step keeps it.
LEMMA Recursion ==
  ASSUME NEW N \in Nat, NEW T, NEW d, NEW c, Keeps(N, T, d, c)
  PROVE  \E g : Along(g, N) /\ GoesBy(g, N, d, c) /\ StaysIn(g, N, T)
  <1>0. c \in T[0] /\ \A i \in 1..N : \A s \in T[i - 1] : d[<<s, i>>] \in T[i]
    BY DEF Keeps
  <1> DEFINE Is(g, n) == /\ Along(g, n) /\ g[0] = c
                         /\ \A i \in 1..n : g[i] = d[<<g[i - 1], i>>]
                         /\ \A i \in 0..n : g[i] \in T[i]
             S == {n \in 0..N : \E g : Is(g, n)}
  <1>1. 0 \in S
    <2>1. Is([i \in 0..0 |-> c], 0)
      BY <1>0 DEF Along
    <2> HIDE DEF Is
    <2> QED BY <2>1
  <1>2. ASSUME NEW n \in 1..N, n - 1 \in S PROVE n \in S
    <2>1. PICK h : Is(h, n - 1)
      BY <1>2
    <2>6. h[0] = c /\ \A i \in 1..(n - 1) : h[i] = d[<<h[i - 1], i>>]
      BY <2>1
    <2>7. \A i \in 0..(n - 1) : h[i] \in T[i]
      BY <2>1
    <2> DEFINE g == [i \in 0..n |-> IF i = n THEN d[<<h[n - 1], n>>] ELSE h[i]]
    <2>2. \A i \in 0..(n - 1) : g[i] = h[i]
      OBVIOUS
    <2>3. g[n] = d[<<h[n - 1], n>>] /\ g[n - 1] = h[n - 1]
      OBVIOUS
    <2>4. g[n] \in T[n]
      <3>1. n - 1 \in 0..(n - 1) /\ n \in 1..N
        OBVIOUS
      <3>2. h[n - 1] \in T[n - 1]
        BY <2>7, <3>1
      <3> HIDE DEF g
      <3> QED BY <1>0, <2>3, <3>1, <3>2
    <2>5. Is(g, n)
      <3> HIDE DEF g
      <3>1. Along(g, n)
        BY DEF g, Along
      <3>2. g[0] = c
        BY <2>6, <2>2
      <3>3. \A i \in 1..n : g[i] = d[<<g[i - 1], i>>]
        <4> TAKE i \in 1..n
        <4>1. CASE i = n
          BY <4>1, <2>3
        <4>2. CASE i # n
          BY <4>2, <2>6, <2>2
        <4> QED BY <4>1, <4>2
      <3>4. \A i \in 0..n : g[i] \in T[i]
        <4> TAKE i \in 0..n
        <4>1. CASE i = n
          BY <4>1, <2>4
        <4>2. CASE i # n
          BY <4>2, <2>7, <2>2
        <4> QED BY <4>1, <4>2
      <3> QED BY <3>1, <3>2, <3>3, <3>4
    <2> HIDE DEF Is, g
    <2> QED BY <2>5
  <1>3. N \in S
    <2>1. \A i \in 0..N : i \in S
      <3> HIDE DEF S
      <3> QED BY <1>1, <1>2, Steps
    <2> QED BY <2>1
  <1>4. PICK g : Is(g, N)
    BY <1>3
  <1> QED BY <1>4 DEF GoesBy, StaysIn

\* A function that goes on by d wherever it is in T is in T throughout.
LEMMA Stays ==
  ASSUME NEW N \in Nat, NEW T, NEW d, NEW c, Keeps(N, T, d, c), NEW g, g[0] = c,
         \A i \in 1..N : g[i - 1] \in T[i - 1] => g[i] = d[<<g[i - 1], i>>]
  PROVE  StaysIn(g, N, T)
  <1> DEFINE In == {i \in 0..N : g[i] \in T[i]}
  <1>0. c \in T[0] /\ \A i \in 1..N : \A s \in T[i - 1] : d[<<s, i>>] \in T[i]
    BY DEF Keeps
  <1>1. 0 \in In
    BY <1>0
  <1>2. ASSUME NEW i \in 1..N, i - 1 \in In PROVE i \in In
    <2>1. g[i - 1] \in T[i - 1] /\ i \in 0..N
      BY <1>2
    <2>2. g[i] = d[<<g[i - 1], i>>]
      BY <2>1
    <2>3. g[i] \in T[i]
      BY <1>0, <2>1, <2>2
    <2> QED BY <2>1, <2>3
  <1>3. \A i \in 0..N : i \in In
    <2> HIDE DEF In
    <2> QED BY <1>1, <1>2, Steps
  <1> QED BY <1>3 DEF StaysIn

\* r is what q has at the places I, in order, where g says.
Picks(q, I, r, g) ==
  /\ g \in [DOMAIN r -> I]
  /\ \A k, l \in DOMAIN r : k < l => g[k] < g[l]
  /\ \A k \in DOMAIN r : r[k] = q[g[k]]
  /\ \A i \in I : \E k \in DOMAIN r : g[k] = i

\* One more place, behind the others.
LEMMA PicksMore ==
  ASSUME NEW S, NEW q \in Seq(S), NEW n \in 1..Len(q), NEW I \in SUBSET (1..(n - 1)),
         NEW r \in Seq(S), NEW g, Picks(q, I, r, g)
  PROVE  \E h : Picks(q, I \cup {n}, Append(r, q[n]), h)
  <1> DEFINE m == Len(r)
             R == Append(r, q[n])
             h == [k \in 1..(m + 1) |-> IF k = m + 1 THEN n ELSE g[k]]
  <1>1. /\ DOMAIN r = 1..m /\ DOMAIN R = 1..(m + 1) /\ m \in Nat
        /\ R[m + 1] = q[n] /\ \A k \in 1..m : R[k] = r[k]
    OBVIOUS
  <1>2. /\ g \in [1..m -> I] /\ \A k, l \in 1..m : k < l => g[k] < g[l]
        /\ \A k \in 1..m : r[k] = q[g[k]]
        /\ \A i \in I : \E k \in 1..m : g[k] = i
    BY <1>1 DEF Picks
  <1>3. h[m + 1] = n /\ \A k \in 1..m : h[k] = g[k]
    BY <1>1
  <1>4. h \in [1..(m + 1) -> I \cup {n}]
    BY <1>1, <1>2
  <1>5. \A k, l \in 1..(m + 1) : k < l => h[k] < h[l]
    <2> HIDE DEF h, m
    <2>1. \A k \in 1..m : g[k] \in 1..(n - 1)
      BY <1>2
    <2>2. ASSUME NEW k \in 1..(m + 1), NEW l \in 1..(m + 1), k < l PROVE h[k] < h[l]
      <3>1. k \in 1..m
        BY <2>2, <1>1
      <3>2. CASE l = m + 1
        BY <3>1, <3>2, <2>1, <1>3
      <3>3. CASE l # m + 1
        <4>1. l \in 1..m
          BY <3>3, <1>1
        <4> QED BY <4>1, <3>1, <2>2, <1>2, <1>3
      <3> QED BY <3>2, <3>3
    <2> QED BY <2>2
  <1>6. \A k \in 1..(m + 1) : R[k] = q[h[k]]
    <2> HIDE DEF h, m, R
    <2> QED BY <1>1, <1>2, <1>3
  <1>7. \A i \in I \cup {n} : \E k \in 1..(m + 1) : h[k] = i
    <2> HIDE DEF h, m
    <2>1. m + 1 \in 1..(m + 1) /\ \A k \in 1..m : k \in 1..(m + 1)
      BY <1>1
    <2>2. ASSUME NEW i \in I PROVE \E k \in 1..(m + 1) : h[k] = i
      <3>1. PICK k \in 1..m : g[k] = i
        BY <1>2
      <3> QED BY <3>1, <1>3, <2>1
    <2>3. h[m + 1] = n
      BY <1>3
    <2> QED BY <2>1, <2>2, <2>3
  <1>8. Picks(q, I \cup {n}, R, h)
    <2> HIDE DEF h, R, m
    <2> QED BY <1>1, <1>4, <1>5, <1>6, <1>7 DEF Picks
  <1> QED BY <1>8

\* u holds what is picked up to each place.
Unfolds(q, places, u) ==
  /\ u[0] = <<>> /\ Those(q, places) = u[Len(q)]
  /\ \A i \in 1..Len(q) :
       u[i] = IF i \in places THEN Append(u[i - 1], q[i]) ELSE u[i - 1]

\* The recursion of Those, unfolded.
LEMMA ThoseIs ==
  ASSUME NEW S, NEW q \in Seq(S), NEW places
  PROVE  \E u : Unfolds(q, places, u)
  <1> DEFINE N == Len(q)
             T == [n \in 0..N |-> Seq(S)]
             d == [p \in Seq(S) \X (1..N) |->
                     IF p[2] \in places THEN Append(p[1], q[p[2]]) ELSE p[1]]
             upTo == CHOOSE f : f = [i \in 0..N |-> IF i = 0 THEN <<>>
                       ELSE IF i \in places THEN Append(f[i - 1], q[i]) ELSE f[i - 1]]
  <1>0. N \in Nat
    OBVIOUS
  <1>1. Keeps(N, T, d, <<>>)
    <2>1. \A i \in 0..N : T[i] = Seq(S)
      OBVIOUS
    <2>2. ASSUME NEW i \in 1..N, NEW s \in T[i - 1] PROVE d[<<s, i>>] \in T[i]
      <3>1. s \in Seq(S) /\ i \in 0..N
        BY <2>1, <1>0
      <3>2. d[<<s, i>>] \in Seq(S)
        BY <3>1
      <3> QED BY <2>1, <3>1, <3>2
    <2>3. <<>> \in T[0]
      BY <2>1, <1>0
    <2> HIDE DEF T, d, N
    <2> QED BY <2>2, <2>3 DEF Keeps
  <1>2. PICK f : Along(f, N) /\ GoesBy(f, N, d, <<>>) /\ StaysIn(f, N, T)
    <2> HIDE DEF T, d, N
    <2> QED BY <1>0, <1>1, Recursion
  <1>3. ASSUME NEW i \in 1..N
        PROVE f[i] = IF i \in places THEN Append(f[i - 1], q[i]) ELSE f[i - 1]
    <2>1. i - 1 \in 0..N
      BY <1>0
    <2>2. f[i - 1] \in Seq(S)
      BY <1>2, <2>1 DEF StaysIn
    <2>3. f[i] = d[<<f[i - 1], i>>]
      <3> HIDE DEF d, T, N
      <3> QED BY <1>2 DEF GoesBy
    <2> QED BY <2>2, <2>3
  <1>4. f = [i \in 0..N |-> IF i = 0 THEN <<>>
                 ELSE IF i \in places THEN Append(f[i - 1], q[i]) ELSE f[i - 1]]
    <2> HIDE DEF d, T, N
    <2>1. f[0] = <<>> /\ f = [i \in 0..N |-> f[i]]
      BY <1>2 DEF Along, GoesBy
    <2>2. \A i \in 0..N : f[i] = IF i = 0 THEN <<>>
                 ELSE IF i \in places THEN Append(f[i - 1], q[i]) ELSE f[i - 1]
      BY <1>0, <2>1, <1>3
    <2> QED BY <2>1, <2>2
  <1>5. upTo = [i \in 0..N |-> IF i = 0 THEN <<>>
                 ELSE IF i \in places THEN Append(upTo[i - 1], q[i]) ELSE upTo[i - 1]]
    BY <1>4
  <1>6. Those(q, places) = upTo[N]
    BY DEF Those
  <1>7. upTo[0] = <<>> /\ \A i \in 1..N :
          upTo[i] = IF i \in places THEN Append(upTo[i - 1], q[i]) ELSE upTo[i - 1]
    <2> HIDE DEF upTo, N
    <2>1. \A i \in 0..N : upTo[i] = IF i = 0 THEN <<>>
                 ELSE IF i \in places THEN Append(upTo[i - 1], q[i]) ELSE upTo[i - 1]
      BY <1>5
    <2>2. \A i \in 1..N : i \in 0..N /\ i # 0
      BY <1>0
    <2>3. 0 \in 0..N
      BY <1>0
    <2> QED BY <2>1, <2>2, <2>3
  <1>8. Unfolds(q, places, upTo)
    BY <1>6, <1>7 DEF Unfolds
  <1> HIDE DEF upTo
  <1> QED BY <1>8

\* Those picks what is at the places, in order.
LEMMA ThosePicked ==
  ASSUME NEW S, NEW q \in Seq(S), NEW places
  PROVE  /\ Those(q, places) \in Seq(S)
         /\ \E g : Picks(q, places \cap DOMAIN q, Those(q, places), g)
  <1>u. PICK u : Unfolds(q, places, u)
    BY ThoseIs
  <1>1. /\ u[0] = <<>> /\ Those(q, places) = u[Len(q)]
        /\ \A i \in 1..Len(q) :
             u[i] = IF i \in places THEN Append(u[i - 1], q[i]) ELSE u[i - 1]
    BY <1>u DEF Unfolds
  <1> DEFINE Part(n) == u[n] \in Seq(S) /\ \E g : Picks(q, places \cap (1..n), u[n], g)
             In == {n \in 0..Len(q) : Part(n)}
  <1>0. Len(q) \in Nat
    OBVIOUS
  <1>2. 0 \in In
    <2>1. Picks(q, places \cap (1..0), <<>>, [k \in {} |-> 0])
      BY DEF Picks
    <2>2. u[0] \in Seq(S) /\ places \cap (1..0) = {} /\ u[0] = <<>>
      BY <1>1
    <2>3. \E g : Picks(q, places \cap (1..0), u[0], g)
      <3> HIDE DEF In
      <3> QED BY <2>1, <2>2
    <2>4. Part(0) /\ 0 \in 0..Len(q)
      BY <1>0, <2>2, <2>3
    <2> HIDE DEF Part
    <2> QED BY <2>4
  <1>3. ASSUME NEW i \in 1..Len(q), i - 1 \in In PROVE i \in In
    <2>1. PICK g : Picks(q, places \cap (1..(i - 1)), u[i - 1], g)
      BY <1>3
    <2>2. u[i - 1] \in Seq(S) /\ i \in 0..Len(q)
      BY <1>3
    <2>3. CASE i \in places
      <3>1. Append(u[i - 1], q[i]) \in Seq(S)
        BY <2>2
      <3>2. PICK h : Picks(q, (places \cap (1..(i - 1))) \cup {i}, Append(u[i - 1], q[i]), h)
        BY <2>1, <2>2, PicksMore
      <3>3. (places \cap (1..(i - 1))) \cup {i} = places \cap (1..i)
        BY <2>3
      <3>4. u[i] = Append(u[i - 1], q[i])
        BY <1>1, <2>3
      <3> QED BY <3>1, <3>2, <3>3, <3>4, <2>2
    <2>4. CASE i \notin places
      <3>1. places \cap (1..(i - 1)) = places \cap (1..i)
        BY <2>4
      <3>2. u[i] = u[i - 1]
        BY <1>1, <2>4
      <3> QED BY <3>1, <3>2, <2>1, <2>2
    <2> QED BY <2>3, <2>4
  <1>4. Len(q) \in In
    <2>1. \A i \in 0..Len(q) : i \in In
      <3> HIDE DEF In
      <3> QED BY <1>0, <1>2, <1>3, Steps
    <2>2. Len(q) \in 0..Len(q)
      BY <1>0
    <2> HIDE DEF In
    <2> QED BY <2>1, <2>2
  <1>5. places \cap (1..Len(q)) = places \cap DOMAIN q
    OBVIOUS
  <1> QED BY <1>1, <1>4, <1>5

-----------------------------------------------------------------------------
(* Names, tags and the queue's operators.                                    *)

\* There is a free name, and it is none of those taken.
LEMMA FreeNameFree ==
  ASSUME NEW taken, IsFiniteSet(taken)
  PROVE  FreeName(taken) \in Nat \ {0} /\ FreeName(taken) \notin taken
  <1> DEFINE n == Cardinality(taken) + 1
             Free == {k \in 1..n : k \notin taken}
  <1>1. n \in Nat \ {0} /\ Cardinality(taken) \in Nat
    BY FS_CardinalityType
  <1>2. IsFiniteSet(1..n) /\ Cardinality(1..n) = n
    BY <1>1, FS_Interval
  <1>3. Free # {}
    <2>1. SUFFICES ASSUME 1..n \subseteq taken PROVE FALSE
      OBVIOUS
    <2>2. Cardinality(1..n) <= Cardinality(taken)
      BY <2>1, FS_Subset
    <2> QED BY <1>1, <1>2, <2>2
  <1>4. PICK m \in Free : \A k \in Free : m <= k
    <2>1. Free \in SUBSET Nat
      BY <1>1
    <2> QED BY <1>3, <2>1, Least
  <1>5. m \in 1..n /\ m \notin taken /\ \A j \in 1..(m - 1) : j \in taken
    BY <1>1, <1>4
  <1>6. /\ FreeName(taken) \in 1..n /\ FreeName(taken) \notin taken
    BY <1>5 DEF FreeName
  <1> QED BY <1>1, <1>6

\* An op as it was, or with less to copy.
SameOp(o, p) ==
  /\ p.tag = o.tag /\ p.kind = o.kind /\ p.file = o.file /\ p.remote = o.remote
  /\ p.copyOf \in {o.copyOf, NoFile}
Follows(q, p) ==
  \E g \in [DOMAIN p -> DOMAIN q] :
    /\ \A k, l \in DOMAIN p : k < l => g[k] < g[l]
    /\ \A k \in DOMAIN p : SameOp(q[g[k]], p[k])

\* What p still has of q is as it was.
Part(q, p) ==
  /\ Follows(q, p)
  /\ \A k \in DOMAIN p : \E i \in DOMAIN q : p[k] = q[i]

\* What a store is made of.
LEMMA StoreTyped ==
  ASSUME NEW st \in Stores
  PROVE  /\ st.files \in [FileIds -> Rows \cup {NoRow}]
         /\ st.dirs \in [Notebooks -> {NoRow, NoDir} \cup Nat]
         /\ st.ops \in Seq(OwedOps) /\ st.kept \in SUBSET Nat /\ IsFiniteSet(st.kept)
         /\ \A i \in DOMAIN st.ops : st.ops[i] \in OwedOps /\ st.ops[i] \in QueuedOps
         /\ \A f \in FileIds : st.files[f] # NoRow => st.files[f] \in Rows
  <1>1. st.ops \in Seq(OwedOps) /\ st.kept \in FiniteTags
    BY DEF Stores
  <1>2. \A i \in DOMAIN st.ops : st.ops[i] \in OwedOps
    BY <1>1
  <1> QED BY <1>1, <1>2 DEF Stores, FiniteTags, OwedOps

\* Withdrawn ops leave the queue, and the rest of it stays in order.
LEMMA WithdrawIs ==
  ASSUME NEW st \in Stores, NEW gone
  PROVE  /\ Withdraw(st, gone) \in Stores
         /\ Withdraw(st, gone) = [st EXCEPT !.ops = Withdraw(st, gone).ops]
         /\ Part(st.ops, Withdraw(st, gone).ops)
         /\ \A k \in DOMAIN Withdraw(st, gone).ops : Withdraw(st, gone).ops[k] \notin gone
         /\ \A i \in DOMAIN st.ops : st.ops[i] \notin gone =>
              \E k \in DOMAIN Withdraw(st, gone).ops : Withdraw(st, gone).ops[k] = st.ops[i]
  <1> DEFINE I == {i \in DOMAIN st.ops : st.ops[i] \notin gone}
             q == st.ops
             p == Those(q, I)
  <1>1. Withdraw(st, gone) = [st EXCEPT !.ops = p] /\ Withdraw(st, gone).ops = p
    BY DEF Withdraw, Stores
  <1>2. p \in Seq(OwedOps) /\ \E g : Picks(q, I \cap DOMAIN q, p, g)
    BY StoreTyped, ThosePicked
  <1>3. PICK g : Picks(q, I, p, g)
    <2>1. I \cap DOMAIN q = I
      OBVIOUS
    <2> HIDE DEF I, p
    <2> QED BY <1>2, <2>1
  <1> HIDE DEF p
  <1>4. Part(q, p) /\ \A k \in DOMAIN p : p[k] \notin gone
    <2>1. /\ g \in [DOMAIN p -> I] /\ \A k, l \in DOMAIN p : k < l => g[k] < g[l]
          /\ \A k \in DOMAIN p : p[k] = q[g[k]]
      BY <1>3 DEF Picks
    <2>2. g \in [DOMAIN p -> DOMAIN q]
      BY <2>1
    <2> QED BY <2>1, <2>2 DEF Part, Follows, SameOp
  <1>5. \A i \in I : \E k \in DOMAIN p : p[k] = q[i]
    BY <1>3 DEF Picks
  <1>6. [st EXCEPT !.ops = p] \in Stores
    BY <1>2 DEF Stores
  <1> QED BY <1>1, <1>4, <1>5, <1>6

\* An op queued comes last, under a tag nobody holds.
LEMMA AddIs ==
  ASSUME NEW st \in Stores, NEW op \in OwedOps
  PROVE  /\ Add(st, op) \in Stores /\ Add(st, op) = [st EXCEPT !.ops = Add(st, op).ops]
         /\ \E t \in Nat \ {0} :
              /\ Add(st, op).ops = Append(st.ops, [op EXCEPT !.tag = t])
              /\ [op EXCEPT !.tag = t] \in OwedOps
              /\ t \notin st.kept /\ \A i \in DOMAIN st.ops : st.ops[i].tag # t
  <1> DEFINE tags == {o.tag : o \in Queued(st)} \cup st.kept
             t == Fresh(st)
  <1>1. IsFiniteSet(tags)
    <2>1. IsFiniteSet(DOMAIN st.ops)
      <3>1. DOMAIN st.ops = 1..Len(st.ops) /\ Len(st.ops) \in Nat
        BY StoreTyped
      <3> QED BY <3>1, FS_Interval
    <2>2. IsFiniteSet({st.ops[i].tag : i \in DOMAIN st.ops})
      <3> DEFINE tag == [i \in DOMAIN st.ops |-> st.ops[i].tag]
      <3>1. tag \in Surjection(DOMAIN st.ops, {st.ops[i].tag : i \in DOMAIN st.ops})
        BY DEF Surjection
      <3> QED BY <2>1, <3>1, FS_Surjection
    <2>3. {o.tag : o \in Queued(st)} = {st.ops[i].tag : i \in DOMAIN st.ops}
      BY DEF Queued
    <2> QED BY <2>2, <2>3, StoreTyped, FS_Union
  <1>2. t \in Nat \ {0} /\ t \notin tags
    BY <1>1, FreeNameFree DEF Fresh
  <1>3. t \notin st.kept /\ \A i \in DOMAIN st.ops : st.ops[i].tag # t
    BY <1>2 DEF Queued
  <1>4. [op EXCEPT !.tag = t] \in OwedOps
    <2> HIDE DEF t
    <2> QED BY <1>2 DEF OwedOps, QueuedOps, OpOK
  <1>5. /\ Add(st, op) = [st EXCEPT !.ops = Append(st.ops, [op EXCEPT !.tag = t])]
        /\ Add(st, op).ops = Append(st.ops, [op EXCEPT !.tag = t])
    BY DEF Add, Stores
  <1>6. Append(st.ops, [op EXCEPT !.tag = t]) \in Seq(OwedOps)
    BY <1>4, StoreTyped
  <1>7. Add(st, op) \in Stores
    <2> HIDE DEF t
    <2> QED BY <1>5, <1>6 DEF Stores
  <1> QED BY <1>2, <1>3, <1>4, <1>5, <1>7

-----------------------------------------------------------------------------
(* What a change of the store keeps.                                         *)

\* What p has is what q had, or was queued since: under a number nobody knew,
\* and copying what one of the rows had for its file.
OpsFrom(q, p, kept, rows) ==
  \A k \in DOMAIN p :
    \/ \E i \in DOMAIN q : SameOp(q[i], p[k])
    \/ /\ p[k].tag \notin kept
       /\ p[k].kind = "upload" /\ p[k].copyOf # NoFile =>
            \E f \in FileIds : BoundTo(rows, f, p[k].copyOf)
DeletesFrom(q, p, rows) ==
  \A k \in DOMAIN p : p[k].kind = "delete-file" =>
    \/ \E i \in DOMAIN q : DeleteOf(q[i], p[k].remote)
    \/ \E f \in FileIds : BoundTo(rows, f, p[k].remote)
\* No row is bound that was not, a row that stays stays bound, and none is
\* back but those born.
RowsFrom(rows, rows2, born) ==
  /\ \A f \in FileIds : Bound(rows2[f]) => BoundTo(rows, f, rows2[f].remote)
  /\ \A f \in FileIds \ born : rows2[f] # NoRow => rows[f] # NoRow /\ rows2[f].remote = rows[f].remote

Fine(st, s2, rows, A, m) ==
  s2 \in Stores /\ StoreOK(s2, A, m) /\ s2.kept = st.kept /\ OpsFrom(st.ops, s2.ops, st.kept, rows)
FineForUser(st, s2, born, A, m) ==
  /\ Fine(st, s2, st.files, A, m)
  /\ DeletesFrom(st.ops, s2.ops, st.files) /\ RowsFrom(st.files, s2.files, born)

\* Twice the same, or with less to copy.
LEMMA SameOpTrans ==
  ASSUME NEW o, NEW p, NEW r, SameOp(o, p), SameOp(p, r)
  PROVE  SameOp(o, r)
  BY DEF SameOp

\* Nothing done is fine.
LEMMA FineItself ==
  ASSUME NEW st \in Stores, NEW A, NEW m, StoreOK(st, A, m), NEW rows
  PROVE  Fine(st, st, rows, A, m) /\ FineForUser(st, st, {}, A, m)
  <1>1. \A i \in DOMAIN st.ops : SameOp(st.ops[i], st.ops[i])
    BY DEF SameOp
  <1>2. OpsFrom(st.ops, st.ops, st.kept, rows) /\ OpsFrom(st.ops, st.ops, st.kept, st.files)
    BY <1>1 DEF OpsFrom
  <1>3. DeletesFrom(st.ops, st.ops, st.files)
    BY DEF DeletesFrom, DeleteOf
  <1>4. RowsFrom(st.files, st.files, {})
    BY DEF RowsFrom, Bound, BoundTo
  <1> QED BY <1>2, <1>3, <1>4 DEF Fine, FineForUser

\* Two changes in a row: where the ops come from.
LEMMA OpsFromTrans ==
  ASSUME NEW q, NEW p, NEW r, NEW kept, NEW rows, NEW rows2,
         OpsFrom(q, p, kept, rows), OpsFrom(p, r, kept, rows2),
         \A f \in FileIds : Bound(rows2[f]) => BoundTo(rows, f, rows2[f].remote)
  PROVE  OpsFrom(q, r, kept, rows)
  <1> SUFFICES ASSUME NEW k \in DOMAIN r
               PROVE  \/ \E i \in DOMAIN q : SameOp(q[i], r[k])
                      \/ /\ r[k].tag \notin kept
                         /\ r[k].kind = "upload" /\ r[k].copyOf # NoFile =>
                              \E f \in FileIds : BoundTo(rows, f, r[k].copyOf)
    BY DEF OpsFrom
  <1>1. CASE \E j \in DOMAIN p : SameOp(p[j], r[k])
    <2>1. PICK j \in DOMAIN p : SameOp(p[j], r[k])
      BY <1>1
    <2>2. CASE \E i \in DOMAIN q : SameOp(q[i], p[j])
      BY <2>1, <2>2, SameOpTrans
    <2>3. CASE ~\E i \in DOMAIN q : SameOp(q[i], p[j])
      <3>1. /\ p[j].tag \notin kept
            /\ p[j].kind = "upload" /\ p[j].copyOf # NoFile =>
                 \E f \in FileIds : BoundTo(rows, f, p[j].copyOf)
        BY <2>3 DEF OpsFrom
      <3> QED BY <2>1, <3>1 DEF SameOp
    <2> QED BY <2>2, <2>3
  <1>2. CASE ~\E j \in DOMAIN p : SameOp(p[j], r[k])
    <2>1. /\ r[k].tag \notin kept
          /\ r[k].kind = "upload" /\ r[k].copyOf # NoFile =>
               \E f \in FileIds : BoundTo(rows2, f, r[k].copyOf)
      BY <1>2 DEF OpsFrom
    <2> QED BY <2>1 DEF BoundTo, Bound
  <1> QED BY <1>1, <1>2

\* Two changes in a row, of the drain.
LEMMA FineTrans ==
  ASSUME NEW a, NEW b, NEW c, NEW rows, NEW A, NEW m,
         Fine(a, b, rows, A, m), Fine(b, c, rows, A, m)
  PROVE  Fine(a, c, rows, A, m)
  <1>1. \A f \in FileIds : Bound(rows[f]) => BoundTo(rows, f, rows[f].remote)
    BY DEF Bound, BoundTo
  <1>2. OpsFrom(a.ops, b.ops, a.kept, rows) /\ OpsFrom(b.ops, c.ops, a.kept, rows)
    BY DEF Fine
  <1>3. OpsFrom(a.ops, c.ops, a.kept, rows)
    BY <1>1, <1>2, OpsFromTrans
  <1> QED BY <1>3 DEF Fine

\* Two changes in a row, of the user.
LEMMA UserTrans ==
  ASSUME NEW a, NEW b, NEW c, NEW born, NEW A, NEW m,
         FineForUser(a, b, born, A, m), FineForUser(b, c, born, A, m)
  PROVE  FineForUser(a, c, born, A, m)
  <1>1. \A f \in FileIds : Bound(b.files[f]) => BoundTo(a.files, f, b.files[f].remote)
    BY DEF FineForUser, RowsFrom
  <1>2. OpsFrom(a.ops, b.ops, a.kept, a.files) /\ OpsFrom(b.ops, c.ops, a.kept, b.files)
    BY DEF FineForUser, Fine
  <1>3. OpsFrom(a.ops, c.ops, a.kept, a.files)
    BY <1>1, <1>2, OpsFromTrans
  <1>4. RowsFrom(a.files, c.files, born)
    BY DEF FineForUser, RowsFrom, Bound, BoundTo
  <1>5. DeletesFrom(a.ops, c.ops, a.files)
    <2> SUFFICES ASSUME NEW k \in DOMAIN c.ops, c.ops[k].kind = "delete-file"
                 PROVE  \/ \E i \in DOMAIN a.ops : DeleteOf(a.ops[i], c.ops[k].remote)
                        \/ \E f \in FileIds : BoundTo(a.files, f, c.ops[k].remote)
      BY DEF DeletesFrom
    <2>1. CASE \E j \in DOMAIN b.ops : DeleteOf(b.ops[j], c.ops[k].remote)
      BY <2>1 DEF FineForUser, DeletesFrom, DeleteOf
    <2>2. CASE \E f \in FileIds : BoundTo(b.files, f, c.ops[k].remote)
      <3>1. PICK f \in FileIds : BoundTo(b.files, f, c.ops[k].remote)
        BY <2>2
      <3>2. CASE c.ops[k].remote = NoFile
        <4>1. c.ops[k] \in OwedOps
          BY StoreTyped DEF FineForUser, Fine
        <4> QED BY <3>2, <4>1, NothingAssumption DEF OwedOps, OpOK, Ids
      <3>3. CASE c.ops[k].remote # NoFile
        BY <3>1, <3>3, <1>1 DEF Bound, BoundTo
      <3> QED BY <3>2, <3>3
    <2> QED BY <2>1, <2>2 DEF FineForUser, DeletesFrom
  <1> QED BY <1>3, <1>4, <1>5 DEF Fine, FineForUser

\* What follows q, with the same rows, is as good a queue.
LEMMA FollowsOK ==
  ASSUME NEW q \in Seq(OwedOps), NEW p \in Seq(OwedOps), Follows(q, p), NEW rows, NEW A, NEW m,
         TagsApart(q), DeletedUnbound(rows, q), CopiesFirst(q), NamesMade(rows, q, A, m)
  PROVE  /\ TagsApart(p) /\ DeletedUnbound(rows, p) /\ CopiesFirst(p) /\ NamesMade(rows, p, A, m)
         /\ \A kept, any : OpsFrom(q, p, kept, any) /\ DeletesFrom(q, p, any)
  <1>1. PICK g \in [DOMAIN p -> DOMAIN q] :
          /\ \A k, l \in DOMAIN p : k < l => g[k] < g[l]
          /\ \A k \in DOMAIN p : SameOp(q[g[k]], p[k])
    BY DEF Follows
  <1>2. \A k \in DOMAIN p : g[k] \in DOMAIN q /\ k \in Nat /\ g[k] \in Nat
    OBVIOUS
  <1>3. TagsApart(p)
    <2> SUFFICES ASSUME NEW k \in DOMAIN p, NEW l \in DOMAIN p, p[k].tag = p[l].tag
                 PROVE  k = l
      BY DEF TagsApart
    <2>1. g[k] = g[l]
      BY <1>1, <1>2 DEF TagsApart, SameOp
    <2> QED BY <2>1, <1>1, <1>2
  <1>4. DeletedUnbound(rows, p)
    BY <1>1, <1>2 DEF DeletedUnbound, SameOp
  <1>5. CopiesFirst(p)
    <2> SUFFICES ASSUME NEW k \in DOMAIN p, NEW l \in DOMAIN p,
                        p[l].kind = "delete-file", CopyOf(p[k], p[l].remote)
                 PROVE  k < l
      BY DEF CopiesFirst
    <2>1. q[g[l]].kind = "delete-file" /\ CopyOf(q[g[k]], q[g[l]].remote)
      BY <1>1 DEF SameOp, CopyOf
    <2>2. g[k] < g[l]
      BY <2>1, <1>2 DEF CopiesFirst
    <2> QED BY <2>2, <1>1, <1>2
  <1>6. NamesMade(rows, p, A, m)
    <2>1. \A k \in DOMAIN p : \E i \in DOMAIN q : SameOp(q[i], p[k])
      BY <1>1, <1>2
    <2> QED BY <2>1 DEF NamesMade, SameOp
  <1>7. \A kept, any : OpsFrom(q, p, kept, any)
    BY <1>1, <1>2 DEF OpsFrom
  <1>8. \A any : DeletesFrom(q, p, any)
    BY <1>1, <1>2 DEF DeletesFrom, SameOp, DeleteOf
  <1> QED BY <1>3, <1>4, <1>5, <1>6, <1>7, <1>8

\* Ops withdrawn.
LEMMA WithdrawOK ==
  ASSUME NEW st \in Stores, NEW gone, NEW A, NEW m, StoreOK(st, A, m), NEW rows
  PROVE  /\ Fine(st, Withdraw(st, gone), rows, A, m)
         /\ FineForUser(st, Withdraw(st, gone), {}, A, m)
         /\ Withdraw(st, gone).files = st.files /\ Withdraw(st, gone).dirs = st.dirs
  <1> DEFINE s2 == Withdraw(st, gone)
  <1>1. s2 \in Stores /\ s2 = [st EXCEPT !.ops = s2.ops] /\ Part(st.ops, s2.ops)
    BY WithdrawIs
  <1> HIDE DEF s2
  <1>2. s2.files = st.files /\ s2.kept = st.kept /\ s2.dirs = st.dirs
    BY <1>1 DEF Stores
  <1>3. s2.ops \in Seq(OwedOps) /\ st.ops \in Seq(OwedOps)
    BY <1>1, StoreTyped
  <1>4. /\ TagsApart(s2.ops) /\ DeletedUnbound(s2.files, s2.ops) /\ CopiesFirst(s2.ops)
        /\ NamesMade(s2.files, s2.ops, A, m)
        /\ \A kept, any : OpsFrom(st.ops, s2.ops, kept, any) /\ DeletesFrom(st.ops, s2.ops, any)
    BY <1>1, <1>2, <1>3, FollowsOK DEF StoreOK, Part
  <1>5. OneRowPerFile(s2.files)
    BY <1>2 DEF StoreOK
  <1>6. BytesSomewhere(s2.files, s2.ops)
    BY <1>1, <1>2 DEF StoreOK, BytesSomewhere, Part
  <1>7. RowsFrom(st.files, s2.files, {})
    BY <1>2 DEF RowsFrom, Bound, BoundTo
  <1>8. StoreOK(s2, A, m)
    BY <1>4, <1>5, <1>6 DEF StoreOK
  <1> QED BY <1>1, <1>2, <1>4, <1>7, <1>8 DEF Fine, FineForUser, s2

\* An op queued.
LEMMA AddOK ==
  ASSUME NEW st \in Stores, NEW op \in OwedOps, NEW A, NEW m, StoreOK(st, A, m), NEW rows,
         op.kind = "upload" =>
           /\ LET row == st.files[op.file]
              IN  row # NoRow /\ row.remote = NoFile /\ ~row.held => op.copyOf # NoFile
           /\ op.copyOf # NoFile =>
                /\ op.copyOf \in A /\ \E f \in FileIds : BoundTo(rows, f, op.copyOf)
                /\ \E f \in FileIds : BoundTo(st.files, f, op.copyOf),
         op.kind = "delete-file" =>
           /\ op.remote <= m /\ \A f \in FileIds : ~BoundTo(st.files, f, op.remote)
  PROVE  /\ Fine(st, Add(st, op), rows, A, m)
         /\ Add(st, op).files = st.files /\ Add(st, op).dirs = st.dirs
         /\ \A any : (op.kind = "delete-file" => \E f \in FileIds : BoundTo(any, f, op.remote))
              => DeletesFrom(st.ops, Add(st, op).ops, any)
  <1> DEFINE s2 == Add(st, op)
  <1>1. PICK t \in Nat \ {0} :
              /\ s2.ops = Append(st.ops, [op EXCEPT !.tag = t])
              /\ [op EXCEPT !.tag = t] \in OwedOps
              /\ t \notin st.kept /\ \A i \in DOMAIN st.ops : st.ops[i].tag # t
    BY AddIs
  <1>2. s2 \in Stores /\ s2.files = st.files /\ s2.kept = st.kept /\ s2.dirs = st.dirs
    BY AddIs DEF Stores
  <1> HIDE DEF s2
  <1> DEFINE q == st.ops
             p == s2.ops
             n == Len(q) + 1
  <1>3. q \in Seq(OwedOps) /\ \A i \in DOMAIN q : q[i] \in OwedOps
    BY StoreTyped
  <1>4. /\ n \in Nat \ {0} /\ DOMAIN q = 1..(n - 1) /\ DOMAIN p = 1..n
        /\ \A i \in DOMAIN q : i < n /\ p[i] = q[i] /\ i \in Nat
        /\ \A k \in DOMAIN p : k = n \/ k \in DOMAIN q
        /\ p[n] = [op EXCEPT !.tag = t]
    BY <1>1, <1>3
  <1>5. /\ p[n].tag = t /\ p[n].kind = op.kind /\ p[n].file = op.file
        /\ p[n].remote = op.remote /\ p[n].copyOf = op.copyOf
    BY <1>4 DEF OwedOps, QueuedOps
  <1> HIDE DEF n, p, q
  <1>6. TagsApart(p)
    <2>1. TagsApart(q) /\ \A i \in DOMAIN q : p[i].tag # t
      BY <1>1, <1>4 DEF StoreOK, q
    <2>2. ASSUME NEW i \in DOMAIN p, NEW j \in DOMAIN p, p[i].tag = p[j].tag PROVE i = j
      <3>1. CASE i = n \/ j = n
        BY <3>1, <2>1, <2>2, <1>4, <1>5
      <3>2. CASE i # n /\ j # n
        BY <3>2, <2>1, <2>2, <1>4 DEF TagsApart
      <3> QED BY <3>1, <3>2
    <2> QED BY <2>2 DEF TagsApart
  <1>7. BytesSomewhere(st.files, p)
    <2> SUFFICES ASSUME NEW i \in DOMAIN p, p[i].kind = "upload"
                 PROVE  LET row == st.files[p[i].file]
                        IN  row # NoRow /\ row.remote = NoFile /\ ~row.held => p[i].copyOf # NoFile
      BY DEF BytesSomewhere
    <2>1. CASE i = n
      BY <2>1, <1>5
    <2>2. CASE i # n
      <3>1. i \in DOMAIN q /\ p[i] = q[i]
        BY <1>4, <2>2
      <3> QED BY <3>1 DEF StoreOK, BytesSomewhere, q
    <2> QED BY <2>1, <2>2
  <1>8. DeletedUnbound(st.files, p)
    BY <1>4, <1>5 DEF StoreOK, DeletedUnbound, q
  <1>9. CopiesFirst(p)
    <2> SUFFICES ASSUME NEW i \in DOMAIN p, NEW j \in DOMAIN p,
                        p[j].kind = "delete-file", CopyOf(p[i], p[j].remote)
                 PROVE  i < j
      BY DEF CopiesFirst
    <2>1. CASE j = n
      <3>1. i # n
        BY <2>1 DEF CopyOf
      <3> QED BY <2>1, <3>1, <1>4
    <2>2. CASE j # n /\ i = n
      <3>1. PICK f \in FileIds : BoundTo(st.files, f, op.copyOf)
        BY <2>2, <1>5 DEF CopyOf
      <3>2. j \in DOMAIN q /\ q[j].kind = "delete-file" /\ q[j].remote = op.copyOf
        BY <2>2, <1>4, <1>5 DEF CopyOf
      <3> QED BY <3>1, <3>2 DEF StoreOK, DeletedUnbound, q
    <2>3. CASE j # n /\ i # n
      BY <2>3, <1>4 DEF StoreOK, CopiesFirst, q
    <2> QED BY <2>1, <2>2, <2>3
  <1>10. NamesMade(st.files, p, A, m)
    BY <1>4, <1>5 DEF StoreOK, NamesMade, q
  <1>11. OpsFrom(q, p, st.kept, rows)
    <2>1. \A i \in DOMAIN q : SameOp(q[i], p[i])
      BY <1>4 DEF SameOp
    <2> QED BY <1>1, <1>4, <1>5, <2>1 DEF OpsFrom
  <1>12. ASSUME NEW any, op.kind = "delete-file" => \E f \in FileIds : BoundTo(any, f, op.remote)
         PROVE  DeletesFrom(q, p, any)
    BY <1>4, <1>5, <1>12 DEF DeletesFrom, DeleteOf
  <1>13. StoreOK(s2, A, m)
    BY <1>2, <1>6, <1>7, <1>8, <1>9, <1>10 DEF StoreOK, p
  <1> QED BY <1>2, <1>11, <1>12, <1>13 DEF Fine, s2, p, q

\* An op that neither copies nor deletes.
LEMMA AddPlain ==
  ASSUME NEW st \in Stores, NEW op \in OwedOps, NEW A, NEW m, StoreOK(st, A, m), NEW rows,
         op.kind \notin {"upload", "delete-file"}
  PROVE  /\ Fine(st, Add(st, op), rows, A, m) /\ FineForUser(st, Add(st, op), {}, A, m)
         /\ Add(st, op).files = st.files /\ Add(st, op).dirs = st.dirs
  <1>1. /\ Fine(st, Add(st, op), rows, A, m) /\ Fine(st, Add(st, op), st.files, A, m)
        /\ Add(st, op).files = st.files /\ Add(st, op).dirs = st.dirs
        /\ DeletesFrom(st.ops, Add(st, op).ops, st.files)
    BY AddOK
  <1>2. RowsFrom(st.files, Add(st, op).files, {})
    BY <1>1 DEF RowsFrom, Bound, BoundTo
  <1> QED BY <1>1, <1>2 DEF FineForUser

\* Ops rewritten in place.
LEMMA RewriteOK ==
  ASSUME NEW st \in Stores, NEW A, NEW m, StoreOK(st, A, m), NEW rows, NEW q \in Seq(OwedOps),
         DOMAIN q = DOMAIN st.ops, \A i \in DOMAIN q : SameOp(st.ops[i], q[i]),
         BytesSomewhere(st.files, q)
  PROVE  /\ Fine(st, [st EXCEPT !.ops = q], rows, A, m)
         /\ FineForUser(st, [st EXCEPT !.ops = q], {}, A, m)
  <1> DEFINE s2 == [st EXCEPT !.ops = q]
  <1>1. /\ s2 \in Stores /\ s2.ops = q /\ s2.files = st.files /\ s2.kept = st.kept
    BY DEF Stores
  <1>2. Follows(st.ops, q)
    <2> DEFINE g == [i \in DOMAIN q |-> i]
    <2>1. g \in [DOMAIN q -> DOMAIN st.ops] /\ \A i \in DOMAIN q : g[i] = i
      OBVIOUS
    <2> HIDE DEF g
    <2> QED BY <2>1 DEF Follows
  <1>3. /\ TagsApart(q) /\ DeletedUnbound(st.files, q) /\ CopiesFirst(q) /\ NamesMade(st.files, q, A, m)
        /\ \A kept, any : OpsFrom(st.ops, q, kept, any) /\ DeletesFrom(st.ops, q, any)
    BY <1>2, StoreTyped, FollowsOK DEF StoreOK
  <1>4. RowsFrom(st.files, s2.files, {})
    BY <1>1 DEF RowsFrom, Bound, BoundTo
  <1>5. StoreOK(s2, A, m)
    BY <1>1, <1>3 DEF StoreOK
  <1> HIDE DEF s2
  <1>6. Fine(st, s2, rows, A, m) /\ FineForUser(st, s2, {}, A, m)
    BY <1>1, <1>3, <1>4, <1>5 DEF Fine, FineForUser
  <1> QED BY <1>6 DEF s2

\* A row lost, or moved.
LEMMA PutRowOK ==
  ASSUME NEW st \in Stores, NEW A, NEW m, StoreOK(st, A, m), NEW f \in FileIds, NEW row,
         \/ row = NoRow
         \/ /\ row \in Rows /\ st.files[f] # NoRow
            /\ row.remote = st.files[f].remote /\ row.held = st.files[f].held,
         NEW rows
  PROVE  /\ Fine(st, PutFile(st, f, row), rows, A, m)
         /\ FineForUser(st, PutFile(st, f, row), {}, A, m)
         /\ PutFile(st, f, row).ops = st.ops /\ PutFile(st, f, row).dirs = st.dirs
         /\ PutFile(st, f, row).files[f] = row
         /\ \A g \in FileIds \ {f} : PutFile(st, f, row).files[g] = st.files[g]
  <1> DEFINE s2 == PutFile(st, f, row)
  <1>1. /\ s2 \in Stores /\ s2.ops = st.ops /\ s2.kept = st.kept /\ s2.dirs = st.dirs
        /\ s2.files = [st.files EXCEPT ![f] = row]
    BY DEF Stores, PutFile
  <1>2. s2.files[f] = row /\ \A g \in FileIds \ {f} : s2.files[g] = st.files[g]
    BY <1>1, StoreTyped
  <1> HIDE DEF s2
  <1>3. \A g \in FileIds :
           \/ s2.files[g] = NoRow
           \/ /\ st.files[g] # NoRow /\ s2.files[g].remote = st.files[g].remote
              /\ s2.files[g].held = st.files[g].held
    BY <1>2
  <1>4. OneRowPerFile(s2.files)
    BY <1>3 DEF StoreOK, OneRowPerFile, Bound, BoundTo
  <1>5. BytesSomewhere(s2.files, s2.ops)
    <2>1. \A i \in DOMAIN st.ops : st.ops[i].kind = "upload" => st.ops[i].file \in FileIds
      BY StoreTyped DEF OwedOps, OpOK
    <2> QED BY <1>1, <1>3, <2>1 DEF StoreOK, BytesSomewhere
  <1>6. DeletedUnbound(s2.files, s2.ops)
    BY <1>1, <1>3 DEF StoreOK, DeletedUnbound, BoundTo
  <1>7. NamesMade(s2.files, s2.ops, A, m)
    BY <1>1, <1>3 DEF StoreOK, NamesMade, Bound
  <1>8. StoreOK(s2, A, m)
    BY <1>1, <1>4, <1>5, <1>6, <1>7 DEF StoreOK
  <1>9. RowsFrom(st.files, s2.files, {})
    BY <1>3 DEF RowsFrom, Bound, BoundTo
  <1>10. Fine(st, st, rows, A, m) /\ FineForUser(st, st, {}, A, m)
    BY FineItself
  <1>11. Fine(st, s2, rows, A, m) /\ FineForUser(st, s2, {}, A, m)
    BY <1>1, <1>8, <1>9, <1>10 DEF Fine, FineForUser
  <1> QED BY <1>1, <1>2, <1>11 DEF s2

\* Notebooks' rows are nothing to files.
LEMMA DirsOK ==
  ASSUME NEW st \in Stores, NEW A, NEW m, StoreOK(st, A, m), NEW rows,
         NEW ds \in [Notebooks -> {NoRow, NoDir} \cup Nat]
  PROVE  /\ Fine(st, [st EXCEPT !.dirs = ds], rows, A, m)
         /\ FineForUser(st, [st EXCEPT !.dirs = ds], {}, A, m)
         /\ [st EXCEPT !.dirs = ds].files = st.files
  <1> DEFINE s2 == [st EXCEPT !.dirs = ds]
  <1>1. s2 \in Stores /\ s2.ops = st.ops /\ s2.kept = st.kept /\ s2.files = st.files
    BY DEF Stores
  <1>2. Fine(st, st, rows, A, m) /\ FineForUser(st, st, {}, A, m)
    BY FineItself
  <1> HIDE DEF s2
  <1>3. Fine(st, s2, rows, A, m) /\ FineForUser(st, s2, {}, A, m)
    BY <1>1, <1>2 DEF Fine, FineForUser, StoreOK
  <1> QED BY <1>1, <1>3 DEF s2

\* An op queued is an op.
LEMMA OpTyped ==
  ASSUME NEW kind \in Kinds, NEW f \in FileIds \cup {NoRow}, NEW at \in Paths
  PROVE  /\ Op(kind, f, at) \in QueuedOps
         /\ Op(kind, f, at).kind = kind /\ Op(kind, f, at).file = f /\ Op(kind, f, at).at = at
  BY DEF Op, QueuedOps

\* So are those a file's row has in the queue.
LEMMA OpsOfTyped ==
  ASSUME NEW st \in Stores, NEW f
  PROVE  /\ UploadsOf(st, f) \subseteq OwedOps /\ MovesOf(st, f) \subseteq OwedOps
         /\ \A o \in OwedOps : o.at \in Paths /\ o.to \in Paths
  <1>1. Queued(st) \subseteq OwedOps
    BY StoreTyped DEF Queued
  <1>2. UploadsOf(st, f) \subseteq Queued(st) /\ MovesOf(st, f) \subseteq Queued(st)
    BY DEF UploadsOf, MovesOf, OpsForFile
  <1>3. \A o \in OwedOps : o.at \in Paths /\ o.to \in Paths
    BY DEF OwedOps, QueuedOps
  <1> QED BY <1>1, <1>2, <1>3

\* queueMoveFile, of a row that is there.
LEMMA QueueMoveOK ==
  ASSUME NEW st \in Stores, NEW A, NEW m, StoreOK(st, A, m),
         NEW f \in FileIds, st.files[f] # NoRow, NEW from \in Paths
  PROVE  /\ FineForUser(st, QueueMoveFile(st, f, from), {}, A, m)
         /\ QueueMoveFile(st, f, from).files = st.files
         /\ QueueMoveFile(st, f, from).dirs = st.dirs
  <1> DEFINE at == st.files[f].at
             moves == MovesOf(st, f)
             origin == IF moves = {} THEN from ELSE (CHOOSE o \in moves : TRUE).at
             rest == Withdraw(st, moves)
             ups == UploadsOf(st, f)
             q == [i \in DOMAIN st.ops |->
                     IF st.ops[i] \in ups THEN [st.ops[i] EXCEPT !.at = at, !.to = at] ELSE st.ops[i]]
  <1>1. at \in Paths
    BY StoreTyped DEF Rows
  <1>2. origin \in Paths
    <2>1. moves # {} => (CHOOSE o \in moves : TRUE) \in moves
      OBVIOUS
    <2> HIDE DEF moves
    <2>2. moves # {} => (CHOOSE o \in moves : TRUE).at \in Paths
      BY <2>1, OpsOfTyped DEF moves
    <2> QED BY <2>2
  <1>3. CASE st.files[f].remote = NoFile
    <2>1. QueueMoveFile(st, f, from) = [st EXCEPT !.ops = q]
      BY <1>3 DEF QueueMoveFile, Rewrite
    <2>2. ASSUME NEW i \in DOMAIN st.ops PROVE q[i] \in OwedOps /\ SameOp(st.ops[i], q[i])
      <3>1. st.ops[i] \in OwedOps /\ st.ops[i] \in QueuedOps
        BY StoreTyped
      <3>2. CASE st.ops[i] \in ups
        <4>1. st.ops[i].kind = "upload"
          BY <3>2 DEF UploadsOf
        <4>2. q[i] = [st.ops[i] EXCEPT !.at = at, !.to = at]
          BY <3>2
        <4> HIDE DEF q, at, ups
        <4> QED BY <4>1, <4>2, <3>1, <1>1 DEF OwedOps, OpOK, QueuedOps, SameOp
      <3>3. CASE st.ops[i] \notin ups
        BY <3>1, <3>3 DEF SameOp
      <3> QED BY <3>2, <3>3
    <2>3. DOMAIN q = DOMAIN st.ops
      OBVIOUS
    <2>4. ASSUME NEW i \in DOMAIN st.ops PROVE q[i].copyOf = st.ops[i].copyOf
      <3>1. st.ops[i] \in QueuedOps
        BY StoreTyped
      <3>2. [st.ops[i] EXCEPT !.at = at, !.to = at].copyOf = st.ops[i].copyOf
        <4> HIDE DEF at
        <4> QED BY <3>1 DEF QueuedOps
      <3>3. q[i] \in {[st.ops[i] EXCEPT !.at = at, !.to = at], st.ops[i]}
        OBVIOUS
      <3> HIDE DEF q, at
      <3> QED BY <3>2, <3>3
    <2>5. q \in Seq(OwedOps)
      <3>1. Len(st.ops) \in Nat /\ DOMAIN st.ops = 1..Len(st.ops)
        BY StoreTyped
      <3>2. q \in [1..Len(st.ops) -> OwedOps]
        <4>1. q = [i \in 1..Len(st.ops) |-> q[i]]
          BY <3>1
        <4> HIDE DEF q
        <4> QED BY <4>1, <2>2, <3>1
      <3> HIDE DEF q
      <3> QED BY <3>1, <3>2
    <2> HIDE DEF q
    <2>6. BytesSomewhere(st.files, q)
      BY <2>2, <2>3, <2>4 DEF StoreOK, BytesSomewhere, SameOp
    <2>7. FineForUser(st, [st EXCEPT !.ops = q], {}, A, m)
      BY <2>2, <2>3, <2>5, <2>6, RewriteOK
    <2>8. [st EXCEPT !.ops = q].files = st.files /\ [st EXCEPT !.ops = q].dirs = st.dirs
      BY DEF Stores
    <2> QED BY <2>1, <2>7, <2>8
  <1>4. FineForUser(st, rest, {}, A, m) /\ rest.files = st.files /\ rest.dirs = st.dirs
    BY WithdrawOK
  <1>5. MoveOp(f, origin, at) \in OwedOps /\ MoveOp(f, origin, at).kind = "move-file"
    <2> HIDE DEF origin, at
    <2> QED BY <1>1, <1>2 DEF MoveOp, Op, OwedOps, OpOK, QueuedOps, Kinds
  <1>6. /\ FineForUser(st, Add(rest, MoveOp(f, origin, at)), {}, A, m)
        /\ Add(rest, MoveOp(f, origin, at)).files = st.files
        /\ Add(rest, MoveOp(f, origin, at)).dirs = st.dirs
    <2> HIDE DEF origin, at, rest
    <2>1. rest \in Stores /\ StoreOK(rest, A, m)
      BY <1>4 DEF FineForUser, Fine
    <2>2. /\ FineForUser(rest, Add(rest, MoveOp(f, origin, at)), {}, A, m)
          /\ Add(rest, MoveOp(f, origin, at)).files = rest.files
          /\ Add(rest, MoveOp(f, origin, at)).dirs = rest.dirs
      BY <2>1, <1>5, AddPlain
    <2> QED BY <2>2, <1>4, UserTrans
  <1>7. FineForUser(st, st, {}, A, m)
    BY FineItself
  <1>8. CASE st.files[f].remote # NoFile
    <2>1. QueueMoveFile(st, f, from) \in {st, rest, Add(rest, MoveOp(f, origin, at))}
      BY <1>8 DEF QueueMoveFile
    <2> HIDE DEF rest, origin, at
    <2> QED BY <2>1, <1>4, <1>6, <1>7
  <1> QED BY <1>3, <1>8

-----------------------------------------------------------------------------
(* The writers.                                                              *)

\* handOverToCopies: what is copied from the row, and is here, is not copied
\* any more.
LEMMA HandOverOK ==
  ASSUME NEW st \in Stores, NEW A, NEW m, StoreOK(st, A, m), NEW f \in FileIds, st.files[f] # NoRow
  PROVE  /\ FineForUser(st, HandOver(st, f), {}, A, m) /\ HandOver(st, f).dirs = st.dirs
         /\ \A g \in FileIds : st.files[g] # NoRow <=> HandOver(st, f).files[g] # NoRow
         /\ HandOver(st, f).files[f] # NoRow /\ HandOver(st, f).files[f].remote = st.files[f].remote
         /\ HandOver(st, f).files[f].at = st.files[f].at
  <1> DEFINE row == st.files[f]
             copies == {o \in Queued(st) : o.kind = "upload" /\ o.copyOf = row.remote}
             has(g, r) == IF r # NoRow /\ \E o \in copies : o.file = g
                          THEN [r EXCEPT !.held = TRUE] ELSE r
             q == [i \in DOMAIN st.ops |->
                     IF st.ops[i] \in copies THEN [st.ops[i] EXCEPT !.copyOf = NoFile] ELSE st.ops[i]]
             rows == [g \in FileIds |-> has(g, st.files[g])]
             s2 == [st EXCEPT !.ops = q, !.files = rows]
  <1>1. CASE row.remote = NoFile \/ ~row.held
    <2>1. HandOver(st, f) = st
      BY <1>1 DEF HandOver
    <2> QED BY <2>1, FineItself
  <1>2. CASE ~(row.remote = NoFile \/ ~row.held)
    <2>1. HandOver(st, f) = s2
      <3>1. DOMAIN st.files = FileIds
        BY StoreTyped
      <3>2. HandOver(st, f) = [Rewrite(st, LAMBDA o : IF o \in copies THEN [o EXCEPT !.copyOf = NoFile] ELSE o)
                                EXCEPT !.files = [g \in DOMAIN @ |-> has(g, @[g])]]
        BY <1>2 DEF HandOver
      <3> QED BY <3>1, <3>2 DEF Rewrite, Stores
    <2>2. \A i \in DOMAIN st.ops : st.ops[i] \in OwedOps /\ st.ops[i] \in QueuedOps
      BY StoreTyped
    <2>3. ASSUME NEW i \in DOMAIN st.ops
          PROVE /\ q[i] \in OwedOps /\ SameOp(st.ops[i], q[i])
                /\ q[i].copyOf = IF st.ops[i] \in copies THEN NoFile ELSE st.ops[i].copyOf
      <3>1. st.ops[i] \in OwedOps /\ st.ops[i] \in QueuedOps
        BY <2>2
      <3>2. [st.ops[i] EXCEPT !.copyOf = NoFile] \in OwedOps
        BY <3>1 DEF OwedOps, QueuedOps, OpOK
      <3>3. /\ SameOp(st.ops[i], [st.ops[i] EXCEPT !.copyOf = NoFile])
            /\ [st.ops[i] EXCEPT !.copyOf = NoFile].copyOf = NoFile
        BY <3>1 DEF QueuedOps, SameOp
      <3>4. q[i] = IF st.ops[i] \in copies THEN [st.ops[i] EXCEPT !.copyOf = NoFile] ELSE st.ops[i]
        OBVIOUS
      <3>5. SameOp(st.ops[i], st.ops[i])
        BY DEF SameOp
      <3> HIDE DEF q, copies
      <3> QED BY <3>1, <3>2, <3>3, <3>4, <3>5
    <2>4. ASSUME NEW g \in FileIds
          PROVE /\ rows[g] \in Rows \cup {NoRow} /\ (st.files[g] # NoRow <=> rows[g] # NoRow)
                /\ st.files[g] # NoRow =>
                     /\ rows[g].remote = st.files[g].remote /\ rows[g].at = st.files[g].at
                     /\ (~rows[g].held => ~st.files[g].held)
                /\ st.files[g] # NoRow /\ (\E o \in copies : o.file = g) => rows[g].held
      <3>1. CASE st.files[g] = NoRow
        BY <3>1
      <3>2. CASE st.files[g] # NoRow
        <4>1. st.files[g] \in Rows
          BY <3>2, StoreTyped
        <4>2. /\ [st.files[g] EXCEPT !.held = TRUE] \in Rows
              /\ [st.files[g] EXCEPT !.held = TRUE].held
              /\ [st.files[g] EXCEPT !.held = TRUE].remote = st.files[g].remote
              /\ [st.files[g] EXCEPT !.held = TRUE].at = st.files[g].at
          BY <4>1 DEF Rows
        <4>3. rows[g] = IF \E o \in copies : o.file = g
                        THEN [st.files[g] EXCEPT !.held = TRUE] ELSE st.files[g]
          BY <3>2
        <4> HIDE DEF rows, copies
        <4> QED BY <4>1, <4>2, <4>3, <3>2, NothingAssumption
      <3> QED BY <3>1, <3>2
    <2>5. DOMAIN q = DOMAIN st.ops /\ q \in Seq(OwedOps)
      <3>1. Len(st.ops) \in Nat /\ DOMAIN st.ops = 1..Len(st.ops)
        BY StoreTyped
      <3>2. q \in [1..Len(st.ops) -> OwedOps]
        <4>1. q = [i \in 1..Len(st.ops) |-> q[i]]
          BY <3>1
        <4> HIDE DEF q
        <4> QED BY <4>1, <2>3, <3>1
      <3> HIDE DEF q
      <3>3. q \in Seq(OwedOps)
        BY <3>1, <3>2
      <3> QED BY <3>1, <3>2, <3>3
    <2>6. rows \in [FileIds -> Rows \cup {NoRow}]
      <3>1. rows = [g \in FileIds |-> rows[g]]
        OBVIOUS
      <3> HIDE DEF rows
      <3> QED BY <3>1, <2>4
    <2>7. /\ s2 \in Stores /\ s2.ops = q /\ s2.files = rows /\ s2.dirs = st.dirs /\ s2.kept = st.kept
      <3> HIDE DEF q, rows
      <3> QED BY <2>5, <2>6 DEF Stores
    <2>8. \A i \in DOMAIN st.ops : st.ops[i].kind = "upload" => st.ops[i].file \in FileIds
      BY <2>2 DEF OwedOps, OpOK
    <2>9. BytesSomewhere(rows, q)
      <3> SUFFICES ASSUME NEW i \in DOMAIN st.ops, st.ops[i].kind = "upload",
                          rows[st.ops[i].file] # NoRow, rows[st.ops[i].file].remote = NoFile,
                          ~rows[st.ops[i].file].held
                   PROVE  q[i].copyOf # NoFile
        <4> HIDE DEF q, rows
        <4> QED BY <2>3, <2>5 DEF BytesSomewhere, SameOp
      <3>1. st.ops[i].file \in FileIds /\ st.ops[i] \notin copies
        <4>1. st.ops[i].file \in FileIds
          BY <2>8
        <4> HIDE DEF rows, copies
        <4> QED BY <4>1, <2>4
      <3>2. st.ops[i].copyOf # NoFile
        <4> HIDE DEF rows, copies
        <4> QED BY <3>1, <2>4 DEF StoreOK, BytesSomewhere
      <3> HIDE DEF q, copies, rows
      <3> QED BY <2>3, <3>1, <3>2
    <2> HIDE DEF q, rows, copies
    <2>11. Follows(st.ops, q)
      <3> DEFINE g == [i \in DOMAIN q |-> i]
      <3>1. g \in [DOMAIN q -> DOMAIN st.ops] /\ \A i \in DOMAIN q : g[i] = i
        BY <2>5
      <3> HIDE DEF g
      <3> QED BY <3>1, <2>3, <2>5 DEF Follows
    <2>12. /\ TagsApart(q) /\ DeletedUnbound(st.files, q) /\ CopiesFirst(q) /\ NamesMade(st.files, q, A, m)
           /\ \A kept, any : OpsFrom(st.ops, q, kept, any) /\ DeletesFrom(st.ops, q, any)
      BY <2>5, <2>11, StoreTyped, FollowsOK DEF StoreOK
    <2>13. OneRowPerFile(rows) /\ DeletedUnbound(rows, q) /\ NamesMade(rows, q, A, m)
      BY <2>4, <2>12 DEF StoreOK, OneRowPerFile, DeletedUnbound, NamesMade, Bound, BoundTo
    <2>14. RowsFrom(st.files, rows, {})
      BY <2>4 DEF RowsFrom, Bound, BoundTo
    <2>15. FineForUser(st, s2, {}, A, m)
      <3> HIDE DEF s2
      <3> QED BY <2>7, <2>9, <2>12, <2>13, <2>14 DEF FineForUser, Fine, StoreOK
    <2> HIDE DEF s2
    <2> QED BY <2>1, <2>4, <2>7, <2>15
  <1> QED BY <1>1, <1>2

\* What rows and ops name is a number of a file there.
LEMMA DropFileOK ==
  ASSUME NEW st \in Stores, NEW A \in SUBSET Ids, NEW m, \A r \in A : r <= m,
         StoreOK(st, A, m), NEW f \in FileIds, st.files[f] # NoRow
  PROVE  /\ FineForUser(st, DropFile(st, f), {}, A, m) /\ DropFile(st, f).dirs = st.dirs
         /\ DropFile(st, f).files[f] = NoRow
         /\ \A g \in FileIds \ {f} : DropFile(st, f).files[g] = NoRow <=> st.files[g] = NoRow
  <1> DEFINE h == HandOver(st, f)
             moves == MovesOf(h, f)
             at == IF moves = {} THEN h.files[f].at ELSE (CHOOSE o \in moves : TRUE).at
             gone == moves \cup UploadsOf(h, f)
             rest == Withdraw(h, gone)
             u == PutFile(h, f, NoRow)
             v == Withdraw(u, gone)
             D == DeleteOp(at, h.files[f].remote)
  <1>1. /\ FineForUser(st, h, {}, A, m) /\ h.dirs = st.dirs /\ h.files[f] # NoRow
        /\ \A g \in FileIds : st.files[g] # NoRow <=> h.files[g] # NoRow
    BY HandOverOK
  <1>2. h \in Stores /\ StoreOK(h, A, m)
    BY <1>1 DEF FineForUser, Fine
  <1>3. at \in Paths
    <2> HIDE DEF h
    <2>1. h.files[f].at \in Paths
      BY <1>1, <1>2, StoreTyped DEF Rows
    <2>2. moves # {} => (CHOOSE o \in moves : TRUE) \in moves
      OBVIOUS
    <2>3. moves # {} => (CHOOSE o \in moves : TRUE).at \in Paths
      <3> HIDE DEF moves
      <3> QED BY <2>2, <1>2, OpsOfTyped DEF moves
    <2> QED BY <2>1, <2>3
  <1> HIDE DEF h, at, gone, moves
  <1>4. /\ FineForUser(h, u, {}, A, m) /\ u.dirs = h.dirs /\ u.files[f] = NoRow
        /\ \A g \in FileIds \ {f} : u.files[g] = h.files[g]
    BY <1>2, PutRowOK
  <1>5. u \in Stores /\ StoreOK(u, A, m)
    BY <1>4 DEF FineForUser, Fine
  <1>6. FineForUser(u, v, {}, A, m) /\ v.files = u.files /\ v.dirs = u.dirs
    <2> HIDE DEF u
    <2> QED BY <1>5, WithdrawOK
  <1>7. v \in Stores /\ StoreOK(v, A, m)
    BY <1>6 DEF FineForUser, Fine
  <1>8. PutFile(rest, f, NoRow) = v
    BY <1>2 DEF PutFile, Withdraw, Stores
  <1>9. FineForUser(st, v, {}, A, m)
    <2> HIDE DEF u, v
    <2>1. FineForUser(st, u, {}, A, m)
      BY <1>1, <1>4, UserTrans
    <2> QED BY <2>1, <1>6, UserTrans
  <1>10. CASE h.files[f].remote = NoFile
    <2>1. QueueDeleteFile(h, f) = rest
      BY <1>10 DEF QueueDeleteFile, gone, moves
    <2>2. DropFile(st, f) = v
      BY <2>1, <1>8 DEF DropFile, h
    <2> HIDE DEF u, v
    <2> QED BY <2>2, <1>1, <1>4, <1>6, <1>9
  <1>11. CASE h.files[f].remote # NoFile
    <2>1. QueueDeleteFile(h, f) = Add(rest, D)
      BY <1>11 DEF QueueDeleteFile, gone, moves, at
    <2>2. PutFile(Add(rest, D), f, NoRow) = Add(PutFile(rest, f, NoRow), D)
      <3>1. rest \in Stores
        BY <1>2, WithdrawIs
      <3> HIDE DEF rest, D
      <3>2. Fresh(PutFile(rest, f, NoRow)) = Fresh(rest)
        BY <3>1 DEF Fresh, Queued, PutFile, Stores
      <3> QED BY <3>1, <3>2 DEF Add, PutFile, Stores
    <2>3. DropFile(st, f) = Add(v, D)
      BY <2>1, <2>2, <1>8 DEF DropFile, h
    <2>4. h.files[f] \in Rows /\ h.files[f].remote \in Ids
      BY <1>1, <1>2, <1>11, StoreTyped DEF Rows
    <2>5. D \in OwedOps /\ D.kind = "delete-file" /\ D.remote = h.files[f].remote
      BY <1>3, <2>4 DEF DeleteOp, Op, OwedOps, OpOK, QueuedOps, Kinds, Ids
    <2>6. D.remote \in A
      BY <1>1, <1>2, <1>11, <2>5 DEF StoreOK, NamesMade, Bound
    <2>7. \A g \in FileIds : ~BoundTo(v.files, g, D.remote)
      <3>1. \A g \in FileIds \ {f} : ~BoundTo(h.files, g, h.files[f].remote)
        BY <1>1, <1>2, <1>11 DEF StoreOK, OneRowPerFile, Bound
      <3> HIDE DEF v, u, D
      <3> QED BY <3>1, <1>4, <1>6, <2>5 DEF BoundTo
    <2>8. \E g \in FileIds : BoundTo(st.files, g, D.remote)
      <3>1. Bound(h.files[f])
        BY <1>1, <1>11 DEF Bound
      <3>2. BoundTo(st.files, f, h.files[f].remote)
        BY <1>1, <3>1 DEF FineForUser, RowsFrom
      <3> QED BY <3>2, <2>5
    <2> HIDE DEF v, D, u
    <2>9. /\ Fine(v, Add(v, D), st.files, A, m) /\ DeletesFrom(v.ops, Add(v, D).ops, st.files)
          /\ Add(v, D).files = v.files /\ Add(v, D).dirs = v.dirs
      BY <1>7, <2>5, <2>6, <2>7, <2>8, AddOK
    <2>10. Fine(st, Add(v, D), st.files, A, m)
      BY <1>9, <2>9, FineTrans DEF FineForUser
    <2>11. RowsFrom(st.files, Add(v, D).files, {})
      BY <1>9, <2>9 DEF FineForUser
    <2>12. DeletesFrom(st.ops, Add(v, D).ops, st.files)
      <3>1. DeletesFrom(st.ops, v.ops, st.files)
        BY <1>9 DEF FineForUser
      <3> QED BY <3>1, <2>9 DEF DeletesFrom, DeleteOf
    <2> QED BY <2>3, <2>9, <2>10, <2>11, <2>12, <1>1, <1>4, <1>6 DEF FineForUser
  <1> QED BY <1>10, <1>11

\* The rows are a sequence, one for each id.
LEMMA FilesLong ==
  ASSUME NEW st \in Stores
  PROVE  Len(st.files) = MaxFiles
  <1>1. st.files \in [1..MaxFiles -> Rows \cup {NoRow}] /\ MaxFiles \in Nat
    BY StoreTyped, FilePushAssumption DEF FileIds
  <1> HIDE DEF FileIds
  <1>2. st.files \in Seq(Rows \cup {NoRow})
    BY <1>1
  <1>3. DOMAIN st.files = 1..MaxFiles /\ DOMAIN st.files = 1..Len(st.files) /\ Len(st.files) \in Nat
    BY <1>1, <1>2
  <1> QED BY <1>1, <1>3

\* A writer that goes to one file's row after the other, in the order of the
\* ids: each row is there when it comes to it, and the store stays in G.
OthersStay(s, s2, f) == \A g \in FileIds \ {f} : s.files[g] # NoRow <=> s2.files[g] # NoRow
Through(st, G) ==
  [i \in 0..MaxFiles |->
     {s \in G : \A f \in FileIds : f > i => (st.files[f] # NoRow <=> s.files[f] # NoRow)}]

\* It does if each step keeps it there.
LEMMA ThroughKept ==
  ASSUME NEW G \in SUBSET Stores, NEW st \in G, NEW d, NEW fs,
         \A f \in fs : f \in FileIds => st.files[f] # NoRow,
         \A s \in G, f \in FileIds :
           /\ f \in fs /\ s.files[f] # NoRow => d[<<s, f>>] \in G /\ OthersStay(s, d[<<s, f>>], f)
           /\ f \notin fs => d[<<s, f>>] = s
  PROVE  Keeps(MaxFiles, Through(st, G), d, st)
  <1> DEFINE T == Through(st, G)
  <1>0. MaxFiles \in Nat \ {0} /\ FileIds = 1..MaxFiles
    BY FilePushAssumption DEF FileIds
  <1>1. \A i \in 0..MaxFiles : T[i] =
          {s \in G : \A f \in FileIds : f > i => (st.files[f] # NoRow <=> s.files[f] # NoRow)}
    BY DEF Through
  <1> HIDE DEF T
  <1>2. st \in T[0]
    BY <1>0, <1>1
  <1>3. ASSUME NEW i \in 1..MaxFiles, NEW s \in T[i - 1] PROVE d[<<s, i>>] \in T[i]
    <2>1. i \in FileIds /\ i \in 0..MaxFiles /\ i - 1 \in 0..MaxFiles
      BY <1>0
    <2>2. s \in G /\ \A f \in FileIds : f > i - 1 => (st.files[f] # NoRow <=> s.files[f] # NoRow)
      BY <1>1, <2>1
    <2>3. \A f \in FileIds : f > i => f > i - 1 /\ f # i
      BY <1>0
    <2>4. CASE i \in fs
      <3>1. s.files[i] # NoRow
        BY <2>1, <2>2, <2>4, <1>0
      <3>2. d[<<s, i>>] \in G /\ OthersStay(s, d[<<s, i>>], i)
        BY <2>1, <2>2, <2>4, <3>1
      <3> QED BY <1>1, <2>1, <2>2, <2>3, <3>2 DEF OthersStay
    <2>5. CASE i \notin fs
      BY <1>1, <2>1, <2>2, <2>3, <2>5
    <2> QED BY <2>4, <2>5
  <1> QED BY <1>2, <1>3 DEF Keeps, T

\* A folder's files dropped, one after the other.
LEMMA DropFilesAlong ==
  ASSUME NEW st \in Stores, NEW fs, NEW T, st \in T[0], \A i \in 0..MaxFiles : T[i] \subseteq Stores,
         \A i \in 1..MaxFiles : \A s \in T[i - 1] :
           /\ i \in fs => DropFile(s, i) \in T[i]
           /\ i \notin fs => s \in T[i]
  PROVE  DropFiles(st, fs) \in T[MaxFiles]
  <1> DEFINE N == MaxFiles
             d == [p \in Stores \X FileIds |-> IF p[2] \in fs THEN DropFile(p[1], p[2]) ELSE p[1]]
             upTo == CHOOSE u : u = [f \in 0..N |-> IF f = 0 THEN st
                       ELSE IF f \in fs THEN DropFile(u[f - 1], f) ELSE u[f - 1]]
  <1>0. N \in Nat \ {0} /\ FileIds = 1..N /\ Len(st.files) = N
    BY FilePushAssumption, FilesLong DEF FileIds
  <1>1. \A s \in Stores, f \in FileIds : d[<<s, f>>] = IF f \in fs THEN DropFile(s, f) ELSE s
    OBVIOUS
  <1> HIDE DEF d
  <1>2. Keeps(N, T, d, st)
    <2>1. ASSUME NEW i \in 1..N, NEW s \in T[i - 1] PROVE d[<<s, i>>] \in T[i]
      <3>1. i \in FileIds /\ s \in Stores
        <4>1. i - 1 \in 0..N
          BY <1>0
        <4> QED BY <1>0, <4>1
      <3>2. d[<<s, i>>] = IF i \in fs THEN DropFile(s, i) ELSE s
        BY <1>1, <3>1
      <3> QED BY <3>2
    <2> QED BY <2>1 DEF Keeps
  <1>3. \A i \in 0..N : T[i] \subseteq Stores
    OBVIOUS
  <1>4. PICK g : Along(g, N) /\ GoesBy(g, N, d, st) /\ StaysIn(g, N, T)
    BY <1>0, <1>2, Recursion
  <1>5. g = [f \in 0..N |-> IF f = 0 THEN st
                 ELSE IF f \in fs THEN DropFile(g[f - 1], f) ELSE g[f - 1]]
    <2>1. g[0] = st /\ g = [f \in 0..N |-> g[f]]
      BY <1>4 DEF Along, GoesBy
    <2>2. ASSUME NEW f \in 0..N
          PROVE g[f] = IF f = 0 THEN st ELSE IF f \in fs THEN DropFile(g[f - 1], f) ELSE g[f - 1]
      <3>1. CASE f = 0
        BY <3>1, <2>1
      <3>2. CASE f # 0
        <4>1. f \in 1..N /\ f - 1 \in 0..N
          BY <3>2, <1>0
        <4>2. g[f] = d[<<g[f - 1], f>>] /\ g[f - 1] \in Stores
          BY <4>1, <1>3, <1>4 DEF GoesBy, StaysIn
        <4> QED BY <4>1, <4>2, <1>0, <1>1, <3>2
      <3> QED BY <3>1, <3>2
    <2> QED BY <2>1, <2>2
  <1>6. upTo = [f \in 0..N |-> IF f = 0 THEN st
                 ELSE IF f \in fs THEN DropFile(upTo[f - 1], f) ELSE upTo[f - 1]]
    BY <1>5
  <1>7. DropFiles(st, fs) = upTo[N]
    BY <1>0 DEF DropFiles
  <1> HIDE DEF upTo
  <1>8. \A f \in 0..N : upTo[f] = IF f = 0 THEN st
                 ELSE IF f \in fs THEN DropFile(upTo[f - 1], f) ELSE upTo[f - 1]
    BY <1>6
  <1>9. ASSUME NEW i \in 1..N, upTo[i - 1] \in T[i - 1] PROVE upTo[i] = d[<<upTo[i - 1], i>>]
    <2>1. i \in 0..N /\ i # 0 /\ i - 1 \in 0..N /\ i \in FileIds
      BY <1>0
    <2>2. upTo[i - 1] \in Stores
      BY <2>1, <1>3, <1>9
    <2> QED BY <2>1, <2>2, <1>1, <1>8
  <1>10. StaysIn(upTo, N, T)
    <2>1. upTo[0] = st
      BY <1>0, <1>8
    <2> QED BY <1>0, <1>2, <1>9, <2>1, Stays
  <1>11. upTo[N] \in T[N] /\ N \in 0..N
    BY <1>0, <1>10 DEF StaysIn
  <1> QED BY <1>7, <1>11

LEMMA DropFilesIn ==
  ASSUME NEW G \in SUBSET Stores, NEW st \in G, NEW fs, \A f \in fs : f \in FileIds => st.files[f] # NoRow,
         \A s \in G, f \in FileIds :
           f \in fs /\ s.files[f] # NoRow => DropFile(s, f) \in G /\ OthersStay(s, DropFile(s, f), f)
  PROVE  DropFiles(st, fs) \in G
  <1> DEFINE T == Through(st, G)
             d == [p \in Stores \X FileIds |-> IF p[2] \in fs THEN DropFile(p[1], p[2]) ELSE p[1]]
  <1>0. MaxFiles \in Nat \ {0} /\ FileIds = 1..MaxFiles
    BY FilePushAssumption DEF FileIds
  <1>1. \A s \in G, f \in FileIds :
          /\ f \in fs => d[<<s, f>>] = DropFile(s, f)
          /\ f \notin fs => d[<<s, f>>] = s
    OBVIOUS
  <1>4. \A i \in 0..MaxFiles : T[i] \subseteq G
    BY DEF Through
  <1> HIDE DEF d, T
  <1>2. \A s \in G, f \in FileIds :
          /\ f \in fs /\ s.files[f] # NoRow => d[<<s, f>>] \in G /\ OthersStay(s, d[<<s, f>>], f)
          /\ f \notin fs => d[<<s, f>>] = s
    BY <1>1
  <1>3. Keeps(MaxFiles, T, d, st)
    BY <1>2, ThroughKept DEF T
  <1>5. ASSUME NEW i \in 1..MaxFiles, NEW s \in T[i - 1]
        PROVE  /\ i \in fs => DropFile(s, i) \in T[i]
               /\ i \notin fs => s \in T[i]
    <2>1. s \in G /\ i \in FileIds
      <3>1. i - 1 \in 0..MaxFiles
        BY <1>0
      <3> QED BY <1>0, <1>4, <3>1
    <2>2. d[<<s, i>>] \in T[i]
      BY <1>3 DEF Keeps
    <2> QED BY <1>1, <2>1, <2>2
  <1>6. DropFiles(st, fs) \in T[MaxFiles]
    <2>1. st \in T[0] /\ \A i \in 0..MaxFiles : T[i] \subseteq Stores
      BY <1>3, <1>4 DEF Keeps
    <2> QED BY <1>5, <2>1, DropFilesAlong
  <1>7. MaxFiles \in 0..MaxFiles
    BY <1>0
  <1> QED BY <1>4, <1>6, <1>7

\* A folder's files moved, one after the other.
LEMMA MoveFilesAlong ==
  ASSUME NEW st \in Stores, NEW fs, NEW e, NEW T, st \in T[0], \A i \in 0..MaxFiles : T[i] \subseteq Stores,
         \A i \in 1..MaxFiles : \A s \in T[i - 1] :
           /\ i \in fs => MoveFileTo(s, i, e) \in T[i]
           /\ i \notin fs => s \in T[i]
  PROVE  MoveFilesTo(st, fs, e) \in T[MaxFiles]
  <1> DEFINE N == MaxFiles
             d == [p \in Stores \X FileIds |-> IF p[2] \in fs THEN MoveFileTo(p[1], p[2], e) ELSE p[1]]
             upTo == CHOOSE u : u = [f \in 0..N |-> IF f = 0 THEN st
                       ELSE IF f \in fs THEN MoveFileTo(u[f - 1], f, e) ELSE u[f - 1]]
  <1>0. N \in Nat \ {0} /\ FileIds = 1..N /\ Len(st.files) = N
    BY FilePushAssumption, FilesLong DEF FileIds
  <1>1. \A s \in Stores, f \in FileIds : d[<<s, f>>] = IF f \in fs THEN MoveFileTo(s, f, e) ELSE s
    OBVIOUS
  <1> HIDE DEF d
  <1>2. Keeps(N, T, d, st)
    <2>1. ASSUME NEW i \in 1..N, NEW s \in T[i - 1] PROVE d[<<s, i>>] \in T[i]
      <3>1. i \in FileIds /\ s \in Stores
        <4>1. i - 1 \in 0..N
          BY <1>0
        <4> QED BY <1>0, <4>1
      <3>2. d[<<s, i>>] = IF i \in fs THEN MoveFileTo(s, i, e) ELSE s
        BY <1>1, <3>1
      <3> QED BY <3>2
    <2> QED BY <2>1 DEF Keeps
  <1>3. \A i \in 0..N : T[i] \subseteq Stores
    OBVIOUS
  <1>4. PICK g : Along(g, N) /\ GoesBy(g, N, d, st) /\ StaysIn(g, N, T)
    BY <1>0, <1>2, Recursion
  <1>5. g = [f \in 0..N |-> IF f = 0 THEN st
                 ELSE IF f \in fs THEN MoveFileTo(g[f - 1], f, e) ELSE g[f - 1]]
    <2>1. g[0] = st /\ g = [f \in 0..N |-> g[f]]
      BY <1>4 DEF Along, GoesBy
    <2>2. ASSUME NEW f \in 0..N
          PROVE g[f] = IF f = 0 THEN st ELSE IF f \in fs THEN MoveFileTo(g[f - 1], f, e) ELSE g[f - 1]
      <3>1. CASE f = 0
        BY <3>1, <2>1
      <3>2. CASE f # 0
        <4>1. f \in 1..N /\ f - 1 \in 0..N
          BY <3>2, <1>0
        <4>2. g[f] = d[<<g[f - 1], f>>] /\ g[f - 1] \in Stores
          BY <4>1, <1>3, <1>4 DEF GoesBy, StaysIn
        <4> QED BY <4>1, <4>2, <1>0, <1>1, <3>2
      <3> QED BY <3>1, <3>2
    <2> QED BY <2>1, <2>2
  <1>6. upTo = [f \in 0..N |-> IF f = 0 THEN st
                 ELSE IF f \in fs THEN MoveFileTo(upTo[f - 1], f, e) ELSE upTo[f - 1]]
    BY <1>5
  <1>7. MoveFilesTo(st, fs, e) = upTo[N]
    BY <1>0 DEF MoveFilesTo
  <1> HIDE DEF upTo
  <1>8. \A f \in 0..N : upTo[f] = IF f = 0 THEN st
                 ELSE IF f \in fs THEN MoveFileTo(upTo[f - 1], f, e) ELSE upTo[f - 1]
    BY <1>6
  <1>9. ASSUME NEW i \in 1..N, upTo[i - 1] \in T[i - 1] PROVE upTo[i] = d[<<upTo[i - 1], i>>]
    <2>1. i \in 0..N /\ i # 0 /\ i - 1 \in 0..N /\ i \in FileIds
      BY <1>0
    <2>2. upTo[i - 1] \in Stores
      BY <2>1, <1>3, <1>9
    <2> QED BY <2>1, <2>2, <1>1, <1>8
  <1>10. StaysIn(upTo, N, T)
    <2>1. upTo[0] = st
      BY <1>0, <1>8
    <2> QED BY <1>0, <1>2, <1>9, <2>1, Stays
  <1>11. upTo[N] \in T[N] /\ N \in 0..N
    BY <1>0, <1>10 DEF StaysIn
  <1> QED BY <1>7, <1>11

LEMMA MoveFilesIn ==
  ASSUME NEW G \in SUBSET Stores, NEW st \in G, NEW fs, \A f \in fs : f \in FileIds => st.files[f] # NoRow, NEW e,
         \A s \in G, f \in FileIds :
           f \in fs /\ s.files[f] # NoRow => MoveFileTo(s, f, e) \in G /\ OthersStay(s, MoveFileTo(s, f, e), f)
  PROVE  MoveFilesTo(st, fs, e) \in G
  <1> DEFINE T == Through(st, G)
             d == [p \in Stores \X FileIds |-> IF p[2] \in fs THEN MoveFileTo(p[1], p[2], e) ELSE p[1]]
  <1>0. MaxFiles \in Nat \ {0} /\ FileIds = 1..MaxFiles
    BY FilePushAssumption DEF FileIds
  <1>1. \A s \in G, f \in FileIds :
          /\ f \in fs => d[<<s, f>>] = MoveFileTo(s, f, e)
          /\ f \notin fs => d[<<s, f>>] = s
    OBVIOUS
  <1>4. \A i \in 0..MaxFiles : T[i] \subseteq G
    BY DEF Through
  <1> HIDE DEF d, T
  <1>2. \A s \in G, f \in FileIds :
          /\ f \in fs /\ s.files[f] # NoRow => d[<<s, f>>] \in G /\ OthersStay(s, d[<<s, f>>], f)
          /\ f \notin fs => d[<<s, f>>] = s
    BY <1>1
  <1>3. Keeps(MaxFiles, T, d, st)
    BY <1>2, ThroughKept DEF T
  <1>5. ASSUME NEW i \in 1..MaxFiles, NEW s \in T[i - 1]
        PROVE  /\ i \in fs => MoveFileTo(s, i, e) \in T[i]
               /\ i \notin fs => s \in T[i]
    <2>1. s \in G /\ i \in FileIds
      <3>1. i - 1 \in 0..MaxFiles
        BY <1>0
      <3> QED BY <1>0, <1>4, <3>1
    <2>2. d[<<s, i>>] \in T[i]
      BY <1>3 DEF Keeps
    <2> QED BY <1>1, <2>1, <2>2
  <1>6. MoveFilesTo(st, fs, e) \in T[MaxFiles]
    <2>1. st \in T[0] /\ \A i \in 0..MaxFiles : T[i] \subseteq Stores
      BY <1>3, <1>4 DEF Keeps
    <2> QED BY <1>5, <2>1, MoveFilesAlong
  <1>7. MaxFiles \in 0..MaxFiles
    BY <1>0
  <1> QED BY <1>4, <1>6, <1>7

\* What the user's writers have reached.
Reached(st, A, m) == {s \in Stores : FineForUser(st, s, {}, A, m) /\ s.dirs = st.dirs}

\* All the files dropped are fine.
LEMMA DropFilesOK ==
  ASSUME NEW st \in Stores, NEW A \in SUBSET Ids, NEW m, \A r \in A : r <= m,
         StoreOK(st, A, m), NEW fs, \A f \in fs : f \in FileIds => st.files[f] # NoRow
  PROVE  /\ FineForUser(st, DropFiles(st, fs), {}, A, m) /\ DropFiles(st, fs).dirs = st.dirs
  <1> DEFINE G == Reached(st, A, m)
  <1>1. G \in SUBSET Stores /\ st \in G
    BY FineItself DEF Reached
  <1>2. ASSUME NEW s \in G, NEW f \in FileIds, s.files[f] # NoRow
        PROVE  DropFile(s, f) \in G /\ OthersStay(s, DropFile(s, f), f)
    <2>1. s \in Stores /\ FineForUser(st, s, {}, A, m) /\ s.dirs = st.dirs /\ StoreOK(s, A, m)
      BY DEF Reached, FineForUser, Fine
    <2>2. /\ FineForUser(s, DropFile(s, f), {}, A, m) /\ DropFile(s, f).dirs = s.dirs
          /\ \A g \in FileIds \ {f} : DropFile(s, f).files[g] = NoRow <=> s.files[g] = NoRow
      BY <1>2, <2>1, DropFileOK
    <2>3. FineForUser(st, DropFile(s, f), {}, A, m)
      BY <2>1, <2>2, UserTrans
    <2>4. DropFile(s, f) \in Stores
      BY <2>2 DEF FineForUser, Fine
    <2> QED BY <2>1, <2>2, <2>3, <2>4 DEF Reached, OthersStay
  <1>3. DropFiles(st, fs) \in G
    <2> HIDE DEF G
    <2> QED BY <1>1, <1>2, DropFilesIn
  <1> QED BY <1>3 DEF Reached

\* moveFileTo, of a row that is there.
LEMMA MoveFileOK ==
  ASSUME NEW st \in Stores, NEW A, NEW m, StoreOK(st, A, m),
         NEW f \in FileIds, st.files[f] # NoRow, NEW d \in Folders
  PROVE  /\ FineForUser(st, MoveFileTo(st, f, d), {}, A, m) /\ MoveFileTo(st, f, d).dirs = st.dirs
         /\ \A g \in FileIds : MoveFileTo(st, f, d).files[g] # NoRow <=> st.files[g] # NoRow
  <1> DEFINE row == [st.files[f] EXCEPT !.at.dir = d]
             u == PutFile(st, f, row)
             from == st.files[f].at
  <1>1. st.files[f] \in Rows /\ from \in Paths
    BY StoreTyped DEF Rows
  <1>2. row \in Rows /\ row.remote = st.files[f].remote /\ row.held = st.files[f].held
    BY <1>1 DEF Rows, Paths
  <1>3. row # NoRow
    BY <1>2, NothingAssumption
  <1>4. MoveFileTo(st, f, d) = QueueMoveFile(u, f, from)
    BY DEF MoveFileTo
  <1> HIDE DEF row, from
  <1>5. /\ FineForUser(st, u, {}, A, m) /\ u.dirs = st.dirs /\ u.files[f] = row
        /\ \A g \in FileIds \ {f} : u.files[g] = st.files[g]
    BY <1>2, PutRowOK
  <1> HIDE DEF u
  <1>6. u \in Stores /\ StoreOK(u, A, m)
    BY <1>5 DEF FineForUser, Fine
  <1>7. /\ FineForUser(u, QueueMoveFile(u, f, from), {}, A, m)
        /\ QueueMoveFile(u, f, from).files = u.files /\ QueueMoveFile(u, f, from).dirs = u.dirs
    BY <1>1, <1>3, <1>5, <1>6, QueueMoveOK
  <1>8. FineForUser(st, QueueMoveFile(u, f, from), {}, A, m)
    BY <1>5, <1>7, UserTrans
  <1> QED BY <1>3, <1>4, <1>5, <1>7, <1>8

\* queueMkdir.
LEMMA QueueMkdirOK ==
  ASSUME NEW st \in Stores, NEW A, NEW m, StoreOK(st, A, m), NEW d \in Notebooks
  PROVE  /\ FineForUser(st, QueueMkdir(st, d), {}, A, m)
         /\ QueueMkdir(st, d).files = st.files /\ QueueMkdir(st, d).dirs = st.dirs
  <1> DEFINE kept == Withdraw(st, OpsAt(st, "rmdir", d))
             op == Op("mkdir", NoRow, Path(d, 0))
  <1>1. FineForUser(st, kept, {}, A, m) /\ kept.files = st.files /\ kept.dirs = st.dirs
    BY WithdrawOK
  <1>2. op \in OwedOps /\ op.kind = "mkdir"
    BY DEF Op, Path, OwedOps, OpOK, QueuedOps, Kinds, Paths, Notebooks
  <1>3. QueueMkdir(st, d) \in {kept, Add(kept, op)}
    BY DEF QueueMkdir
  <1> HIDE DEF kept, op
  <1>4. kept \in Stores /\ StoreOK(kept, A, m)
    BY <1>1 DEF FineForUser, Fine
  <1>5. /\ FineForUser(kept, Add(kept, op), {}, A, m)
        /\ Add(kept, op).files = kept.files /\ Add(kept, op).dirs = kept.dirs
    BY <1>2, <1>4, AddPlain
  <1> QED BY <1>1, <1>3, <1>5, UserTrans

\* queueRmdir.
LEMMA QueueRmdirOK ==
  ASSUME NEW st \in Stores, NEW A, NEW m, StoreOK(st, A, m),
         NEW d \in Notebooks, NEW id \in {NoDir} \cup Nat
  PROVE  /\ FineForUser(st, QueueRmdir(st, d, id), {}, A, m)
         /\ QueueRmdir(st, d, id).files = st.files /\ QueueRmdir(st, d, id).dirs = st.dirs
  <1> DEFINE op == [Op("rmdir", NoRow, Path(d, 0)) EXCEPT !.remote = id]
  <1>1. CASE QueueRmdir(st, d, id) = st
    BY <1>1, FineItself
  <1>2. CASE QueueRmdir(st, d, id) # st
    <2>1. QueueRmdir(st, d, id) = Add(st, op) /\ id \in Nat
      BY <1>2 DEF QueueRmdir
    <2>2. op \in OwedOps /\ op.kind = "rmdir"
      BY <2>1 DEF Op, Path, OwedOps, OpOK, QueuedOps, Kinds, Paths, Notebooks
    <2> HIDE DEF op
    <2> QED BY <2>1, <2>2, AddPlain
  <1> QED BY <1>1, <1>2

\* createFolder.
LEMMA CreateFolderOK ==
  ASSUME NEW st \in Stores, NEW A, NEW m, StoreOK(st, A, m), NEW d \in Notebooks
  PROVE  FineForUser(st, CreateFolder(st, d), {}, A, m)
  <1> DEFINE u == [st EXCEPT !.dirs[d] = NoDir]
             ds == [st.dirs EXCEPT ![d] = NoDir]
  <1>1. ds \in [Notebooks -> {NoRow, NoDir} \cup Nat] /\ u = [st EXCEPT !.dirs = ds]
    BY StoreTyped DEF Stores
  <1>2. FineForUser(st, u, {}, A, m)
    <2> HIDE DEF u, ds
    <2> QED BY <1>1, DirsOK
  <1>3. CreateFolder(st, d) = QueueMkdir(u, d)
    BY DEF CreateFolder
  <1> HIDE DEF u
  <1>4. FineForUser(u, QueueMkdir(u, d), {}, A, m)
    BY <1>2, QueueMkdirOK DEF FineForUser, Fine
  <1> QED BY <1>2, <1>3, <1>4, UserTrans

\* What deleteFolder and moveFolder end with.
LEMMA LetGoOK ==
  ASSUME NEW st, NEW s \in Stores, NEW A, NEW m, FineForUser(st, s, {}, A, m),
         NEW d \in Notebooks, NEW id \in {NoDir} \cup Nat
  PROVE  FineForUser(st, QueueRmdir(WithdrawMkdirs(s, d), d, id), {}, A, m)
  <1> DEFINE w == WithdrawMkdirs(s, d)
  <1>1. FineForUser(s, w, {}, A, m)
    BY WithdrawOK DEF WithdrawMkdirs, FineForUser, Fine
  <1> HIDE DEF w
  <1>2. FineForUser(w, QueueRmdir(w, d, id), {}, A, m)
    BY <1>1, QueueRmdirOK DEF FineForUser, Fine
  <1> QED BY <1>1, <1>2, UserTrans DEF w

\* deleteFolder.
LEMMA DeleteFolderOK ==
  ASSUME NEW st \in Stores, NEW A \in SUBSET Ids, NEW m, \A r \in A : r <= m,
         StoreOK(st, A, m), NEW d \in Notebooks, st.dirs[d] # NoRow
  PROVE  FineForUser(st, DeleteFolder(st, d), {}, A, m)
  <1> DEFINE u == [st EXCEPT !.dirs[d] = NoRow]
             ds == [st.dirs EXCEPT ![d] = NoRow]
             fs == FilesIn(st, d)
             v == DropFiles(u, fs)
  <1>1. ds \in [Notebooks -> {NoRow, NoDir} \cup Nat] /\ u = [st EXCEPT !.dirs = ds]
    BY StoreTyped DEF Stores
  <1>2. FineForUser(st, u, {}, A, m) /\ u.files = st.files
    <2> HIDE DEF u, ds
    <2> QED BY <1>1, DirsOK
  <1>3. DeleteFolder(st, d) = QueueRmdir(WithdrawMkdirs(v, d), d, st.dirs[d])
    BY DEF DeleteFolder
  <1>4. st.dirs[d] \in {NoDir} \cup Nat
    BY StoreTyped
  <1> HIDE DEF u, fs
  <1>5. \A f \in fs : u.files[f] # NoRow
    BY <1>2 DEF fs, FilesIn
  <1>6. FineForUser(u, v, {}, A, m)
    BY <1>2, <1>5, DropFilesOK DEF FineForUser, Fine
  <1> HIDE DEF v
  <1>7. FineForUser(st, v, {}, A, m)
    BY <1>2, <1>6, UserTrans
  <1>8. v \in Stores
    BY <1>7 DEF FineForUser, Fine
  <1> QED BY <1>3, <1>4, <1>7, <1>8, LetGoOK

\* moveFolder.
LEMMA RenameFolderOK ==
  ASSUME NEW st \in Stores, NEW A, NEW m, StoreOK(st, A, m),
         NEW d \in Notebooks, NEW e \in Notebooks, st.dirs[d] # NoRow
  PROVE  FineForUser(st, RenameFolder(st, d, e), {}, A, m)
  <1> DEFINE ds == [st.dirs EXCEPT ![d] = NoRow, ![e] = NoDir]
             w == [st EXCEPT !.dirs[d] = NoRow, !.dirs[e] = NoDir]
             made == QueueMkdir(w, e)
             fs == FilesIn(st, d)
             v == MoveFilesTo(made, fs, e)
             G == Reached(made, A, m)
  <1>a. ds \in [Notebooks -> {NoRow, NoDir} \cup Nat] /\ w = [st EXCEPT !.dirs = ds]
    BY StoreTyped DEF Stores
  <1>b. FineForUser(st, w, {}, A, m) /\ w.files = st.files
    <2> HIDE DEF w, ds
    <2> QED BY <1>a, DirsOK
  <1>1. RenameFolder(st, d, e) = QueueRmdir(WithdrawMkdirs(v, d), d, st.dirs[d])
    BY DEF RenameFolder
  <1> HIDE DEF w, ds
  <1>c. FineForUser(w, made, {}, A, m) /\ made.files = w.files
    BY <1>b, QueueMkdirOK DEF FineForUser, Fine
  <1> HIDE DEF made
  <1>d. FineForUser(st, made, {}, A, m) /\ made \in Stores /\ StoreOK(made, A, m)
    <2>1. FineForUser(st, made, {}, A, m)
      BY <1>b, <1>c, UserTrans
    <2> QED BY <2>1 DEF FineForUser, Fine
  <1>e. \A f \in fs : f \in FileIds => made.files[f] # NoRow
    BY <1>b, <1>c DEF FilesIn
  <1>f. e \in Folders
    BY DEF Notebooks
  <1>2. G \in SUBSET Stores /\ made \in G
    BY <1>d, FineItself DEF Reached
  <1>3. ASSUME NEW s \in G, NEW f \in FileIds, s.files[f] # NoRow
        PROVE  MoveFileTo(s, f, e) \in G /\ OthersStay(s, MoveFileTo(s, f, e), f)
    <2>1. s \in Stores /\ FineForUser(made, s, {}, A, m) /\ s.dirs = made.dirs /\ StoreOK(s, A, m)
      BY DEF Reached, FineForUser, Fine
    <2>2. /\ FineForUser(s, MoveFileTo(s, f, e), {}, A, m) /\ MoveFileTo(s, f, e).dirs = s.dirs
          /\ \A g \in FileIds : MoveFileTo(s, f, e).files[g] # NoRow <=> s.files[g] # NoRow
      BY <1>f, <1>3, <2>1, MoveFileOK
    <2>3. FineForUser(made, MoveFileTo(s, f, e), {}, A, m)
      BY <2>1, <2>2, UserTrans
    <2>4. MoveFileTo(s, f, e) \in Stores
      BY <2>2 DEF FineForUser, Fine
    <2> QED BY <2>1, <2>2, <2>3, <2>4 DEF Reached, OthersStay
  <1>4. v \in G
    <2> HIDE DEF G, fs
    <2> QED BY <1>2, <1>3, <1>e, MoveFilesIn
  <1> HIDE DEF v
  <1>5. FineForUser(made, v, {}, A, m) /\ v \in Stores
    BY <1>4 DEF Reached
  <1>6. FineForUser(st, v, {}, A, m)
    BY <1>d, <1>5, UserTrans
  <1>7. st.dirs[d] \in {NoDir} \cup Nat
    BY StoreTyped
  <1> QED BY <1>1, <1>5, <1>6, <1>7, LetGoOK

\* A row that is new, and the upload queued for it.
LEMMA BirthOK ==
  ASSUME NEW st \in Stores, NEW A, NEW m, StoreOK(st, A, m),
         NEW g \in FileIds, st.files[g] = NoRow, \A o \in Queued(st) : o.file # g,
         NEW at \in Paths, NEW held \in BOOLEAN, NEW copyOf \in Ids \cup {NoFile},
         held \/ copyOf # NoFile,
         copyOf # NoFile => copyOf \in A /\ \E f \in FileIds : BoundTo(st.files, f, copyOf)
  PROVE  FineForUser(st, QueueUpload(PutFile(st, g, PendingRow(at, held)), g, copyOf), {g}, A, m)
  <1> DEFINE row == PendingRow(at, held)
             u == PutFile(st, g, row)
             op == [Op("upload", g, at) EXCEPT !.copyOf = copyOf]
  <1>1. row \in Rows /\ row.remote = NoFile /\ row.held = held /\ row.at = at /\ row # NoRow
    <2>1. row \in Rows /\ row.remote = NoFile /\ row.held = held /\ row.at = at
      BY DEF PendingRow, Rows
    <2> QED BY <2>1, NothingAssumption
  <1> HIDE DEF row
  <1>2. /\ u \in Stores /\ u.ops = st.ops /\ u.kept = st.kept /\ u.dirs = st.dirs
        /\ u.files = [st.files EXCEPT ![g] = row]
    BY <1>1 DEF Stores, PutFile
  <1>3. u.files[g] = row /\ \A f \in FileIds \ {g} : u.files[f] = st.files[f]
    BY <1>2, StoreTyped
  <1> HIDE DEF u
  <1>4. \A i \in DOMAIN st.ops : st.ops[i].file # g
    BY DEF Queued
  <1>5. OneRowPerFile(u.files)
    BY <1>1, <1>3 DEF StoreOK, OneRowPerFile, Bound, BoundTo
  <1>6. BytesSomewhere(u.files, u.ops)
    <2>1. \A i \in DOMAIN st.ops : st.ops[i].kind = "upload" => st.ops[i].file \in FileIds
      BY StoreTyped DEF OwedOps, OpOK
    <2> QED BY <1>2, <1>3, <1>4, <2>1 DEF StoreOK, BytesSomewhere
  <1>7. DeletedUnbound(u.files, u.ops)
    <2> SUFFICES ASSUME NEW i \in DOMAIN st.ops, st.ops[i].kind = "delete-file", NEW f \in FileIds
                 PROVE  ~BoundTo(u.files, f, st.ops[i].remote)
      BY <1>2 DEF DeletedUnbound
    <2>0. st.ops[i] \in OwedOps
      BY StoreTyped
    <2>1. st.ops[i].remote # NoFile
      <3>1. st.ops[i].remote \in Ids
        BY <2>0 DEF OwedOps, OpOK
      <3> QED BY <3>1, NothingAssumption, FilePushAssumption DEF Ids
    <2> QED BY <1>1, <1>3, <2>1 DEF StoreOK, DeletedUnbound, BoundTo
  <1>8. NamesMade(u.files, u.ops, A, m)
    BY <1>1, <1>2, <1>3 DEF StoreOK, NamesMade, Bound
  <1>9. StoreOK(u, A, m)
    BY <1>2, <1>5, <1>6, <1>7, <1>8 DEF StoreOK
  <1>10. RowsFrom(st.files, u.files, {g})
    BY <1>1, <1>3 DEF RowsFrom, Bound, BoundTo
  <1>11. FineForUser(st, u, {g}, A, m)
    <2>1. FineForUser(st, st, {}, A, m)
      BY FineItself
    <2> QED BY <1>2, <1>9, <1>10, <2>1 DEF Fine, FineForUser
  <1>12. op \in OwedOps /\ op.kind = "upload" /\ op.file = g /\ op.copyOf = copyOf
    BY DEF Op, OwedOps, OpOK, QueuedOps, Kinds
  <1>13. QueueUpload(u, g, copyOf) = Add(u, op)
    <2>1. UploadsOf(u, g) = {}
      BY <1>2 DEF UploadsOf, OpsForFile, Queued
    <2> QED BY <1>1, <1>3, <2>1 DEF QueueUpload
  <1> HIDE DEF op
  <1>14. copyOf # NoFile => \E f \in FileIds : BoundTo(u.files, f, copyOf)
    <2> SUFFICES ASSUME copyOf # NoFile PROVE \E f \in FileIds : BoundTo(u.files, f, copyOf)
      OBVIOUS
    <2>1. PICK f \in FileIds : BoundTo(st.files, f, copyOf)
      OBVIOUS
    <2>2. f # g
      BY <2>1 DEF BoundTo
    <2> QED BY <2>1, <2>2, <1>3 DEF BoundTo
  <1>15. /\ Fine(u, Add(u, op), st.files, A, m) /\ Add(u, op).files = u.files
         /\ DeletesFrom(u.ops, Add(u, op).ops, st.files)
    <2>1. u.files[op.file].held \/ op.copyOf # NoFile
      BY <1>1, <1>3, <1>12
    <2>2. op.copyOf # NoFile =>
            /\ op.copyOf \in A /\ \E f \in FileIds : BoundTo(st.files, f, op.copyOf)
            /\ \E f \in FileIds : BoundTo(u.files, f, op.copyOf)
      BY <1>12, <1>14
    <2>3. op.kind = "upload"
      BY <1>12
    <2> QED BY <1>2, <1>9, <1>12, <2>1, <2>2, <2>3, AddOK
  <1>16. Fine(st, Add(u, op), st.files, A, m)
    BY <1>11, <1>15, FineTrans DEF FineForUser
  <1> QED BY <1>2, <1>10, <1>13, <1>15, <1>16 DEF FineForUser, u, row

\* addAttachment.
LEMMA AddFileOK ==
  ASSUME NEW st \in Stores, NEW A, NEW m, StoreOK(st, A, m),
         NEW g \in FileIds, st.files[g] = NoRow, \A o \in Queued(st) : o.file # g, NEW d \in Folders
  PROVE  FineForUser(st, AddFile(st, g, d), {g}, A, m)
  <1>1. Path(d, 0) \in Paths
    BY DEF Path, Paths
  <1> QED BY <1>1, BirthOK DEF AddFile

\* copyFileTo.
LEMMA CopyFileOK ==
  ASSUME NEW st \in Stores, NEW A, NEW m, StoreOK(st, A, m),
         NEW g \in FileIds, st.files[g] = NoRow, \A o \in Queued(st) : o.file # g, NEW d \in Folders,
         NEW f \in FileIds, st.files[f] # NoRow, st.files[f].held \/ st.files[f].remote # NoFile
  PROVE  FineForUser(st, CopyFileTo(st, f, g, d), {g}, A, m)
  <1> DEFINE row == st.files[f]
             copyOf == IF row.held THEN NoFile ELSE row.remote
             at == Path(d, row.at.k)
  <1>1. row \in Rows
    BY StoreTyped
  <1>2. at \in Paths
    BY <1>1 DEF Path, Paths, Rows
  <1>3. copyOf \in Ids \cup {NoFile} /\ (row.held \/ copyOf # NoFile) /\ row.held \in BOOLEAN
    BY <1>1 DEF Rows
  <1>4. copyOf # NoFile => copyOf \in A /\ BoundTo(st.files, f, copyOf)
    BY DEF StoreOK, NamesMade, Bound, BoundTo
  <1>5. CopyFileTo(st, f, g, d) = QueueUpload(PutFile(st, g, PendingRow(at, row.held)), g, copyOf)
    BY DEF CopyFileTo
  <1> HIDE DEF copyOf, at, row
  <1> QED BY <1>2, <1>3, <1>4, <1>5, BirthOK

-----------------------------------------------------------------------------
(* What is settled.                                                          *)

\* Ops rewritten in place in nothing the rows or the other ops go by.
LEMMA TouchedUpOK ==
  ASSUME NEW st \in Stores, NEW A, NEW m, StoreOK(st, A, m), NEW rows, NEW q,
         q = [i \in DOMAIN st.ops |-> q[i]],
         \A i \in DOMAIN st.ops : /\ q[i] \in OwedOps /\ SameOp(st.ops[i], q[i])
                                  /\ q[i].copyOf = st.ops[i].copyOf
  PROVE  /\ Fine(st, [st EXCEPT !.ops = q], rows, A, m)
         /\ [st EXCEPT !.ops = q].files = st.files /\ [st EXCEPT !.ops = q].dirs = st.dirs
         /\ [st EXCEPT !.ops = q].ops = q
  <1>1. Len(st.ops) \in Nat /\ DOMAIN st.ops = 1..Len(st.ops)
    BY StoreTyped
  <1>2. q \in [1..Len(st.ops) -> OwedOps]
    BY <1>1
  <1>3. q \in Seq(OwedOps) /\ DOMAIN q = DOMAIN st.ops
    BY <1>1, <1>2
  <1>4. BytesSomewhere(st.files, q)
    BY <1>3 DEF StoreOK, BytesSomewhere, SameOp
  <1>5. Fine(st, [st EXCEPT !.ops = q], rows, A, m)
    BY <1>3, <1>4, RewriteOK
  <1> QED BY <1>5 DEF Stores

\* failOp.
LEMMA FailOpOK ==
  ASSUME NEW st \in Stores, NEW A, NEW m, StoreOK(st, A, m), NEW rows, NEW tag
  PROVE  Fine(st, FailOp(st, tag), rows, A, m) /\ FailOp(st, tag).files = st.files
  <1> DEFINE q == [i \in DOMAIN st.ops |->
                     IF st.ops[i].tag = tag THEN [st.ops[i] EXCEPT !.attempts = @ + 1] ELSE st.ops[i]]
  <1>1. FailOp(st, tag) = [st EXCEPT !.ops = q]
    BY DEF FailOp, Rewrite
  <1>2. ASSUME NEW i \in DOMAIN st.ops
        PROVE /\ q[i] \in OwedOps /\ SameOp(st.ops[i], q[i]) /\ q[i].copyOf = st.ops[i].copyOf
    <2>1. st.ops[i] \in OwedOps
      BY StoreTyped
    <2>2. q[i] = IF st.ops[i].tag = tag THEN [st.ops[i] EXCEPT !.attempts = @ + 1] ELSE st.ops[i]
      OBVIOUS
    <2> HIDE DEF q
    <2> QED BY <2>1, <2>2 DEF OwedOps, OpOK, QueuedOps, SameOp
  <1>3. q = [i \in DOMAIN st.ops |-> q[i]]
    OBVIOUS
  <1> HIDE DEF q
  <1>4. Fine(st, [st EXCEPT !.ops = q], rows, A, m) /\ [st EXCEPT !.ops = q].files = st.files
    BY <1>2, <1>3, TouchedUpOK
  <1> QED BY <1>1, <1>4

\* resetAttempts.
LEMMA ResetOK ==
  ASSUME NEW st \in Stores, NEW A, NEW m, StoreOK(st, A, m), NEW rows
  PROVE  Fine(st, ResetAttempts(st), rows, A, m) /\ ResetAttempts(st).files = st.files
  <1> DEFINE q == [i \in DOMAIN st.ops |-> [st.ops[i] EXCEPT !.attempts = 0]]
  <1>1. ResetAttempts(st) = [st EXCEPT !.ops = q]
    BY DEF ResetAttempts, Rewrite
  <1>2. ASSUME NEW i \in DOMAIN st.ops
        PROVE /\ q[i] \in OwedOps /\ SameOp(st.ops[i], q[i]) /\ q[i].copyOf = st.ops[i].copyOf
    <2>1. st.ops[i] \in OwedOps
      BY StoreTyped
    <2>2. q[i] = [st.ops[i] EXCEPT !.attempts = 0]
      OBVIOUS
    <2> HIDE DEF q
    <2> QED BY <2>1, <2>2 DEF OwedOps, OpOK, QueuedOps, SameOp
  <1>3. q = [i \in DOMAIN st.ops |-> q[i]]
    OBVIOUS
  <1> HIDE DEF q
  <1>4. Fine(st, [st EXCEPT !.ops = q], rows, A, m) /\ [st EXCEPT !.ops = q].files = st.files
    BY <1>2, <1>3, TouchedUpOK
  <1> QED BY <1>1, <1>4

\* fileOriginIsNow.
LEMMA OriginOK ==
  ASSUME NEW st \in Stores, NEW A, NEW m, StoreOK(st, A, m), NEW rows, NEW f, NEW at \in Paths
  PROVE  Fine(st, FileOriginIsNow(st, f, at), rows, A, m) /\ FileOriginIsNow(st, f, at).files = st.files
  <1> DEFINE q == [i \in DOMAIN st.ops |->
                     IF st.ops[i].kind = "move-file" /\ st.ops[i].file = f
                     THEN [st.ops[i] EXCEPT !.at = at] ELSE st.ops[i]]
  <1>1. FileOriginIsNow(st, f, at) = [st EXCEPT !.ops = q]
    BY DEF FileOriginIsNow, Rewrite
  <1>2. ASSUME NEW i \in DOMAIN st.ops
        PROVE /\ q[i] \in OwedOps /\ SameOp(st.ops[i], q[i]) /\ q[i].copyOf = st.ops[i].copyOf
    <2>1. st.ops[i] \in OwedOps
      BY StoreTyped
    <2>2. q[i] = IF st.ops[i].kind = "move-file" /\ st.ops[i].file = f
                 THEN [st.ops[i] EXCEPT !.at = at] ELSE st.ops[i]
      OBVIOUS
    <2> HIDE DEF q
    <2> QED BY <2>1, <2>2 DEF OwedOps, OpOK, QueuedOps, SameOp
  <1>3. q = [i \in DOMAIN st.ops |-> q[i]]
    OBVIOUS
  <1> HIDE DEF q
  <1>4. Fine(st, [st EXCEPT !.ops = q], rows, A, m) /\ [st EXCEPT !.ops = q].files = st.files
    BY <1>2, <1>3, TouchedUpOK
  <1> QED BY <1>1, <1>4

\* forgetFile.
LEMMA ForgetFileOK ==
  ASSUME NEW st \in Stores, NEW A, NEW m, StoreOK(st, A, m), NEW rows, NEW f \in FileIds
  PROVE  Fine(st, ForgetFile(st, f), rows, A, m)
  <1> DEFINE w == Withdraw(st, UploadsOf(st, f) \cup MovesOf(st, f))
  <1>1. Fine(st, w, rows, A, m)
    BY WithdrawOK
  <1> HIDE DEF w
  <1>2. Fine(w, PutFile(w, f, NoRow), rows, A, m)
    <2>1. w \in Stores /\ StoreOK(w, A, m)
      BY <1>1 DEF Fine
    <2> QED BY <2>1, PutRowOK
  <1> QED BY <1>1, <1>2, FineTrans DEF ForgetFile, w

\* settle, of a folder that was made.
LEMMA MadeFolderOK ==
  ASSUME NEW st \in Stores, NEW A, NEW m, StoreOK(st, A, m), NEW rows,
         NEW d \in Notebooks, NEW id \in Nat
  PROVE  Fine(st, MadeFolder(st, d, id), rows, A, m)
  <1> DEFINE ds == [st.dirs EXCEPT ![d] = id]
  <1>1. ds \in [Notebooks -> {NoRow, NoDir} \cup Nat] /\ [st EXCEPT !.dirs[d] = id] = [st EXCEPT !.dirs = ds]
    BY StoreTyped DEF Stores
  <1>2. MadeFolder(st, d, id) \in {st, [st EXCEPT !.dirs[d] = id]}
    BY DEF MadeFolder
  <1> HIDE DEF ds
  <1> QED BY <1>1, <1>2, DirsOK, FineItself

\* A row that comes to name a file nobody else's does, and nobody is to delete.
LEMMA BindOK ==
  ASSUME NEW st \in Stores, NEW A \in SUBSET Ids, NEW m, StoreOK(st, A, m), NEW rows,
         NEW f \in FileIds, NEW row \in Rows, row.remote \in A,
         \A g \in FileIds \ {f} : ~BoundTo(st.files, g, row.remote),
         \A i \in DOMAIN st.ops : ~DeleteOf(st.ops[i], row.remote)
  PROVE  /\ Fine(st, PutFile(st, f, row), rows, A, m)
         /\ PutFile(st, f, row).ops = st.ops
  <1> DEFINE s2 == PutFile(st, f, row)
  <1>1. /\ s2 \in Stores /\ s2.ops = st.ops /\ s2.kept = st.kept
        /\ s2.files = [st.files EXCEPT ![f] = row]
    BY DEF Stores, PutFile
  <1>2. s2.files[f] = row /\ \A g \in FileIds \ {f} : s2.files[g] = st.files[g]
    BY <1>1, StoreTyped
  <1> HIDE DEF s2
  <1>3. row.remote # NoFile
    <2>1. row.remote \in Ids /\ MaxRemote \in Nat
      BY FilePushAssumption
    <2> QED BY <2>1, NothingAssumption DEF Ids
  <1>4. OneRowPerFile(s2.files)
    <2> SUFFICES ASSUME NEW g \in FileIds, NEW h \in FileIds, Bound(s2.files[g]),
                        BoundTo(s2.files, h, s2.files[g].remote)
                 PROVE  g = h
      BY DEF OneRowPerFile
    <2>1. CASE g = f
      BY <2>1, <1>2 DEF BoundTo
    <2>2. CASE h = f
      BY <2>2, <1>2 DEF BoundTo, Bound
    <2>3. CASE g # f /\ h # f
      BY <2>3, <1>2 DEF StoreOK, OneRowPerFile, BoundTo, Bound
    <2> QED BY <2>1, <2>2, <2>3
  <1>5. BytesSomewhere(s2.files, s2.ops)
    <2>1. \A i \in DOMAIN st.ops : st.ops[i].kind = "upload" => st.ops[i].file \in FileIds
      BY StoreTyped DEF OwedOps, OpOK
    <2> QED BY <1>1, <1>2, <1>3, <2>1 DEF StoreOK, BytesSomewhere
  <1>6. DeletedUnbound(s2.files, s2.ops)
    BY <1>1, <1>2 DEF StoreOK, DeletedUnbound, BoundTo, DeleteOf
  <1>7. NamesMade(s2.files, s2.ops, A, m)
    BY <1>1, <1>2 DEF StoreOK, NamesMade, Bound
  <1>8. Fine(st, st, rows, A, m)
    BY FineItself
  <1>9. Fine(st, s2, rows, A, m)
    BY <1>1, <1>4, <1>5, <1>6, <1>7, <1>8 DEF Fine, StoreOK
  <1> QED BY <1>1, <1>9 DEF s2

\* rmdirsBehind: the rmdirs go, and come back one after the other.
RmdirsAt(st, d) == Those(st.ops, {i \in DOMAIN st.ops : st.ops[i] \in OpsAt(st, "rmdir", d)})

LEMMA RmdirsAtAre ==
  ASSUME NEW st \in Stores, NEW e
  PROVE  /\ RmdirsAt(st, e) \in Seq(OwedOps) /\ Len(RmdirsAt(st, e)) \in Nat
         /\ \A i \in 1..Len(RmdirsAt(st, e)) : RmdirsAt(st, e)[i] \in OpsAt(st, "rmdir", e) \cap OwedOps
         /\ \A o \in OpsAt(st, "rmdir", e) : \E i \in 1..Len(RmdirsAt(st, e)) : RmdirsAt(st, e)[i] = o
  <1> DEFINE over == OpsAt(st, "rmdir", e)
             I == {i \in DOMAIN st.ops : st.ops[i] \in over}
             these == RmdirsAt(st, e)
  <1>1. these \in Seq(OwedOps) /\ \E g : Picks(st.ops, I \cap DOMAIN st.ops, these, g)
    BY StoreTyped, ThosePicked DEF RmdirsAt
  <1>2. I \cap DOMAIN st.ops = I
    OBVIOUS
  <1>3. \A i \in I : st.ops[i] \in over
    OBVIOUS
  <1>4. \A o \in over : \E i \in I : st.ops[i] = o
    BY DEF OpsAt, Queued
  <1> HIDE DEF I, these, over
  <1>5. PICK g : Picks(st.ops, I, these, g)
    BY <1>1, <1>2
  <1>6. DOMAIN these = 1..Len(these) /\ Len(these) \in Nat
    BY <1>1
  <1>7. \A k \in DOMAIN these : these[k] \in OwedOps
    BY <1>1
  <1>8. \A k \in DOMAIN these : g[k] \in I /\ these[k] = st.ops[g[k]]
    BY <1>5 DEF Picks
  <1>9. \A i \in I : \E k \in DOMAIN these : these[k] = st.ops[i]
    BY <1>5 DEF Picks
  <1> QED BY <1>1, <1>3, <1>4, <1>6, <1>7, <1>8, <1>9 DEF these, over

LEMMA RmdirsBehindAlong ==
  ASSUME NEW st \in Stores, NEW at, NEW T,
         Withdraw(st, OpsAt(st, "rmdir", at.dir)) \in T[0],
         \A i \in 0..Len(RmdirsAt(st, at.dir)) : T[i] \subseteq Stores,
         \A i \in 1..Len(RmdirsAt(st, at.dir)) : \A s \in T[i - 1] :
           Add(s, RmdirsAt(st, at.dir)[i]) \in T[i]
  PROVE  RmdirsBehind(st, at) \in T[Len(RmdirsAt(st, at.dir))]
  <1> DEFINE these == RmdirsAt(st, at.dir)
             w == Withdraw(st, OpsAt(st, "rmdir", at.dir))
             N == Len(these)
             d == [p \in Stores \X (1..N) |-> Add(p[1], these[p[2]])]
             upTo == CHOOSE u : u = [i \in 0..N |-> IF i = 0 THEN w ELSE Add(u[i - 1], these[i])]
  <1>1. w \in T[0]
    OBVIOUS
  <1>2. \A i \in 0..N : T[i] \subseteq Stores
    OBVIOUS
  <1>3. N \in Nat
    BY RmdirsAtAre
  <1>4. RmdirsBehind(st, at) = upTo[N]
    BY DEF RmdirsBehind, RmdirsAt
  <1>5. \A i \in 1..N : \A s \in T[i - 1] : Add(s, these[i]) \in T[i]
    OBVIOUS
  <1> HIDE DEF these, w
  <1>6. \A s \in Stores, i \in 1..N : d[<<s, i>>] = Add(s, these[i])
    OBVIOUS
  <1> HIDE DEF N, d
  <1>8. Keeps(N, T, d, w)
    <2>1. ASSUME NEW i \in 1..N, NEW s \in T[i - 1] PROVE d[<<s, i>>] \in T[i]
      <3>1. s \in Stores
        <4>1. i - 1 \in 0..N
          BY <1>3
        <4> QED BY <1>2, <4>1
      <3> QED BY <3>1, <1>5, <1>6
    <2> QED BY <1>1, <2>1 DEF Keeps
  <1>9. PICK g : Along(g, N) /\ GoesBy(g, N, d, w) /\ StaysIn(g, N, T)
    BY <1>3, <1>8, Recursion
  <1>10. g = [i \in 0..N |-> IF i = 0 THEN w ELSE Add(g[i - 1], these[i])]
    <2>1. g[0] = w /\ g = [i \in 0..N |-> g[i]]
      BY <1>9 DEF Along, GoesBy
    <2>2. ASSUME NEW i \in 0..N
          PROVE g[i] = IF i = 0 THEN w ELSE Add(g[i - 1], these[i])
      <3>1. CASE i = 0
        BY <3>1, <2>1
      <3>2. CASE i # 0
        <4>1. i \in 1..N /\ i - 1 \in 0..N
          BY <3>2, <1>3
        <4>2. g[i] = d[<<g[i - 1], i>>] /\ g[i - 1] \in Stores
          BY <4>1, <1>2, <1>9 DEF GoesBy, StaysIn
        <4> QED BY <4>1, <4>2, <1>6, <3>2
      <3> QED BY <3>1, <3>2
    <2> QED BY <2>1, <2>2
  <1>11. upTo = [i \in 0..N |-> IF i = 0 THEN w ELSE Add(upTo[i - 1], these[i])]
    BY <1>10
  <1> HIDE DEF upTo
  <1>12. \A i \in 0..N : upTo[i] = IF i = 0 THEN w ELSE Add(upTo[i - 1], these[i])
    BY <1>11
  <1>13. ASSUME NEW i \in 1..N, upTo[i - 1] \in T[i - 1] PROVE upTo[i] = d[<<upTo[i - 1], i>>]
    <2>1. i \in 0..N /\ i # 0 /\ i - 1 \in 0..N
      BY <1>3
    <2>2. upTo[i - 1] \in Stores
      BY <2>1, <1>2, <1>13
    <2> QED BY <2>1, <2>2, <1>6, <1>12
  <1>14. StaysIn(upTo, N, T)
    <2>1. upTo[0] = w
      BY <1>3, <1>12
    <2> QED BY <1>3, <1>8, <1>13, <2>1, Stays
  <1>15. upTo[N] \in T[N] /\ N \in 0..N
    BY <1>3, <1>14 DEF StaysIn
  <1> QED BY <1>4, <1>15 DEF N, these

LEMMA RmdirsBehindIn ==
  ASSUME NEW st \in Stores, NEW at, NEW G \in SUBSET Stores,
         Withdraw(st, OpsAt(st, "rmdir", at.dir)) \in G,
         \A s \in G : \A o \in OwedOps : o.kind = "rmdir" => Add(s, o) \in G
  PROVE  RmdirsBehind(st, at) \in G
  <1> DEFINE N == Len(RmdirsAt(st, at.dir))
             T == [i \in 0..N |-> G]
  <1>1. N \in Nat /\ \A i \in 1..N : RmdirsAt(st, at.dir)[i] \in OpsAt(st, "rmdir", at.dir) \cap OwedOps
    BY RmdirsAtAre
  <1>2. \A o \in OpsAt(st, "rmdir", at.dir) : o.kind = "rmdir"
    BY DEF OpsAt
  <1>3. \A i \in 0..N : T[i] = G
    OBVIOUS
  <1> HIDE DEF T
  <1>4. /\ Withdraw(st, OpsAt(st, "rmdir", at.dir)) \in T[0] /\ \A i \in 0..N : T[i] \subseteq Stores
    BY <1>1, <1>3
  <1>5. ASSUME NEW i \in 1..N, NEW s \in T[i - 1] PROVE Add(s, RmdirsAt(st, at.dir)[i]) \in T[i]
    <2>1. i \in 0..N /\ i - 1 \in 0..N
      BY <1>1
    <2> QED BY <1>1, <1>2, <1>3, <2>1
  <1>6. RmdirsBehind(st, at) \in T[N]
    BY <1>4, <1>5, RmdirsBehindAlong
  <1> QED BY <1>1, <1>3, <1>6

\* And that is fine.
LEMMA RmdirsBehindOK ==
  ASSUME NEW st \in Stores, NEW A, NEW m, StoreOK(st, A, m), NEW rows, NEW at
  PROVE  Fine(st, RmdirsBehind(st, at), rows, A, m) /\ RmdirsBehind(st, at).files = st.files
  <1> DEFINE G == {s \in Stores : Fine(st, s, rows, A, m) /\ s.files = st.files}
  <1>1. Withdraw(st, OpsAt(st, "rmdir", at.dir)) \in G
    BY WithdrawOK DEF Fine
  <1>2. ASSUME NEW s \in G, NEW o \in OwedOps, o.kind = "rmdir" PROVE Add(s, o) \in G
    <2>1. Fine(s, Add(s, o), rows, A, m) /\ Add(s, o).files = s.files
      BY <1>2, AddPlain DEF Fine
    <2> QED BY <2>1, FineTrans DEF Fine
  <1>3. RmdirsBehind(st, at) \in G
    <2> HIDE DEF G
    <2>1. G \in SUBSET Stores
      BY DEF G
    <2> QED BY <1>1, <1>2, <2>1, RmdirsBehindIn
  <1> QED BY <1>3

\* What is settled takes no row away.
RowsStay(st, s2) == \A f \in FileIds : st.files[f] # NoRow => s2.files[f] # NoRow

\* settleUpload, of a file no other row has and nobody is to delete.
LEMMA UploadedOK ==
  ASSUME NEW st \in Stores, NEW A \in SUBSET Ids, NEW m, \A r \in A : r <= m, StoreOK(st, A, m),
         NEW rows, NEW f \in FileIds, st.files[f] = NoRow \/ st.files[f].remote = NoFile,
         NEW entry \in Answers, entry.id \in A, NEW sent,
         \A g \in FileIds \ {f} : ~BoundTo(st.files, g, entry.id),
         \A i \in DOMAIN st.ops : ~DeleteOf(st.ops[i], entry.id)
  PROVE  /\ Fine(st, Uploaded(st, f, entry, sent), rows, A, m)
         /\ RowsStay(st, Uploaded(st, f, entry, sent))
  <1>1. entry.id \in Ids /\ entry.at \in Paths
    BY DEF Answers
  <1>2. CASE st.files[f] = NoRow
    <2> DEFINE D == DeleteOp(entry.at, entry.id)
               u == Add(st, D)
    <2>1. Uploaded(st, f, entry, sent) = RmdirsBehind(u, entry.at)
      BY <1>2 DEF Uploaded
    <2>2. D \in OwedOps /\ D.kind = "delete-file" /\ D.remote = entry.id
      BY <1>1 DEF DeleteOp, Op, OwedOps, OpOK, QueuedOps, Kinds, Ids
    <2>3. \A g \in FileIds : ~BoundTo(st.files, g, D.remote)
      BY <1>2, <2>2 DEF BoundTo
    <2>4. D.remote <= m
      BY <2>2
    <2> HIDE DEF D
    <2>5. Fine(st, u, rows, A, m) /\ u.files = st.files
      BY <2>2, <2>3, <2>4, AddOK
    <2> HIDE DEF u
    <2>6. Fine(u, RmdirsBehind(u, entry.at), rows, A, m) /\ RmdirsBehind(u, entry.at).files = u.files
      BY <2>5, RmdirsBehindOK DEF Fine
    <2> QED BY <2>1, <2>5, <2>6, FineTrans DEF RowsStay
  <1>3. CASE st.files[f] # NoRow
    <2> DEFINE was == st.files[f]
               moved == was.at # sent
               row == [at |-> IF moved THEN was.at ELSE entry.at, remote |-> entry.id, held |-> was.held]
               u == PutFile(st, f, row)
               M == MoveOp(f, entry.at, was.at)
               v == Add(u, M)
    <2>1. was \in Rows
      BY <1>3, StoreTyped
    <2>2. Uploaded(st, f, entry, sent) = IF moved THEN RmdirsBehind(v, entry.at) ELSE u
      BY <1>3 DEF Uploaded
    <2>3. row \in Rows /\ row.remote = entry.id
      BY <1>1, <2>1 DEF Rows
    <2>4. M \in OwedOps /\ M.kind = "move-file"
      BY <1>1, <2>1 DEF MoveOp, Op, OwedOps, OpOK, QueuedOps, Kinds, Rows
    <2> HIDE DEF row, M, moved
    <2>0. RowsStay(st, u)
      <3>1. u.files = [st.files EXCEPT ![f] = row] /\ st.files \in [FileIds -> Rows \cup {NoRow}]
        BY DEF PutFile, Stores
      <3> QED BY <2>3, <3>1, NothingAssumption DEF RowsStay
    <2>5. Fine(st, u, rows, A, m)
      BY <2>3, BindOK
    <2> HIDE DEF u
    <2>6. Fine(u, v, rows, A, m) /\ v.files = u.files
      BY <2>4, <2>5, AddPlain DEF Fine
    <2> HIDE DEF v
    <2>7. Fine(v, RmdirsBehind(v, entry.at), rows, A, m) /\ RmdirsBehind(v, entry.at).files = v.files
      BY <2>6, RmdirsBehindOK DEF Fine
    <2> QED BY <2>0, <2>2, <2>5, <2>6, <2>7, FineTrans DEF RowsStay
  <1> QED BY <1>2, <1>3

\* settleFileMove, likewise.
LEMMA MovedFileOK ==
  ASSUME NEW st \in Stores, NEW A \in SUBSET Ids, NEW m, StoreOK(st, A, m),
         NEW rows, NEW f \in FileIds, NEW entry \in Answers, entry.id \in A, NEW withdrawn,
         \A g \in FileIds \ {f} : ~BoundTo(st.files, g, entry.id),
         st.files[f] # NoRow => \A i \in DOMAIN st.ops : ~DeleteOf(st.ops[i], entry.id)
  PROVE  /\ Fine(st, MovedFile(st, f, entry, withdrawn), rows, A, m)
         /\ RowsStay(st, MovedFile(st, f, entry, withdrawn))
  <1>1. entry.id \in Ids /\ entry.at \in Paths
    BY DEF Answers
  <1>2. CASE st.files[f] = NoRow
    <2>1. MovedFile(st, f, entry, withdrawn) = st
      BY <1>2 DEF MovedFile
    <2> QED BY <2>1, FineItself DEF RowsStay
  <1>3. CASE st.files[f] # NoRow
    <2> DEFINE was == st.files[f]
               held == was.held /\ was.remote = entry.id
               landed == [was EXCEPT !.remote = entry.id, !.held = held]
               row == IF withdrawn THEN landed ELSE [landed EXCEPT !.at = entry.at]
               u == PutFile(st, f, row)
               v == FileOriginIsNow(u, f, entry.at)
               M == MoveOp(f, entry.at, was.at)
    <2>1. was \in Rows
      BY <1>3, StoreTyped
    <2>2. MovedFile(st, f, entry, withdrawn) \in {v, Add(v, M)}
      BY <1>3 DEF MovedFile
    <2>3. row \in Rows /\ row.remote = entry.id
      <3>1. held \in BOOLEAN
        OBVIOUS
      <3>2. landed \in Rows /\ landed.remote = entry.id
        <4> HIDE DEF held
        <4> QED BY <2>1, <3>1, <1>1 DEF Rows
      <3> HIDE DEF landed
      <3> QED BY <3>2, <1>1 DEF Rows
    <2>4. M \in OwedOps /\ M.kind = "move-file"
      BY <1>1, <2>1 DEF MoveOp, Op, OwedOps, OpOK, QueuedOps, Kinds, Rows
    <2> HIDE DEF row, M
    <2>0. RowsStay(st, u)
      <3>1. u.files = [st.files EXCEPT ![f] = row] /\ st.files \in [FileIds -> Rows \cup {NoRow}]
        BY DEF PutFile, Stores
      <3> QED BY <2>3, <3>1, NothingAssumption DEF RowsStay
    <2>5. Fine(st, u, rows, A, m)
      BY <1>3, <2>3, BindOK
    <2> HIDE DEF u
    <2>6. Fine(u, v, rows, A, m) /\ v.files = u.files
      BY <2>5, <1>1, OriginOK DEF Fine
    <2> HIDE DEF v
    <2>7. Fine(v, Add(v, M), rows, A, m) /\ Add(v, M).files = v.files
      BY <2>6, <2>4, AddPlain DEF Fine
    <2> QED BY <2>0, <2>2, <2>5, <2>6, <2>7, FineTrans DEF RowsStay
  <1> QED BY <1>2, <1>3

-----------------------------------------------------------------------------
(* What the steps have in common.                                            *)

Becomes(s) == files' = s.files /\ dirs' = s.dirs /\ ops' = s.ops

\* The invariant, as the steps use it.
LEMMA WhatHolds ==
  ASSUME IInv
  PROVE  /\ Store \in Stores /\ StoreOK(Store, HereOrTaken, remote.made)
         /\ HereOrTaken \in SUBSET Ids /\ \A r \in HereOrTaken : r <= remote.made
         /\ Store.files = files /\ Store.dirs = dirs /\ Store.ops = ops /\ Store.kept = drain.read
         /\ drain \in Drains /\ drain.todo \in Seq(Nat) /\ drain.read \in FiniteTags
         /\ ops \in Seq(OwedOps) /\ \A i \in DOMAIN ops : ops[i] \in OwedOps
         /\ files \in [FileIds -> Rows \cup {NoRow}]
  <1>1. Store.files = files /\ Store.dirs = dirs /\ Store.ops = ops /\ Store.kept = drain.read
    BY DEF Store
  <1>2. Store \in Stores /\ drain \in Drains /\ drain.todo \in Seq(Nat) /\ drain.read \in FiniteTags
    BY DEF IInv, TypeOK, Drains
  <1>3. HereOrTaken \in SUBSET Ids
    BY DEF HereOrTaken, IInv, TypeOK, OutsideOK
  <1> QED BY <1>1, <1>2, <1>3, StoreTyped DEF IInv, QueueOK, WorldOK

\* The store after a step.
LEMMA StoreNow ==
  ASSUME NEW s \in Stores, Becomes(s)
  PROVE  Store' = [s EXCEPT !.kept = drain'.read] /\ (s.kept = drain'.read => Store' = s)
  BY DEF Becomes, Store, Stores

\* StoreIs says what each variable becomes.
LEMMA StoreIsOne ==
  ASSUME NEW s, StoreIs(s)
  PROVE  Becomes(s)
  BY DEF StoreIs, Becomes

\* More files there, more made.
LEMMA MoreThere ==
  ASSUME NEW st \in Stores, NEW A, NEW m \in Nat, NEW B, NEW n \in Nat, StoreOK(st, A, m),
         A \subseteq B, m <= n
  PROVE  StoreOK(st, B, n)
  <1>1. \A i \in DOMAIN st.ops : st.ops[i].kind = "delete-file" => st.ops[i].remote \in Nat
    <2>1. \A i \in DOMAIN st.ops : st.ops[i] \in OwedOps
      BY StoreTyped
    <2> QED BY <2>1 DEF OwedOps, OpOK, Ids
  <1>2. NamesMade(st.files, st.ops, B, n)
    BY <1>1 DEF StoreOK, NamesMade
  <1> QED BY <1>2 DEF StoreOK

\* What the queue has of what a run has read is what it had.
LEMMA OldOps ==
  ASSUME NEW q, NEW p, NEW kept, NEW rows, OpsFrom(q, p, kept, rows),
         NEW k \in DOMAIN p, p[k].tag \in kept
  PROVE  \E i \in DOMAIN q : SameOp(q[i], p[k])
  BY DEF OpsFrom

\* An upload that copies r is as old as the oldest delete of it.
LEMMA OldCopies ==
  ASSUME NEW q, NEW p, NEW kept, NEW rows, OpsFrom(q, p, kept, rows),
         NEW k \in DOMAIN p, NEW r, CopyOf(p[k], r), \A f \in FileIds : ~BoundTo(rows, f, r)
  PROVE  \E i \in DOMAIN q : SameOp(q[i], p[k]) /\ CopyOf(q[i], r)
  <1>1. \E i \in DOMAIN q : SameOp(q[i], p[k])
    BY DEF OpsFrom, CopyOf
  <1> QED BY <1>1 DEF SameOp, CopyOf

\* The copies of a delete in the queue that is read are where they were.
LEMMA CopiesWere ==
  ASSUME NEW q, NEW p, NEW kept, NEW rows, OpsFrom(q, p, kept, rows), DeletedUnbound(rows, q),
         NEW i \in DOMAIN p, NEW j \in DOMAIN p, p[j].kind = "delete-file",
         CopyOf(p[i], p[j].remote), p[j].tag \in kept
  PROVE  \E k, l \in DOMAIN q : /\ SameOp(q[k], p[i]) /\ SameOp(q[l], p[j])
                                /\ q[l].kind = "delete-file" /\ CopyOf(q[k], q[l].remote)
  <1>1. PICK l \in DOMAIN q : SameOp(q[l], p[j])
    BY OldOps
  <1>2. q[l].kind = "delete-file" /\ q[l].remote = p[j].remote
    BY <1>1 DEF SameOp
  <1>3. \A f \in FileIds : ~BoundTo(rows, f, p[j].remote)
    BY <1>2 DEF DeletedUnbound
  <1>4. \E k \in DOMAIN q : SameOp(q[k], p[i]) /\ CopyOf(q[k], p[j].remote)
    BY <1>3, OldCopies
  <1> QED BY <1>1, <1>2, <1>4

\* The user, or another device, between two steps of the drain.
LEMMA UserKeeps ==
  ASSUME IInv, NEW s, NEW born, FineForUser(Store, s, born, HereOrTaken, remote.made), Becomes(s),
         UNCHANGED <<remote, drain, outcome>>, past'.taken = past.taken, past'.strays = past.strays,
         DOMAIN past' = Kept, play' \in Play,
         drain.op # NoRow => drain.op.file \notin born
  PROVE  IInv'
  <1>1. /\ s \in Stores /\ StoreOK(s, HereOrTaken, remote.made) /\ s.kept = Store.kept
        /\ OpsFrom(ops, s.ops, drain.read, files) /\ DeletesFrom(ops, s.ops, files)
        /\ RowsFrom(files, s.files, born)
    BY WhatHolds DEF FineForUser, Fine
  <1>2. Store' = s
    BY <1>1, StoreNow, WhatHolds
  <1>3. HereOrTaken' = HereOrTaken
    BY DEF HereOrTaken
  <1>4. files' = s.files /\ ops' = s.ops
    BY DEF Becomes
  <1>5. DeletedUnbound(files, ops) /\ DeletedUnbound(s.files, s.ops)
    BY <1>1, WhatHolds DEF StoreOK
  <1> HIDE DEF IInv
  <1>6. TypeOK'
    BY <1>1, <1>2 DEF TypeOK, OutsideOK, IInv
  <1>7. WorldOK'
    BY <1>3 DEF WorldOK, IInv
  <1>8. QueueOK'
    BY <1>1, <1>2, <1>3 DEF QueueOK
  <1>9. RunOK'
    <2>1. RunOK
      BY DEF IInv
    <2>2. ASSUME drain.pc # "idle", NEW i \in DOMAIN ops', ops'[i].tag \in drain.read
          PROVE  InTodo(ops'[i].tag) \/ drain.failed \/ drain.stuck
      <3>1. PICK k \in DOMAIN ops : SameOp(ops[k], ops'[i])
        BY <1>1, <1>4, <2>2, OldOps
      <3> QED BY <2>1, <2>2, <3>1 DEF RunOK, SameOp
    <2>3. ASSUME NEW i \in DOMAIN ops', NEW j \in DOMAIN ops', NEW n \in DOMAIN drain.todo,
                 ops'[j].kind = "delete-file", CopyOf(ops'[i], ops'[j].remote),
                 drain.todo[n] = ops'[j].tag
          PROVE  \/ ops'[j].remote \in drain.copying
                 \/ \E m \in DOMAIN drain.todo : m < n /\ drain.todo[m] = ops'[i].tag
      <3>1. ops'[j].tag \in drain.read
        BY <2>1, <2>3 DEF RunOK
      <3>2. PICK k \in DOMAIN ops, l \in DOMAIN ops :
              /\ SameOp(ops[k], ops'[i]) /\ SameOp(ops[l], ops'[j])
              /\ ops[l].kind = "delete-file" /\ CopyOf(ops[k], ops[l].remote)
        BY <1>1, <1>4, <1>5, <2>3, <3>1, CopiesWere
      <3>3. ops[l].remote = ops'[j].remote /\ ops[l].tag = ops'[j].tag /\ ops[k].tag = ops'[i].tag
        BY <3>2 DEF SameOp
      <3> QED BY <2>1, <2>3, <3>2, <3>3 DEF RunOK
    <2> QED BY <2>1, <2>2, <2>3 DEF RunOK, InTodo
  <1>10. ASSUME Flight PROVE FlightOK'
    <2>0. FlightOK /\ Flight /\ RunOK
      BY <1>10 DEF IInv
    <2>1. OpUnderWay /\ UploadOK /\ MoveOK /\ FetchOK /\ MetOK /\ SettleOK /\ RemoveOK /\ RmdirOK
      BY <2>0 DEF FlightOK
    <2>2. drain.op # NoRow /\ drain.op \in OwedOps
      BY <2>1, NothingAssumption DEF OpUnderWay, OwedOps
    <2>3. drain.op.file \notin born
      BY <2>2
    <2>4. \A r : (\A f \in FileIds : ~BoundTo(files, f, r)) /\ r # NoFile
                   => \A f \in FileIds : ~BoundTo(files', f, r)
      BY <1>1, <1>4 DEF RowsFrom, Bound, BoundTo
    <2>5. \A r : r # NoFile /\ ~OthersBoundTo(r) => ~OthersBoundTo(r)'
      BY <1>1, <1>4 DEF OthersBoundTo, RowsFrom, Bound, BoundTo
    <2>6. \A r : r # NoFile /\ Unwanted(r) => Unwanted(r)'
      <3> SUFFICES ASSUME NEW r, r # NoFile, Unwanted(r) PROVE Unwanted(r)'
        OBVIOUS
      <3>1. \A f \in FileIds : ~BoundTo(files, f, r)
        BY DEF Unwanted
      <3>2. ASSUME NEW i \in DOMAIN ops', CopyOf(ops'[i], r) PROVE FALSE
        <4>1. \E k \in DOMAIN ops : CopyOf(ops[k], r)
          BY <1>1, <1>4, <3>1, <3>2, OldCopies
        <4> QED BY <4>1 DEF Unwanted
      <3> QED BY <2>4, <3>1, <3>2 DEF Unwanted
    <2>7. \A r \in Ids : r # NoFile
      BY NothingAssumption, FilePushAssumption DEF Ids
    <2>8. drain.op.kind \in {"upload", "move-file"} =>
            (Row' # NoRow => Row # NoRow /\ Row'.remote = Row.remote)
      BY <1>1, <1>4, <2>2, <2>3 DEF OwedOps, OpOK, Row, RowsFrom
    <2>a. OpUnderWay'
      <3>1. ASSUME NEW i \in DOMAIN ops', ops'[i].tag = drain.op.tag
            PROVE  ops'[i].copyOf \in {drain.op.copyOf, NoFile}
        <4>1. ops'[i].tag \in drain.read
          BY <2>0, <2>1, <3>1, WhatHolds DEF OpUnderWay, RunOK
        <4>2. PICK k \in DOMAIN ops : SameOp(ops[k], ops'[i])
          BY <1>1, <1>4, <4>1, OldOps
        <4> QED BY <2>1, <3>1, <4>2 DEF OpUnderWay, SameOp
      <3> QED BY <2>1, <3>1 DEF OpUnderWay
    <2>b. UploadOK'
      BY <2>1, <2>8 DEF UploadOK
    <2>c. MoveOK'
      BY <2>1, <2>5, <2>7, <2>8 DEF MoveOK
    <2>d. FetchOK' /\ MetOK'
      BY <2>1, <1>3 DEF FetchOK, MetOK
    <2>e. SettleOK'
      <3> SUFFICES ASSUME drain.pc = "settle" PROVE SettleOK'
        BY DEF SettleOK
      <3> DEFINE r == drain.entry.id
      <3>1. r \in Ids /\ r # NoFile /\ ~OthersBoundTo(r)
        BY <2>1, <2>7, WhatHolds DEF SettleOK, MetOK
      <3>2. ~OthersBoundTo(r)'
        BY <2>5, <3>1
      <3>3. ASSUME Row' # NoRow \/ drain.op.kind = "upload",
                   NEW i \in DOMAIN ops', DeleteOf(ops'[i], r)
            PROVE  FALSE
        <4>1. drain.op.kind \in {"upload", "move-file"} /\ drain.op.file \in FileIds
          BY <2>1, <2>2 DEF OpUnderWay, KindsAt, OwedOps, OpOK
        <4>2. Row # NoRow \/ drain.op.kind = "upload"
          BY <3>3, <4>1, <2>8
        <4>3. \A k \in DOMAIN ops : ~DeleteOf(ops[k], r)
          BY <2>1, <4>2 DEF SettleOK
        <4>4. PICK f \in FileIds : BoundTo(files, f, r)
          BY <1>1, <1>4, <3>3, <4>3 DEF DeletesFrom, DeleteOf
        <4>5. f = drain.op.file /\ BoundTo(files, drain.op.file, r)
          BY <3>1, <4>4 DEF OthersBoundTo
        <4>6. drain.op.kind # "upload"
          BY <2>1, <3>1, <4>5 DEF UploadOK, Row, BoundTo
        <4>7. BoundTo(files', drain.op.file, r)
          BY <2>8, <3>3, <4>1, <4>5, <4>6 DEF BoundTo, Row
        <4> QED BY <1>4, <1>5, <3>3, <4>1, <4>7 DEF DeletedUnbound, DeleteOf
      <3> QED BY <3>2, <3>3 DEF SettleOK
    <2>f. RemoveOK'
      <3> SUFFICES ASSUME drain.pc = "remove" PROVE Unwanted(drain.op.remote)'
        BY DEF RemoveOK, Unwanted
      <3>1. drain.op.remote \in Ids
        BY <2>1, <2>2 DEF OpUnderWay, KindsAt, OwedOps, OpOK
      <3> QED BY <2>1, <2>6, <2>7, <3>1 DEF RemoveOK, Unwanted
    <2>g. RmdirOK'
      <3>1. FilesThere(remote, drain.op.at.dir) \subseteq Ids
        BY DEF FilesThere
      <3> QED BY <2>1, <2>6, <2>7, <3>1 DEF RmdirOK, Unwanted
    <2> QED BY <2>a, <2>b, <2>c, <2>d, <2>e, <2>f, <2>g DEF FlightOK
  <1>11. FlightOK'
    BY <1>10 DEF Flight, FlightOK
  <1> QED BY <1>6, <1>7, <1>8, <1>9, <1>11 DEF IInv

-----------------------------------------------------------------------------
(* The next turn, and the end of the run.                                    *)

\* What is left of the run after a turn, place by place.
LEMMA Skipped ==
  ASSUME NEW q \in Seq(Nat), q # <<>>
  PROVE  /\ Tail(q) \in Seq(Nat) /\ Head(q) = q[1] /\ 1 \in DOMAIN q
         /\ \A n \in DOMAIN Tail(q) : n \in Nat \ {0} /\ n + 1 \in DOMAIN q /\ Tail(q)[n] = q[n + 1]
         /\ \A n \in DOMAIN q : n = 1 \/ (n - 1 \in DOMAIN Tail(q) /\ Tail(q)[n - 1] = q[n] /\ n \in Nat)
  <1>1. /\ Len(q) \in Nat \ {0} /\ DOMAIN q = 1..Len(q)
        /\ Tail(q) \in Seq(Nat) /\ Len(Tail(q)) = Len(q) - 1 /\ DOMAIN Tail(q) = 1..Len(Tail(q))
    OBVIOUS
  <1>2. \A n \in 1..(Len(q) - 1) : Tail(q)[n] = q[n + 1]
    OBVIOUS
  <1>3. \A n \in DOMAIN q : n # 1 => n - 1 \in 1..(Len(q) - 1) /\ (n - 1) + 1 = n
    BY <1>1
  <1> QED BY <1>1, <1>2, <1>3

\* What the drain has then.
Onward(d, C, H, F, K) ==
  /\ d \in Drains /\ d.pc = "turn" /\ d.todo = Tail(drain.todo) /\ d.read = drain.read /\ d.op = NoRow
  /\ d.copying = C /\ d.holding = H /\ d.failed = F /\ d.stuck = K

\* It is what it remembers, and what this turn adds.
LEMMA NextTurnIs ==
  ASSUME IInv, drain.todo # <<>>
  PROVE  Onward(NextTurn, drain.copying, drain.holding, drain.failed, drain.stuck)
  <1>1. drain \in Drains /\ Tail(drain.todo) \in Seq(Nat)
    BY WhatHolds, Skipped
  <1>2. NextTurn \in [pc : {"turn"}, todo : {Tail(drain.todo)}, read : {drain.read}, op : {NoRow},
                     at : {NoFile}, sent : {NoFile}, from : {NoFile}, entry : {NoFile},
                     copying : {drain.copying}, holding : {drain.holding}, failed : {drain.failed},
                     stuck : {drain.stuck}]
    BY DEF NextTurn, Rest
  <1>3. NextTurn \in Drains
    BY <1>1, <1>2 DEF Drains, Stages
  <1> QED BY <1>2, <1>3 DEF Onward

LEMMA NextTurnMore ==
  ASSUME NEW n, NEW C, NEW H, NEW F, NEW K, Onward(n, C, H, F, K),
         NEW C2 \in SUBSET (Ids \cup {NoFile}), NEW H2 \in SUBSET Paths, NEW F2 \in BOOLEAN, NEW K2 \in BOOLEAN
  PROVE  /\ Onward([n EXCEPT !.copying = C2], C2, H, F, K)
         /\ Onward([n EXCEPT !.holding = H2], C, H2, F, K)
         /\ Onward([n EXCEPT !.failed = F2], C, H, F2, K)
         /\ Onward([n EXCEPT !.stuck = K2], C, H, F, K2)
  <1> USE DEF Onward, Drains
  <1>1. Onward([n EXCEPT !.copying = C2], C2, H, F, K)
    OBVIOUS
  <1>2. Onward([n EXCEPT !.holding = H2], C, H2, F, K)
    OBVIOUS
  <1>3. Onward([n EXCEPT !.failed = F2], C, H, F2, K)
    OBVIOUS
  <1>4. Onward([n EXCEPT !.stuck = K2], C, H, F, K2)
    OBVIOUS
  <1> QED BY <1>1, <1>2, <1>3, <1>4

\* The drain goes on to the next turn: the op is done with, or stepped over
\* with what it copies remembered.
GoesOn(s, C, H, F, K) ==
  /\ Fine(Store, s, files, HereOrTaken', remote'.made) /\ Becomes(s)
  /\ C \in SUBSET (Ids \cup {NoFile}) /\ H \in SUBSET Paths /\ F \in BOOLEAN /\ K \in BOOLEAN
  /\ Onward(drain', C, H, F, K)
  /\ drain.copying \subseteq C /\ (C # {} \/ H # {} => F \/ K) /\ (drain.failed \/ drain.stuck => F \/ K)
  /\ \A i \in DOMAIN s.ops : s.ops[i].tag = Head(drain.todo) =>
       (F \/ K) /\ (s.ops[i].kind = "upload" => s.ops[i].copyOf \in C \cup {NoFile})

\* And the invariant holds at the next turn.
LEMMA AfterTurn ==
  ASSUME IInv, drain.pc # "idle", drain.todo # <<>>,
         NEW s, NEW C, NEW H, NEW F, NEW K, GoesOn(s, C, H, F, K), WorldOK', OutsideOK'
  PROVE  IInv'
  <1> DEFINE todo == drain.todo
             rest == Tail(drain.todo)
  <1>0. /\ Fine(Store, s, files, HereOrTaken', remote'.made) /\ Becomes(s)
        /\ C \in SUBSET (Ids \cup {NoFile}) /\ H \in SUBSET Paths /\ F \in BOOLEAN /\ K \in BOOLEAN
        /\ Onward(drain', C, H, F, K)
        /\ drain.copying \subseteq C /\ (C # {} \/ H # {} => F \/ K)
        /\ (drain.failed \/ drain.stuck => F \/ K)
        /\ \A i \in DOMAIN s.ops : s.ops[i].tag = Head(drain.todo) =>
             (F \/ K) /\ (s.ops[i].kind = "upload" => s.ops[i].copyOf \in C \cup {NoFile})
    BY DEF GoesOn
  <1>1. /\ s \in Stores /\ StoreOK(s, HereOrTaken', remote'.made) /\ s.kept = drain.read
        /\ OpsFrom(ops, s.ops, drain.read, files)
    BY <1>0, WhatHolds DEF Fine
  <1>2. drain \in Drains /\ todo \in Seq(Nat) /\ RunOK /\ DeletedUnbound(files, ops)
    BY WhatHolds DEF IInv, StoreOK
  <1>3. NoFile \notin Ids /\ NoRow \in OwedOps \cup {NoRow}
    BY NothingAssumption, FilePushAssumption DEF Ids
  <1>4. /\ drain'.pc = "turn" /\ drain'.todo = rest /\ drain'.read = drain.read /\ drain'.op = NoRow
        /\ drain'.copying = C /\ drain'.holding = H /\ drain'.failed = F /\ drain'.stuck = K
        /\ drain' \in Drains
    BY <1>0 DEF Onward
  <1>5. Store' = s /\ files' = s.files /\ ops' = s.ops
    BY <1>0, <1>1, <1>4, StoreNow DEF Becomes
  <1>6. /\ rest \in Seq(Nat) /\ Head(todo) = todo[1] /\ 1 \in DOMAIN todo
        /\ \A n \in DOMAIN rest : n \in Nat \ {0} /\ n + 1 \in DOMAIN todo /\ rest[n] = todo[n + 1]
        /\ \A n \in DOMAIN todo : n = 1 \/ (n - 1 \in DOMAIN rest /\ rest[n - 1] = todo[n] /\ n \in Nat)
    BY <1>2, Skipped
  <1> HIDE DEF todo, rest
  <1>8. TypeOK'
    BY <1>1, <1>4, <1>5 DEF TypeOK
  <1>9. QueueOK'
    BY <1>1, <1>5 DEF QueueOK
  <1>10. RunOK'
    <2>1. \A n \in DOMAIN rest : rest[n] \in drain.read
      BY <1>2, <1>6 DEF RunOK, todo
    <2>2. ASSUME NEW i \in DOMAIN s.ops, s.ops[i].tag \in drain.read
          PROVE  (\E n \in DOMAIN rest : rest[n] = s.ops[i].tag) \/ F \/ K
      <3>1. PICK k \in DOMAIN ops : SameOp(ops[k], s.ops[i])
        BY <1>1, <2>2, OldOps
      <3>2. InTodo(s.ops[i].tag) \/ F \/ K
        BY <1>0, <1>2, <2>2, <3>1 DEF RunOK, SameOp
      <3>3. CASE \E n \in DOMAIN todo : todo[n] = s.ops[i].tag
        <4>1. PICK n \in DOMAIN todo : todo[n] = s.ops[i].tag
          BY <3>3
        <4>2. CASE n = 1
          BY <4>1, <4>2, <1>0, <1>6 DEF todo
        <4>3. CASE n # 1
          BY <4>1, <4>3, <1>6
        <4> QED BY <4>2, <4>3
      <3> QED BY <3>2, <3>3 DEF InTodo, todo
    <2>3. ASSUME NEW i \in DOMAIN s.ops, NEW j \in DOMAIN s.ops, NEW n \in DOMAIN rest,
                 s.ops[j].kind = "delete-file", CopyOf(s.ops[i], s.ops[j].remote),
                 rest[n] = s.ops[j].tag
          PROVE  s.ops[j].remote \in C \/ \E m \in DOMAIN rest : m < n /\ rest[m] = s.ops[i].tag
      <3>1. s.ops[j].tag \in drain.read
        BY <2>1, <2>3
      <3>2. PICK k \in DOMAIN ops, l \in DOMAIN ops :
              /\ SameOp(ops[k], s.ops[i]) /\ SameOp(ops[l], s.ops[j])
              /\ ops[l].kind = "delete-file" /\ CopyOf(ops[k], ops[l].remote)
        BY <1>1, <1>2, <2>3, <3>1, CopiesWere
      <3>3. ops[l].remote = s.ops[j].remote /\ ops[l].tag = s.ops[j].tag /\ ops[k].tag = s.ops[i].tag
        BY <3>2 DEF SameOp
      <3>4. n + 1 \in DOMAIN todo /\ todo[n + 1] = ops[l].tag /\ n \in Nat
        BY <1>6, <2>3, <3>3
      <3>5. \/ ops[l].remote \in drain.copying
            \/ \E m \in DOMAIN todo : m < n + 1 /\ todo[m] = ops[k].tag
        BY <1>2, <3>2, <3>4 DEF RunOK, todo
      <3>6. CASE ops[l].remote \in drain.copying
        BY <3>3, <3>6, <1>0
      <3>7. CASE \E m \in DOMAIN todo : m < n + 1 /\ todo[m] = ops[k].tag
        <4>1. PICK m \in DOMAIN todo : m < n + 1 /\ todo[m] = ops[k].tag
          BY <3>7
        <4>2. CASE m = 1
          <5>1. s.ops[i].tag = Head(drain.todo)
            BY <4>1, <4>2, <3>3, <1>6 DEF todo
          <5> QED BY <5>1, <2>3, <1>0 DEF CopyOf
        <4>3. CASE m # 1
          <5>1. m - 1 \in DOMAIN rest /\ rest[m - 1] = todo[m] /\ m \in Nat
            BY <4>3, <1>6
          <5>2. m - 1 < n
            BY <4>1, <3>4, <5>1
          <5> QED BY <5>1, <5>2, <4>1, <3>3
        <4> QED BY <4>2, <4>3
      <3> QED BY <3>5, <3>6, <3>7
    <2> QED BY <1>0, <1>4, <1>5, <2>1, <2>2, <2>3 DEF RunOK, InTodo
  <1>11. FlightOK'
    BY <1>4 DEF FlightOK, Flight
  <1> QED BY <1>8, <1>9, <1>10, <1>11 DEF IInv

\* The run ends.
LEMMA AfterEnd ==
  ASSUME NEW s \in Stores, StoreOK(s, HereOrTaken', remote'.made), Becomes(s), drain' = Rest,
         WorldOK', OutsideOK'
  PROVE  IInv'
  <1>1. Store' = [s EXCEPT !.kept = {}]
    BY StoreNow DEF Rest
  <1>2. {} \in FiniteTags
    BY FS_EmptySet DEF FiniteTags
  <1>3. Store' \in Stores /\ Store'.files = s.files /\ Store'.ops = s.ops
    BY <1>1, <1>2 DEF Stores
  <1>4. QueueOK'
    BY <1>3 DEF QueueOK, StoreOK
  <1>5. drain' \in Drains /\ drain'.pc = "idle" /\ drain'.todo = <<>> /\ drain'.copying = {} /\ drain'.holding = {}
    BY <1>2 DEF Rest, Drains, Stages
  <1>6. RunOK'
    BY <1>5 DEF RunOK
  <1>7. FlightOK'
    BY <1>5 DEF FlightOK, Flight
  <1> QED BY <1>3, <1>4, <1>5, <1>6, <1>7 DEF IInv, TypeOK

\* An op done with, and the queue goes on.
LEMMA AfterSettled ==
  ASSUME IInv, drain.pc # "idle", drain.todo # <<>>,
         NEW s, Fine(Store, s, files, HereOrTaken', remote'.made),
         NEW op, op.tag = Head(drain.todo), Settled(s, op), WorldOK', OutsideOK'
  PROVE  IInv'
  <1> DEFINE t == Complete(s, op.tag)
  <1>1. Becomes(t) /\ drain' = NextTurn
    <2>1. Settled(s, op) => Becomes(Complete(s, op.tag)) /\ drain' = NextTurn
      BY DEF Settled, StoreIs, Becomes
    <2> QED BY <2>1
  <1>2. s \in Stores /\ StoreOK(s, HereOrTaken', remote'.made)
    BY DEF Fine
  <1>3. Fine(s, t, files, HereOrTaken', remote'.made)
    BY <1>2, WithdrawOK DEF Complete
  <1>4. Fine(Store, t, files, HereOrTaken', remote'.made)
    BY <1>3, FineTrans
  <1>5. \A i \in DOMAIN t.ops : t.ops[i].tag # op.tag
    <2>1. \A i \in DOMAIN t.ops : t.ops[i] \notin ByTag(s, op.tag)
      BY <1>2, WithdrawIs DEF Complete
    <2>2. \A i \in DOMAIN t.ops : \E k \in DOMAIN s.ops : t.ops[i] = s.ops[k]
      BY <1>2, WithdrawIs DEF Complete, Part
    <2> HIDE DEF t
    <2> QED BY <2>1, <2>2 DEF ByTag, Queued
  <1>6. /\ drain.copying \in SUBSET (Ids \cup {NoFile}) /\ drain.holding \in SUBSET Paths
        /\ drain.failed \in BOOLEAN /\ drain.stuck \in BOOLEAN
    BY WhatHolds DEF Drains
  <1>7. Onward(NextTurn, drain.copying, drain.holding, drain.failed, drain.stuck)
    BY NextTurnIs
  <1>8. drain.copying # {} \/ drain.holding # {} => drain.failed \/ drain.stuck
    BY DEF IInv, RunOK
  <1>9. GoesOn(t, drain.copying, drain.holding, drain.failed, drain.stuck)
    <2> HIDE DEF t
    <2> QED BY <1>1, <1>4, <1>5, <1>6, <1>7, <1>8 DEF GoesOn
  <1> HIDE DEF t, IInv
  <1> QED BY <1>9, AfterTurn

-----------------------------------------------------------------------------
(* The remote.                                                               *)

\* A directory made, where there was none.
LEMMA DirMadeIs ==
  ASSUME NEW w \in Remotes, NEW d \in Folders
  PROVE  /\ DirMade(w, d) \in Remotes /\ DirMade(w, d).files = w.files /\ DirMade(w, d).made = w.made
         /\ DirMade(w, d).files \in [Ids -> Entries \cup {NoFile}]
  <1>1. CASE Here(w, d)
    BY <1>1 DEF DirMade, Remotes
  <1>2. CASE ~Here(w, d)
    <2>1. d \in Notebooks
      BY <1>2 DEF Here, Notebooks
    <2>2. w.dirs \in [Notebooks -> [here : BOOLEAN, id : Nat]]
      BY DEF Remotes
    <2> DEFINE row == [here |-> TRUE, id |-> w.dirs[d].id + 1]
    <2>3. row \in [here : BOOLEAN, id : Nat]
      BY <2>1, <2>2
    <2>4. DirMade(w, d) = [w EXCEPT !.dirs[d] = row]
      BY <1>2 DEF DirMade
    <2> HIDE DEF row
    <2>5. [w.dirs EXCEPT ![d] = row] \in [Notebooks -> [here : BOOLEAN, id : Nat]]
      BY <2>2, <2>3
    <2>6. DirMade(w, d) = [w EXCEPT !.dirs = [w.dirs EXCEPT ![d] = row]]
      BY <2>4
    <2> QED BY <2>5, <2>6 DEF Remotes
  <1> QED BY <1>1, <1>2

\* A file put where it is to be.
LEMMA PlacedIs ==
  ASSUME NEW w \in Remotes, NEW id \in Ids, NEW p \in Paths, NEW ours \in BOOLEAN
  PROVE  /\ Placed(w, id, p, ours) \in Remotes
         /\ Placed(w, id, p, ours).files = [w.files EXCEPT ![id] = [at |-> p, ours |-> ours]]
         /\ Placed(w, id, p, ours).made = w.made
  <1> DEFINE e == [at |-> p, ours |-> ours]
             fs == [w.files EXCEPT ![id] = e]
  <1>1. w.files \in [Ids -> Entries \cup {NoFile}] /\ e \in Entries
    BY DEF Remotes, Entries
  <1>2. Placed(w, id, p, ours) = [w EXCEPT !.files = fs]
    BY DEF Placed
  <1> HIDE DEF e
  <1>3. fs \in [Ids -> Entries \cup {NoFile}]
    BY <1>1
  <1> HIDE DEF fs
  <1>4. [w EXCEPT !.files = fs] \in Remotes /\ [w EXCEPT !.files = fs].files = fs
        /\ [w EXCEPT !.files = fs].made = w.made
    BY <1>3 DEF Remotes
  <1> QED BY <1>2, <1>4 DEF fs, e

\* A file made.
LEMMA CreatedIs ==
  ASSUME NEW w \in Remotes, NEW p \in Paths, NEW ours \in BOOLEAN, w.made < MaxRemote
  PROVE  /\ w.made \in Ids /\ w.made + 1 \in Ids /\ Created(w, p, ours) \in Remotes
         /\ Created(w, p, ours).made = w.made + 1
         /\ Created(w, p, ours).files = [w.files EXCEPT ![w.made + 1] = [at |-> p, ours |-> ours]]
  <1> DEFINE v == DirMade(w, p.dir)
             u == Placed(v, w.made + 1, p, ours)
  <1>1. w.made \in Ids /\ w.made + 1 \in Ids /\ w.made + 1 \in Nat
    BY FilePushAssumption DEF Remotes, Ids
  <1>2. p.dir \in Folders
    BY DEF Paths
  <1>3. v \in Remotes /\ v.files = w.files /\ v.made = w.made
    BY <1>2, DirMadeIs
  <1>4. Created(w, p, ours) = [u EXCEPT !.made = u.made + 1]
    BY DEF Created
  <1> HIDE DEF v
  <1>5. u \in Remotes /\ u.made = w.made /\ u.files = [w.files EXCEPT ![w.made + 1] = [at |-> p, ours |-> ours]]
    BY <1>1, <1>3, PlacedIs
  <1> HIDE DEF u
  <1>6. [u EXCEPT !.made = u.made + 1] \in Remotes /\ [u EXCEPT !.made = u.made + 1].files = u.files
        /\ [u EXCEPT !.made = u.made + 1].made = u.made + 1
    BY <1>1, <1>5 DEF Remotes
  <1> QED BY <1>1, <1>4, <1>5, <1>6

\* A directory gone with what is in it.
LEMMA EmptiedIs ==
  ASSUME NEW w \in Remotes, NEW d \in Notebooks
  PROVE  /\ DirGone(w, d) \in Remotes /\ DirGone(w, d).made = w.made
         /\ \A i \in Ids : DirGone(w, d).files[i] = IF i \in FilesThere(w, d) THEN NoFile ELSE w.files[i]
  <1> DEFINE ds == [w.dirs EXCEPT ![d] = [w.dirs[d] EXCEPT !.here = FALSE]]
             fs == [i \in Ids |-> IF i \in FilesThere(w, d) THEN NoFile ELSE w.files[i]]
  <1>1. w.files \in [Ids -> Entries \cup {NoFile}] /\ w.dirs \in [Notebooks -> [here : BOOLEAN, id : Nat]]
    BY DEF Remotes
  <1>2. ds \in [Notebooks -> [here : BOOLEAN, id : Nat]] /\ fs \in [Ids -> Entries \cup {NoFile}]
    BY <1>1
  <1>3. DirGone(w, d) = [w EXCEPT !.dirs = ds, !.files = fs]
    BY DEF DirGone, Remotes
  <1>4. \A i \in Ids : fs[i] = IF i \in FilesThere(w, d) THEN NoFile ELSE w.files[i]
    OBVIOUS
  <1> HIDE DEF ds, fs
  <1>5. [w EXCEPT !.dirs = ds, !.files = fs] \in Remotes
        /\ [w EXCEPT !.dirs = ds, !.files = fs].files = fs
        /\ [w EXCEPT !.dirs = ds, !.files = fs].made = w.made
    BY <1>2 DEF Remotes
  <1> QED BY <1>3, <1>4, <1>5

\* Fewer files there, and those gone are nothing to rows and ops.
LEMMA LessThere ==
  ASSUME NEW st \in Stores, NEW A \in SUBSET Ids, NEW m, NEW B, StoreOK(st, A, m),
         \A r \in A \ B : /\ \A f \in FileIds : ~BoundTo(st.files, f, r)
                          /\ \A i \in DOMAIN st.ops : ~CopyOf(st.ops[i], r)
  PROVE  StoreOK(st, B, m)
  <1>1. ASSUME NEW f \in FileIds, Bound(st.files[f]) PROVE st.files[f].remote \in B
    BY <1>1 DEF StoreOK, NamesMade, Bound, BoundTo
  <1>2. ASSUME NEW i \in DOMAIN st.ops, st.ops[i].kind = "upload", st.ops[i].copyOf # NoFile
        PROVE  st.ops[i].copyOf \in B
    BY <1>2 DEF StoreOK, NamesMade, CopyOf
  <1>3. NamesMade(st.files, st.ops, B, m)
    BY <1>1, <1>2 DEF StoreOK, NamesMade
  <1> QED BY <1>3 DEF StoreOK

\* What a request makes of the remote.
LEMMA DoneOK ==
  ASSUME IInv, drain.pc \in {"send", "move", "remove", "rmdir", "mkdir"},
         drain.pc = "send" /\ AtName(remote, drain.at) = {} => remote.made < MaxRemote,
         remote' = Done(remote), past'.taken = past.taken
  PROVE  /\ remote' \in Remotes /\ WorldOK' /\ StoreOK(Store, HereOrTaken', remote'.made)
         /\ HereOrTaken' \in SUBSET Ids
  <1>0. /\ Store \in Stores /\ StoreOK(Store, HereOrTaken, remote.made) /\ HereOrTaken \in SUBSET Ids
        /\ Store.files = files /\ Store.ops = ops
    BY WhatHolds
  <1>1. remote \in Remotes /\ WorldOK /\ past.taken \subseteq Ids
    BY DEF IInv, TypeOK, OutsideOK
  <1>2. /\ OpUnderWay /\ MoveOK /\ RemoveOK /\ RmdirOK
    BY DEF IInv, FlightOK, Flight
  <1>3. drain.at \in Paths /\ drain.at.dir \in Folders /\ drain.op \in OwedOps /\ remote.made \in Nat
    BY <1>1, <1>2 DEF OpUnderWay, Paths, Remotes, Ids
  <1>4. remote.files \in [Ids -> Entries \cup {NoFile}]
    BY <1>1 DEF Remotes
  <1>e. \A i \in Ids : remote.files[i] # NoFile => remote.files[i].ours \in BOOLEAN
    BY <1>4 DEF Entries
  <1>f. NoFile \notin Entries
    BY NothingAssumption
  <1>5. HereOrTaken' \in SUBSET Ids
    BY <1>1 DEF HereOrTaken
  <1>6. CASE /\ remote' \in Remotes /\ remote'.made = remote.made
             /\ \A i \in Ids : remote.files[i] # NoFile <=> remote'.files[i] # NoFile
    <2>1. HereOrTaken' = HereOrTaken
      BY <1>6 DEF HereOrTaken
    <2>2. WorldOK'
      BY <1>1, <1>6, <2>1 DEF WorldOK
    <2> QED BY <1>0, <1>6, <2>1, <2>2
  <1>7. CASE drain.pc = "send"
    <2>1. CASE AtName(remote, drain.at) # {}
      BY <1>1, <1>6, <1>7, <2>1 DEF Done
    <2>2. CASE AtName(remote, drain.at) = {}
      <3> DEFINE ours == TRUE
      <3>1. remote' = Created(remote, drain.at, ours) /\ ours \in BOOLEAN /\ remote.made < MaxRemote
        BY <1>7, <2>2 DEF Done
      <3> HIDE DEF ours
      <3>2. /\ remote.made + 1 \in Ids /\ remote' \in Remotes /\ remote'.made = remote.made + 1
            /\ remote'.files = [remote.files EXCEPT ![remote.made + 1] = [at |-> drain.at, ours |-> ours]]
        BY <1>1, <1>3, <3>1, CreatedIs
      <3>3. [at |-> drain.at, ours |-> ours] \in Entries
        BY <1>3, <3>1 DEF Entries
      <3>4. HereOrTaken' = HereOrTaken \cup {remote.made + 1}
        BY <1>4, <1>f, <3>2, <3>3 DEF HereOrTaken
      <3>5. WorldOK'
        BY <1>0, <1>1, <1>3, <3>2, <3>4 DEF WorldOK, Ids
      <3>6. StoreOK(Store, HereOrTaken', remote'.made)
        BY <1>0, <1>3, <3>2, <3>4, MoreThere
      <3> QED BY <1>5, <3>2, <3>5, <3>6
    <2> QED BY <2>1, <2>2
  <1>8. CASE drain.pc = "move"
    <2>1. drain.from \in Ids
      BY <1>2, <1>8 DEF OpUnderWay, MoveOK, KindsAt
    <2>2. CASE remote.files[Moving] = NoFile \/ ~(AtName(remote, drain.at) \subseteq {Moving})
      BY <1>1, <1>6, <1>8, <2>2 DEF Done
    <2>3. CASE remote.files[Moving] # NoFile /\ AtName(remote, drain.at) \subseteq {Moving}
      <3> DEFINE v == DirMade(remote, drain.at.dir)
                 ours == remote.files[Moving].ours
      <3>1. remote' = Placed(v, Moving, drain.at, ours)
        BY <1>8, <2>3 DEF Done
      <3>2. v \in Remotes /\ v.files = remote.files /\ v.made = remote.made
        BY <1>1, <1>3, DirMadeIs
      <3>3. ours \in BOOLEAN
        BY <1>e, <2>1, <2>3 DEF Moving
      <3> HIDE DEF v, ours
      <3>4. /\ remote' \in Remotes /\ remote'.made = remote.made
            /\ remote'.files = [remote.files EXCEPT ![Moving] = [at |-> drain.at, ours |-> ours]]
        BY <1>3, <2>1, <3>1, <3>2, <3>3, PlacedIs DEF Moving
      <3>5. [at |-> drain.at, ours |-> ours] \in Entries
        BY <1>3, <3>3 DEF Entries
      <3>6. \A i \in Ids : remote.files[i] # NoFile <=> remote'.files[i] # NoFile
        BY <1>4, <1>f, <2>3, <3>4, <3>5
      <3> QED BY <1>6, <3>4, <3>6
    <2> QED BY <2>2, <2>3
  <1>9. CASE drain.pc = "remove"
    <2> DEFINE r == drain.op.remote
    <2>1. r \in Ids
      BY <1>2, <1>9 DEF OpUnderWay, KindsAt, OwedOps, OpOK
    <2>2. remote' = [remote EXCEPT !.files = [remote.files EXCEPT ![r] = NoFile]]
      BY <1>9 DEF Done
    <2>3. Unwanted(r)
      BY <1>2, <1>9 DEF RemoveOK
    <2> HIDE DEF r
    <2>4. [remote.files EXCEPT ![r] = NoFile] \in [Ids -> Entries \cup {NoFile}]
      BY <1>4, <2>1
    <2>5. /\ remote' \in Remotes /\ remote'.made = remote.made
          /\ remote'.files = [remote.files EXCEPT ![r] = NoFile]
      BY <1>1, <2>2, <2>4 DEF Remotes
    <2>6. HereOrTaken \ HereOrTaken' \subseteq {r} /\ HereOrTaken' \subseteq HereOrTaken
      BY <1>4, <2>1, <2>5 DEF HereOrTaken
    <2>7. WorldOK'
      BY <1>1, <2>5, <2>6 DEF WorldOK
    <2>8. StoreOK(Store, HereOrTaken', remote.made)
      <3>1. \A q \in HereOrTaken \ HereOrTaken' :
              /\ \A f \in FileIds : ~BoundTo(Store.files, f, q)
              /\ \A i \in DOMAIN Store.ops : ~CopyOf(Store.ops[i], q)
        BY <1>0, <2>3, <2>6 DEF Unwanted
      <3> QED BY <1>0, <3>1, LessThere
    <2> QED BY <1>5, <2>5, <2>7, <2>8
  <1>10. CASE drain.pc = "rmdir"
    <2> DEFINE d == drain.op.at.dir
    <2>1. d \in Notebooks
      BY <1>2, <1>10 DEF OpUnderWay, KindsAt, OwedOps, OpOK
    <2>2. remote' = DirGone(remote, d)
      BY <1>10 DEF Done
    <2>3. \A r \in FilesThere(remote, d) : Unwanted(r)
      BY <1>2, <1>10 DEF RmdirOK
    <2> HIDE DEF d
    <2>4. /\ remote' \in Remotes /\ remote'.made = remote.made
          /\ \A i \in Ids : remote'.files[i] = IF i \in FilesThere(remote, d) THEN NoFile ELSE remote.files[i]
      BY <1>1, <2>1, <2>2, EmptiedIs
    <2>6. HereOrTaken \ HereOrTaken' \subseteq FilesThere(remote, d) /\ HereOrTaken' \subseteq HereOrTaken
      BY <2>4 DEF HereOrTaken
    <2>7. WorldOK'
      BY <1>1, <2>4, <2>6 DEF WorldOK
    <2>8. StoreOK(Store, HereOrTaken', remote.made)
      <3>1. \A q \in HereOrTaken \ HereOrTaken' :
              /\ \A f \in FileIds : ~BoundTo(Store.files, f, q)
              /\ \A i \in DOMAIN Store.ops : ~CopyOf(Store.ops[i], q)
        BY <1>0, <2>3, <2>6 DEF Unwanted
      <3> QED BY <1>0, <3>1, LessThere
    <2> QED BY <1>5, <2>4, <2>7, <2>8
  <1>11. CASE drain.pc = "mkdir"
    <2>1. drain.op.at.dir \in Folders
      BY <1>2, <1>11 DEF OpUnderWay, KindsAt, OwedOps, OpOK, Notebooks
    <2>2. remote' = DirMade(remote, drain.op.at.dir)
      BY <1>11 DEF Done
    <2> QED BY <1>1, <1>6, <2>1, <2>2, DirMadeIs
  <1> QED BY <1>7, <1>8, <1>9, <1>10, <1>11

-----------------------------------------------------------------------------
(* The turns of the drain.                                                   *)

Outcomes == {"none", "ok", "retry", "blocked", "stopped"}

\* The remote stays as it is, and so does what is known to be there.
LEMMA RemoteUnmoved ==
  ASSUME IInv, UNCHANGED remote, DOMAIN past' = Kept, past'.taken = past.taken, past'.strays \subseteq Ids,
         play' \in Play, outcome' \in Outcomes
  PROVE  /\ OutsideOK' /\ WorldOK' /\ HereOrTaken' = HereOrTaken
         /\ Fine(Store, Store, files, HereOrTaken', remote'.made)
  <1>1. OutsideOK /\ WorldOK
    BY DEF IInv, TypeOK
  <1>2. HereOrTaken' = HereOrTaken
    BY DEF HereOrTaken
  <1>3. WorldOK' /\ OutsideOK'
    BY <1>1, <1>2 DEF WorldOK, OutsideOK, Outcomes
  <1>4. Fine(Store, Store, files, HereOrTaken, remote.made)
    BY WhatHolds, FineItself
  <1> QED BY <1>2, <1>3, <1>4

\* Likewise, with nothing else of the outside changed.
LEMMA AllUnmoved ==
  ASSUME IInv, UNCHANGED <<remote, past, play>>, outcome' \in Outcomes
  PROVE  /\ OutsideOK' /\ WorldOK' /\ HereOrTaken' = HereOrTaken
         /\ Fine(Store, Store, files, HereOrTaken', remote'.made)
  <1>1. OutsideOK
    BY DEF IInv, TypeOK
  <1> QED BY <1>1, RemoteUnmoved DEF OutsideOK

\* The outcome is one.
LEMMA OutcomeIs ==
  ASSUME IInv
  PROVE  outcome \in Outcomes
  BY DEF IInv, TypeOK, OutsideOK, Outcomes

\* The store stays as it is.
LEMMA StoreStays ==
  ASSUME UNCHANGED <<files, dirs, ops>>
  PROVE  Becomes(Store)
  BY DEF Becomes, Store

\* The op a turn is about is in the queue, once.
LEMMA TurnsOp ==
  ASSUME IInv, NEW op \in Now
  PROVE  /\ drain.todo # <<>> /\ op.tag = Head(drain.todo) /\ op \in OwedOps
         /\ \E i \in DOMAIN ops : op = ops[i]
         /\ \A i \in DOMAIN ops : ops[i].tag = op.tag => ops[i] = op
         /\ op.at \in Paths /\ op.to \in Paths /\ op.copyOf \in Ids \cup {NoFile}
  <1>1. drain.todo # <<>> /\ op \in ByTag(Store, Head(drain.todo))
    BY DEF Now
  <1>2. op.tag = Head(drain.todo) /\ \E i \in DOMAIN ops : op = ops[i]
    BY <1>1 DEF ByTag, Queued, Store
  <1>3. TagsApart(ops)
    BY WhatHolds DEF StoreOK
  <1>4. op \in OwedOps
    BY <1>2, WhatHolds
  <1>5. op.at \in Paths /\ op.to \in Paths /\ op.copyOf \in Ids \cup {NoFile}
    BY <1>4 DEF OwedOps, QueuedOps
  <1> QED BY <1>1, <1>2, <1>3, <1>4, <1>5 DEF TagsApart

\* The run ends.
LEMMA DrainEndsKeeps ==
  ASSUME IInv, DrainEnds PROVE IInv'
  <1>1. drain' = Rest /\ outcome' = Drained /\ UNCHANGED <<files, dirs, ops, remote, past, play>>
    BY DEF DrainEnds, Ends
  <1>2. outcome' \in Outcomes
    BY <1>1 DEF Drained, Outcomes
  <1>3. OutsideOK' /\ WorldOK' /\ Fine(Store, Store, files, HereOrTaken', remote'.made)
    BY <1>1, <1>2, AllUnmoved
  <1>4. Becomes(Store)
    BY <1>1, StoreStays
  <1> QED BY <1>1, <1>3, <1>4, AfterEnd DEF Fine

\* An op withdrawn since it was read.
LEMMA PassOverKeeps ==
  ASSUME IInv, PassOver PROVE IInv'
  <1>1. /\ drain.pc = "turn" /\ drain.todo # <<>> /\ Now = {} /\ drain' = NextTurn
        /\ UNCHANGED <<files, dirs, ops, remote, outcome, past, play>>
    BY DEF PassOver, Turn
  <1>2. OutsideOK' /\ WorldOK' /\ Fine(Store, Store, files, HereOrTaken', remote'.made)
    BY <1>1, OutcomeIs, AllUnmoved
  <1>3. \A i \in DOMAIN Store.ops : Store.ops[i].tag # Head(drain.todo)
    BY <1>1 DEF Now, ByTag, Queued
  <1>4. /\ drain.copying \in SUBSET (Ids \cup {NoFile}) /\ drain.holding \in SUBSET Paths
        /\ drain.failed \in BOOLEAN /\ drain.stuck \in BOOLEAN
    BY WhatHolds DEF Drains
  <1>5. Onward(NextTurn, drain.copying, drain.holding, drain.failed, drain.stuck)
    BY <1>1, NextTurnIs
  <1>6. drain.copying # {} \/ drain.holding # {} => drain.failed \/ drain.stuck
    BY DEF IInv, RunOK
  <1>7. Becomes(Store)
    BY <1>1, StoreStays
  <1>8. GoesOn(Store, drain.copying, drain.holding, drain.failed, drain.stuck)
    BY <1>1, <1>2, <1>3, <1>4, <1>5, <1>6, <1>7 DEF GoesOn
  <1> HIDE DEF IInv
  <1> QED BY <1>1, <1>2, <1>8, AfterTurn

\* What is held back is remembered, and so is what it copies.
LEMMA HoldBackKeeps ==
  ASSUME IInv, HoldBack PROVE IInv'
  <1>1. PICK op \in Now :
          /\ AwaitsCopy(op)
          /\ drain' = HeldBack(op, NextTurn)
    BY DEF HoldBack
  <1>2. /\ drain.pc = "turn" /\ UNCHANGED <<files, dirs, ops, remote, outcome, play>>
        /\ \E crossed : past' = [past EXCEPT !.crossed = crossed]
    BY DEF HoldBack, Turn
  <1>3. OutsideOK' /\ WorldOK' /\ Fine(Store, Store, files, HereOrTaken', remote'.made)
    <2>1. OutsideOK
      BY DEF IInv, TypeOK
    <2>2. DOMAIN past' = Kept /\ past'.taken = past.taken /\ past'.strays \subseteq Ids /\ play' \in Play
      BY <1>2, <2>1 DEF OutsideOK, Kept
    <2> QED BY <1>2, <2>2, OutcomeIs, RemoteUnmoved
  <1>4. /\ drain.todo # <<>> /\ op.tag = Head(drain.todo)
        /\ \A i \in DOMAIN ops : ops[i].tag = op.tag => ops[i] = op
        /\ op.at \in Paths /\ op.copyOf \in Ids \cup {NoFile}
    BY TurnsOp
  <1> DEFINE C == IF op.kind = "upload" THEN drain.copying \cup {op.copyOf} ELSE drain.copying
             H == IF op.kind = "rmdir" THEN drain.holding ELSE drain.holding \cup {op.at}
  <1>5. /\ drain.copying \in SUBSET (Ids \cup {NoFile}) /\ drain.holding \in SUBSET Paths
        /\ drain.failed \in BOOLEAN /\ drain.stuck \in BOOLEAN
    BY WhatHolds DEF Drains
  <1>6. C \in SUBSET (Ids \cup {NoFile}) /\ H \in SUBSET Paths /\ drain.copying \subseteq C
    BY <1>4, <1>5
  <1>7. Onward(drain', C, H, drain.failed, drain.stuck)
    <2>1. Onward(NextTurn, drain.copying, drain.holding, drain.failed, drain.stuck)
      BY <1>4, NextTurnIs
    <2>2. drain' = [[NextTurn EXCEPT !.holding = H] EXCEPT !.copying = C]
      BY <1>1, <2>1 DEF Onward, HeldBack
    <2>3. Onward([NextTurn EXCEPT !.holding = H], drain.copying, H, drain.failed, drain.stuck)
      BY <1>5, <1>6, <2>1, NextTurnMore
    <2> HIDE DEF C, H
    <2> QED BY <1>5, <1>6, <2>2, <2>3, NextTurnMore
  <1>8. drain.failed \/ drain.stuck
    <2>1. drain.copying # {} \/ drain.holding # {}
      BY <1>1 DEF AwaitsCopy
    <2> QED BY <2>1 DEF IInv, RunOK
  <1>9. Becomes(Store) /\ Store.ops = ops
    BY <1>2, StoreStays DEF Store
  <1>10. op.kind = "upload" => op.copyOf \in C
    OBVIOUS
  <1> HIDE DEF C, H
  <1>11. GoesOn(Store, C, H, drain.failed, drain.stuck)
    BY <1>3, <1>4, <1>5, <1>6, <1>7, <1>8, <1>9, <1>10 DEF GoesOn
  <1> HIDE DEF IInv
  <1> QED BY <1>2, <1>3, <1>4, <1>11, AfterTurn

\* An op out of attempts: given up on, stepped over, or the end of the run.
LEMMA OutOfAttemptsKeeps ==
  ASSUME IInv, OutOfAttempts PROVE IInv'
  <1>1. PICK op \in Now :
          CASE op.kind = "rmdir"  -> Settled(Store, op) /\ past' = [past EXCEPT !.gaveUp = TRUE]
                                     /\ UNCHANGED outcome
            [] op.kind = "upload" -> /\ drain' = [StepOver(op, NextTurn) EXCEPT !.stuck = TRUE]
                                     /\ UNCHANGED <<files, dirs, ops, outcome, past>>
            [] OTHER -> Ends("blocked") /\ UNCHANGED <<files, dirs, ops, past>>
    BY DEF OutOfAttempts
  <1>2. drain.pc = "turn" /\ UNCHANGED <<remote, play>>
    BY DEF OutOfAttempts, Turn
  <1>3. /\ drain.todo # <<>> /\ op.tag = Head(drain.todo)
        /\ \A i \in DOMAIN ops : ops[i].tag = op.tag => ops[i] = op
        /\ op.copyOf \in Ids \cup {NoFile}
    BY TurnsOp
  <1>4. OutsideOK
    BY DEF IInv, TypeOK
  <1>5. CASE op.kind = "rmdir"
    <2>1. Settled(Store, op) /\ past' = [past EXCEPT !.gaveUp = TRUE] /\ UNCHANGED outcome
      BY <1>1, <1>5
    <2>2. DOMAIN past' = Kept /\ past'.taken = past.taken /\ past'.strays \subseteq Ids /\ play' \in Play
      BY <1>2, <1>4, <2>1 DEF OutsideOK, Kept
    <2>3. OutsideOK' /\ WorldOK' /\ Fine(Store, Store, files, HereOrTaken', remote'.made)
      BY <1>2, <2>1, <2>2, OutcomeIs, RemoteUnmoved
    <2> HIDE DEF IInv
    <2> QED BY <1>2, <1>3, <2>1, <2>3, AfterSettled
  <1>6. CASE op.kind = "upload"
    <2>1. /\ drain' = [StepOver(op, NextTurn) EXCEPT !.stuck = TRUE]
          /\ UNCHANGED <<files, dirs, ops, outcome, past>>
      BY <1>1, <1>6
    <2>2. OutsideOK' /\ WorldOK' /\ Fine(Store, Store, files, HereOrTaken', remote'.made)
      BY <1>2, <2>1, OutcomeIs, AllUnmoved
    <2> DEFINE C == drain.copying \cup {op.copyOf}
    <2>3. /\ C \in SUBSET (Ids \cup {NoFile}) /\ drain.holding \in SUBSET Paths
          /\ drain.failed \in BOOLEAN /\ drain.copying \subseteq C /\ op.copyOf \in C
      BY <1>3, WhatHolds DEF Drains
    <2>4. Onward(drain', C, drain.holding, drain.failed, TRUE)
      <3>1. Onward(NextTurn, drain.copying, drain.holding, drain.failed, drain.stuck)
        BY <1>3, NextTurnIs
      <3>2. drain' = [[NextTurn EXCEPT !.copying = C] EXCEPT !.stuck = TRUE]
        BY <2>1, <3>1 DEF StepOver, Onward
      <3>3. Onward([NextTurn EXCEPT !.copying = C], C, drain.holding, drain.failed, drain.stuck)
        BY <2>3, <3>1, NextTurnMore
      <3> HIDE DEF C
      <3> QED BY <3>2, <3>3, NextTurnMore
    <2>5. Becomes(Store) /\ Store.ops = ops
      BY <2>1, StoreStays DEF Store
    <2> HIDE DEF C
    <2>6. GoesOn(Store, C, drain.holding, drain.failed, TRUE)
      BY <1>3, <2>2, <2>3, <2>4, <2>5 DEF GoesOn
    <2> DEFINE yes == TRUE
    <2>7. GoesOn(Store, C, drain.holding, drain.failed, yes)
      BY <2>6
    <2> HIDE DEF IInv, yes
    <2> QED BY <1>2, <1>3, <2>2, <2>7, AfterTurn
  <1>7. CASE op.kind \notin {"rmdir", "upload"}
    <2>1. drain' = Rest /\ outcome' = "blocked" /\ UNCHANGED <<files, dirs, ops, past>>
      BY <1>1, <1>7 DEF Ends
    <2>2. OutsideOK' /\ WorldOK' /\ Fine(Store, Store, files, HereOrTaken', remote'.made)
      BY <1>2, <2>1, AllUnmoved DEF Outcomes
    <2>3. Becomes(Store)
      BY <2>1, StoreStays
    <2> QED BY <2>1, <2>2, <2>3, AfterEnd DEF Fine
  <1> QED BY <1>5, <1>6, <1>7

\* Between two turns' ends, with the store as it was.
LEMMA Aboard ==
  ASSUME IInv, drain.pc # "idle", UNCHANGED <<files, dirs, ops>>, drain' \in Drains, drain'.pc # "idle",
         drain'.todo = drain.todo, drain'.read = drain.read, drain'.copying = drain.copying,
         drain'.holding = drain.holding, drain'.failed = drain.failed, drain'.stuck = drain.stuck,
         StoreOK(Store, HereOrTaken', remote'.made), WorldOK', OutsideOK', FlightOK'
  PROVE  IInv'
  <1>1. Store' = Store
    BY DEF Store
  <1>2. TypeOK' /\ QueueOK'
    BY <1>1, WhatHolds DEF TypeOK, QueueOK
  <1>3. RunOK'
    BY DEF IInv, RunOK, InTodo
  <1> QED BY <1>2, <1>3 DEF IInv

\* A request begun, and what stays of the run.
LEMMA AnyOp ==
  ASSUME IInv, NEW op \in Now, NEW pc \in Calls, NEW at \in Paths, NEW from \in Ids \cup {NoFile},
         Turn, Goes(op, pc, at, from)
  PROVE  /\ drain' \in Drains /\ drain'.pc = pc /\ drain'.op = op /\ drain'.at = at /\ drain'.from = from
         /\ drain'.todo = drain.todo /\ drain'.read = drain.read /\ drain'.copying = drain.copying
         /\ drain'.holding = drain.holding /\ drain'.failed = drain.failed /\ drain'.stuck = drain.stuck
         /\ drain.pc # "idle" /\ drain'.pc # "idle"
  <1>1. drain \in Drains
    BY WhatHolds
  <1>2. op \in OwedOps
    BY TurnsOp
  <1>3. drain' = [drain EXCEPT !.pc = pc, !.op = op, !.at = at, !.sent = at, !.from = from]
    BY DEF Goes
  <1> QED BY <1>1, <1>2, <1>3 DEF Drains, Stages, Turn, Calls

\* A turn begins a request: what there is to show of it.
LEMMA Begins ==
  ASSUME IInv, NEW op \in Now, NEW pc \in Calls, NEW at \in Paths, NEW from \in Ids \cup {NoFile},
         Turn, Goes(op, pc, at, from), UNCHANGED <<files, dirs, ops, remote, outcome, past, play>>,
         op.kind \in KindsAt(pc),
         pc # "rmdir", UploadOK', MoveOK', FetchOK', RemoveOK'
  PROVE  IInv'
  <1>1. /\ drain' \in Drains /\ drain'.pc = pc /\ drain'.op = op /\ drain'.at = at
        /\ drain'.todo = drain.todo /\ drain'.read = drain.read /\ drain'.copying = drain.copying
        /\ drain'.holding = drain.holding /\ drain'.failed = drain.failed /\ drain'.stuck = drain.stuck
        /\ drain.pc # "idle" /\ drain'.pc # "idle"
    BY AnyOp
  <1>2. /\ drain.todo # <<>> /\ op.tag = Head(drain.todo) /\ op \in OwedOps
        /\ \A i \in DOMAIN ops : ops[i].tag = op.tag => ops[i] = op
    BY TurnsOp
  <1>4. OpUnderWay'
    BY <1>1, <1>2 DEF OpUnderWay
  <1>5. MetOK' /\ SettleOK' /\ RmdirOK'
    BY <1>1 DEF MetOK, SettleOK, RmdirOK, Calls
  <1>6. FlightOK'
    BY <1>4, <1>5 DEF FlightOK
  <1>7. OutsideOK' /\ WorldOK' /\ Fine(Store, Store, files, HereOrTaken', remote'.made)
    BY OutcomeIs, AllUnmoved
  <1>8. StoreOK(Store, HereOrTaken', remote'.made)
    BY <1>7 DEF Fine
  <1> HIDE DEF IInv
  <1> QED BY <1>1, <1>6, <1>7, <1>8, Aboard

-----------------------------------------------------------------------------
(* The requests begun.                                                       *)

\* An op done with, the remote as it was.
LEMMA SettledAsIs ==
  ASSUME IInv, drain.pc # "idle", drain.todo # <<>>, NEW op, op.tag = Head(drain.todo),
         NEW s, Fine(Store, s, files, HereOrTaken, remote.made), Settled(s, op),
         UNCHANGED <<remote, outcome, past, play>>
  PROVE  IInv'
  <1>1. OutsideOK' /\ WorldOK' /\ HereOrTaken' = HereOrTaken
    BY OutcomeIs, AllUnmoved
  <1>2. Fine(Store, s, files, HereOrTaken', remote'.made)
    BY <1>1
  <1> HIDE DEF IInv
  <1> QED BY <1>1, <1>2, AfterSettled

\* The store as it is is fine.
LEMMA StoreFine ==
  ASSUME IInv
  PROVE  Fine(Store, Store, files, HereOrTaken, remote.made)
  BY WhatHolds, FineItself

\* An upload begins: its bytes are here or its original was.
LEMMA BeginUploadKeeps ==
  ASSUME IInv, BeginUpload PROVE IInv'
  <1>1. PICK op \in Now :
          /\ op.kind = "upload"
          /\ LET row == files[op.file]
             IN  IF row = NoRow \/ row.remote # NoFile THEN Settled(Store, op)
                 ELSE IF ~row.held /\ op.copyOf = NoFile THEN Settled(ForgetFile(Store, op.file), op)
                 ELSE Goes(op, IF row.held THEN "send" ELSE "fetch", row.at, NoFile)
                      /\ UNCHANGED <<files, dirs, ops>>
    BY DEF BeginUpload
  <1>2. Turn /\ drain.pc # "idle" /\ UNCHANGED <<remote, outcome, past, play>>
    BY DEF BeginUpload, Turn
  <1>3. /\ drain.todo # <<>> /\ op.tag = Head(drain.todo) /\ op \in OwedOps
        /\ \E i \in DOMAIN ops : op = ops[i]
    BY TurnsOp
  <1> DEFINE row == files[op.file]
  <1>4. op.file \in FileIds
    BY <1>1, <1>3 DEF OwedOps, OpOK
  <1>5. CASE row = NoRow \/ row.remote # NoFile
    BY <1>1, <1>2, <1>3, <1>5, StoreFine, SettledAsIs
  <1>6. CASE ~(row = NoRow \/ row.remote # NoFile) /\ ~row.held /\ op.copyOf = NoFile
    <2>1. Settled(ForgetFile(Store, op.file), op)
      BY <1>1, <1>6
    <2>2. Fine(Store, ForgetFile(Store, op.file), files, HereOrTaken, remote.made)
      BY <1>4, WhatHolds, ForgetFileOK
    <2> HIDE DEF IInv
    <2> QED BY <1>2, <1>3, <2>1, <2>2, SettledAsIs
  <1>7. CASE ~(row = NoRow \/ row.remote # NoFile) /\ ~(~row.held /\ op.copyOf = NoFile)
    <2> DEFINE pc == IF row.held THEN "send" ELSE "fetch"
               at == row.at
    <2>1. Goes(op, pc, at, NoFile) /\ UNCHANGED <<files, dirs, ops>>
      BY <1>1, <1>7
    <2>2. pc \in Calls /\ op.kind \in KindsAt(pc) /\ pc # "rmdir" /\ pc # "remove"
      BY <1>1 DEF Calls, KindsAt
    <2>3. at \in Paths
      <3>1. row \in Rows
        BY <1>4, <1>7, WhatHolds
      <3> QED BY <3>1 DEF Rows
    <2>4. pc = "fetch" => op.copyOf # NoFile /\ op.copyOf \in HereOrTaken
      <3>1. \A i \in DOMAIN ops : ops[i].kind = "upload" /\ ops[i].copyOf # NoFile => ops[i].copyOf \in HereOrTaken
        BY WhatHolds DEF StoreOK, NamesMade
      <3> QED BY <1>1, <1>3, <1>7, <3>1
    <2> HIDE DEF pc, at
    <2>5. drain'.pc = pc /\ drain'.op = op
      BY <1>2, <2>1, <2>2, <2>3, AnyOp
    <2>6. UploadOK'
      BY <1>7, <2>1, <2>5 DEF UploadOK, Row
    <2>7. MoveOK' /\ RemoveOK'
      BY <1>1, <2>2, <2>5 DEF MoveOK, RemoveOK
    <2>8. FetchOK'
      BY <1>2, <2>4, <2>5 DEF FetchOK, HereOrTaken
    <2> QED BY <1>2, <2>1, <2>2, <2>3, <2>6, <2>7, <2>8, Begins
  <1> QED BY <1>5, <1>6, <1>7

\* A move begins, of a file no other row has.
LEMMA BeginMoveKeeps ==
  ASSUME IInv, BeginMove PROVE IInv'
  <1>1. PICK op \in Now :
          /\ op.kind = "move-file"
          /\ LET row == files[op.file]
             IN  IF row = NoRow \/ row.remote = NoFile THEN Settled(Store, op)
                 ELSE Goes(op, "move", op.to, row.remote) /\ UNCHANGED <<files, dirs, ops>>
    BY DEF BeginMove
  <1>2. Turn /\ drain.pc # "idle" /\ UNCHANGED <<remote, outcome, past, play>>
    BY DEF BeginMove, Turn
  <1>3. drain.todo # <<>> /\ op.tag = Head(drain.todo) /\ op \in OwedOps /\ op.to \in Paths
    BY TurnsOp
  <1> DEFINE row == files[op.file]
             from == row.remote
  <1>4. op.file \in FileIds
    BY <1>1, <1>3 DEF OwedOps, OpOK
  <1>5. CASE row = NoRow \/ row.remote = NoFile
    BY <1>1, <1>2, <1>3, <1>5, StoreFine, SettledAsIs
  <1>6. CASE ~(row = NoRow \/ row.remote = NoFile)
    <2>1. Goes(op, "move", op.to, from) /\ UNCHANGED <<files, dirs, ops>>
      BY <1>1, <1>6
    <2>2. "move" \in Calls /\ op.kind \in KindsAt("move")
      BY <1>1 DEF Calls, KindsAt
    <2>3. from \in Ids
      <3>1. row \in Rows
        BY <1>4, <1>6, WhatHolds
      <3> QED BY <1>6, <3>1 DEF Rows
    <2>4. \A f \in FileIds : BoundTo(files, f, from) => f = op.file
      <3>1. OneRowPerFile(files)
        BY WhatHolds DEF StoreOK
      <3>2. Bound(files[op.file])
        BY <1>6 DEF Bound
      <3> QED BY <1>4, <3>1, <3>2 DEF OneRowPerFile
    <2>5. drain'.pc = "move" /\ drain'.op = op /\ drain'.from = from
      BY <1>2, <1>3, <2>1, <2>2, <2>3, AnyOp
    <2>6. MoveOK'
      BY <1>6, <2>1, <2>3, <2>4, <2>5 DEF MoveOK, OthersBoundTo, Row, BoundTo
    <2>7. UploadOK' /\ FetchOK' /\ RemoveOK'
      BY <1>1, <2>5 DEF UploadOK, FetchOK, RemoveOK
    <2> HIDE DEF from
    <2> QED BY <1>2, <1>3, <2>1, <2>2, <2>3, <2>6, <2>7, Begins
  <1> QED BY <1>5, <1>6

\* What a delete that goes is about, nothing here copies.
LEMMA BeginDeleteKeeps ==
  ASSUME IInv, BeginDelete PROVE IInv'
  <1>1. PICK op \in Now : ~AwaitsCopy(op) /\ op.kind = "delete-file" /\ Goes(op, "remove", op.at, NoFile)
    BY DEF BeginDelete, Ready
  <1>2. Turn /\ drain.pc # "idle" /\ UNCHANGED <<files, dirs, ops, remote, outcome, past, play>>
    BY DEF BeginDelete, Turn
  <1>3. /\ drain.todo # <<>> /\ op.tag = Head(drain.todo) /\ op \in OwedOps /\ op.at \in Paths
        /\ \E i \in DOMAIN ops : op = ops[i]
    BY TurnsOp
  <1>4. "remove" \in Calls /\ op.kind \in KindsAt("remove")
    BY <1>1 DEF Calls, KindsAt
  <1>5. drain'.pc = "remove" /\ drain'.op = op
    BY <1>1, <1>2, <1>3, <1>4, AnyOp
  <1>6. Unwanted(op.remote)
    <2>1. PICK j \in DOMAIN ops : op = ops[j]
      BY <1>3
    <2>2. \A f \in FileIds : ~BoundTo(files, f, op.remote)
      BY <1>1, <2>1, WhatHolds DEF StoreOK, DeletedUnbound
    <2>3. ASSUME NEW i \in DOMAIN ops, CopyOf(ops[i], op.remote) PROVE FALSE
      <3>1. drain.todo \in Seq(Nat) /\ RunOK
        BY WhatHolds DEF IInv
      <3>2. 1 \in DOMAIN drain.todo /\ drain.todo[1] = op.tag /\ \A m \in DOMAIN drain.todo : ~(m < 1)
        BY <1>3, <3>1
      <3>3. op.remote \in drain.copying
        BY <1>1, <2>1, <2>3, <3>1, <3>2 DEF RunOK
      <3> QED BY <1>1, <3>3 DEF AwaitsCopy
    <2> QED BY <2>2, <2>3 DEF Unwanted
  <1>7. RemoveOK'
    BY <1>2, <1>5, <1>6 DEF RemoveOK, Unwanted
  <1>8. UploadOK' /\ MoveOK' /\ FetchOK'
    BY <1>1, <1>5 DEF UploadOK, MoveOK, FetchOK
  <1> QED BY <1>1, <1>2, <1>3, <1>4, <1>7, <1>8, Begins

\* An rmdir begins.
LEMMA BeginRmdirKeeps ==
  ASSUME IInv, BeginRmdir PROVE IInv'
  <1>1. PICK op \in Now :
          /\ op.kind = "rmdir"
          /\ IF TheUsersAgain(op) THEN Settled(Store, op)
             ELSE Goes(op, "look", op.at, NoFile) /\ UNCHANGED <<files, dirs, ops>>
    BY DEF BeginRmdir
  <1>2. Turn /\ drain.pc # "idle" /\ UNCHANGED <<remote, outcome, past, play>>
    BY DEF BeginRmdir, Turn
  <1>3. drain.todo # <<>> /\ op.tag = Head(drain.todo) /\ op.at \in Paths
    BY TurnsOp
  <1>4. CASE TheUsersAgain(op)
    BY <1>1, <1>2, <1>3, <1>4, StoreFine, SettledAsIs
  <1>5. CASE ~TheUsersAgain(op)
    <2>1. Goes(op, "look", op.at, NoFile) /\ UNCHANGED <<files, dirs, ops>>
      BY <1>1, <1>5
    <2>2. "look" \in Calls /\ op.kind \in KindsAt("look")
      BY <1>1 DEF Calls, KindsAt
    <2>3. drain'.pc = "look" /\ drain'.op = op
      BY <1>2, <1>3, <2>1, <2>2, AnyOp
    <2>4. UploadOK' /\ MoveOK' /\ FetchOK' /\ RemoveOK'
      BY <1>1, <2>3 DEF UploadOK, MoveOK, FetchOK, RemoveOK
    <2> QED BY <1>2, <1>3, <2>1, <2>2, <2>4, Begins
  <1> QED BY <1>4, <1>5

\* A mkdir begins.
LEMMA BeginMkdirKeeps ==
  ASSUME IInv, BeginMkdir PROVE IInv'
  <1>1. PICK op \in Now : op.kind = "mkdir" /\ Goes(op, "mkdir", op.at, NoFile)
    BY DEF BeginMkdir
  <1>2. Turn /\ drain.pc # "idle" /\ UNCHANGED <<files, dirs, ops, remote, outcome, past, play>>
    BY DEF BeginMkdir, Turn
  <1>3. op.at \in Paths /\ "mkdir" \in Calls /\ op.kind \in KindsAt("mkdir")
    BY <1>1, TurnsOp DEF Calls, KindsAt
  <1>4. drain'.pc = "mkdir" /\ drain'.op = op
    BY <1>1, <1>2, <1>3, AnyOp
  <1>5. UploadOK' /\ MoveOK' /\ FetchOK' /\ RemoveOK'
    BY <1>1, <1>4 DEF UploadOK, MoveOK, FetchOK, RemoveOK
  <1> QED BY <1>1, <1>2, <1>3, <1>5, Begins

-----------------------------------------------------------------------------
(* The answers.                                                              *)

\* What is known of the request under way.
LEMMA UnderWay ==
  ASSUME IInv, drain.pc \notin {"idle", "turn"}
  PROVE  /\ drain.op \in OwedOps /\ drain.op.kind \in KindsAt(drain.pc) /\ drain.at \in Paths
         /\ drain.todo # <<>> /\ drain.op.tag = Head(drain.todo) /\ drain.pc # "idle"
         /\ OpUnderWay /\ UploadOK /\ MoveOK /\ FetchOK /\ MetOK /\ SettleOK /\ RemoveOK /\ RmdirOK
  <1>1. /\ OpUnderWay /\ UploadOK /\ MoveOK /\ FetchOK /\ MetOK /\ SettleOK /\ RemoveOK /\ RmdirOK
    BY DEF IInv, FlightOK, Flight
  <1> QED BY <1>1 DEF OpUnderWay

\* What the store is when nothing but the remote changed.
LEMMA StoreThen ==
  ASSUME IInv, StoreOK(Store, HereOrTaken', remote'.made)
  PROVE  Fine(Store, Store, files, HereOrTaken', remote'.made)
  BY WhatHolds, FineItself

\* The entry the remote answers with is of a file that is there.
LEMMA EntryIs ==
  ASSUME NEW w \in Remotes, drain.at \in Paths, AtName(w, drain.at) # {}
  PROVE  /\ Entry(w) \in Answers /\ Entry(w).id \in AtName(w, drain.at) /\ Entry(w).id \in Ids
         /\ w.files[Entry(w).id] # NoFile
  <1> DEFINE i == CHOOSE i \in AtName(w, drain.at) : TRUE
  <1>1. i \in AtName(w, drain.at)
    OBVIOUS
  <1>2. Entry(w) = [id |-> i, at |-> drain.at, ours |-> w.files[i].ours]
    BY DEF Entry
  <1> HIDE DEF i
  <1>3. i \in Ids /\ w.files[i] # NoFile
    BY <1>1 DEF AtName
  <1>4. w.files[i] \in Entries
    BY <1>3 DEF Remotes
  <1>5. w.files[i].ours \in BOOLEAN
    BY <1>4 DEF Entries
  <1> QED BY <1>1, <1>2, <1>3, <1>5 DEF Answers

\* The drain as it is.
LEMMA DrainIs ==
  ASSUME IInv PROVE drain \in Drains
  BY DEF IInv, TypeOK

\* The stages after the first.
LEMMA LaterStages == {"send", "move", "met", "settle", "rmdir"} \subseteq Stages
  BY DEF Stages, Calls

\* The request is at another stage.
Going(r, s, pc, at, e) ==
  /\ s \in Drains /\ s.pc = pc /\ s.at = at /\ s.entry = e /\ s.op = r.op /\ s.from = r.from
  /\ s.todo = r.todo /\ s.read = r.read /\ s.copying = r.copying /\ s.holding = r.holding
  /\ s.failed = r.failed /\ s.stuck = r.stuck

LEMMA StageIs ==
  ASSUME NEW r \in Drains, NEW pc \in Stages, NEW at \in Paths, NEW e \in Answers \cup {NoFile}
  PROVE  /\ Going(r, [r EXCEPT !.pc = pc], pc, r.at, r.entry)
         /\ Going(r, [r EXCEPT !.entry = e, !.pc = pc], pc, r.at, e)
         /\ Going(r, [r EXCEPT !.pc = pc, !.at = at, !.entry = e], pc, at, e)
  <1> USE DEF Going, Drains
  <1>1. Going(r, [r EXCEPT !.pc = pc], pc, r.at, r.entry)
    OBVIOUS
  <1>2. Going(r, [r EXCEPT !.entry = e, !.pc = pc], pc, r.at, e)
    OBVIOUS
  <1>3. Going(r, [r EXCEPT !.pc = pc, !.at = at, !.entry = e], pc, at, e)
    OBVIOUS
  <1> QED BY <1>1, <1>2, <1>3

\* The original is read, or found gone.
LEMMA FetchedKeeps ==
  ASSUME IInv, Fetched PROVE IInv'
  <1>1. drain.pc = "fetch" /\ UNCHANGED <<remote, outcome, past, play>>
    BY DEF Fetched
  <1>2. /\ drain.op \in OwedOps /\ drain.op.kind = "upload" /\ drain.at \in Paths
        /\ drain.todo # <<>> /\ drain.op.tag = Head(drain.todo)
        /\ OpUnderWay /\ UploadOK
    BY <1>1, UnderWay DEF KindsAt
  <1>3. CASE drain' = [drain EXCEPT !.pc = "send"] /\ UNCHANGED <<files, dirs, ops>>
    <2>1. /\ drain' \in Drains /\ drain'.pc = "send" /\ drain'.op = drain.op /\ drain'.at = drain.at
          /\ drain'.todo = drain.todo /\ drain'.read = drain.read /\ drain'.copying = drain.copying
          /\ drain'.holding = drain.holding /\ drain'.failed = drain.failed /\ drain'.stuck = drain.stuck
      <3>0. drain \in Drains
        BY DrainIs
      <3>1. "send" \in Stages
        BY LaterStages, Zenon
      <3>2. Going(drain, drain', "send", drain.at, drain.entry)
        BY <1>2, <1>3, <3>0, <3>1, StageIs, Zenon
      <3> QED BY <3>2 DEF Going
    <2>2. "upload" \in KindsAt("send")
      BY DEF KindsAt
    <2>3. OpUnderWay' /\ UploadOK'
      BY <1>2, <1>3, <2>1, <2>2 DEF OpUnderWay, UploadOK, Row
    <2>4. MoveOK' /\ FetchOK' /\ MetOK' /\ SettleOK' /\ RemoveOK' /\ RmdirOK'
      BY <1>2, <2>1 DEF MoveOK, FetchOK, MetOK, SettleOK, RemoveOK, RmdirOK
    <2>5. FlightOK'
      BY <2>3, <2>4 DEF FlightOK
    <2>6. OutsideOK' /\ WorldOK' /\ Fine(Store, Store, files, HereOrTaken', remote'.made)
      BY <1>1, OutcomeIs, AllUnmoved
    <2>7. StoreOK(Store, HereOrTaken', remote'.made)
      BY <2>6 DEF Fine
    <2> HIDE DEF IInv
    <2> QED BY <1>1, <1>3, <2>1, <2>5, <2>6, <2>7, Aboard
  <1>4. CASE Settled(ForgetFile(Store, drain.op.file), drain.op)
    <2>1. drain.op.file \in FileIds
      BY <1>2 DEF OwedOps, OpOK
    <2>2. Fine(Store, ForgetFile(Store, drain.op.file), files, HereOrTaken, remote.made)
      BY <2>1, WhatHolds, ForgetFileOK
    <2> HIDE DEF IInv
    <2> QED BY <1>1, <1>2, <1>4, <2>2, SettledAsIs
  <1> QED BY <1>3, <1>4 DEF Fetched

\* Sent, there is a file at the name: what was just made, if there was none.
LEMMA SentThere ==
  ASSUME IInv, drain.pc = "send", AtName(remote, drain.at) = {} => remote.made < MaxRemote,
         remote' = Done(remote)
  PROVE  /\ AtName(remote', drain.at) # {}
         /\ AtName(remote, drain.at) = {} => AtName(remote', drain.at) \subseteq {remote.made + 1}
  <1>1. drain.at \in Paths
    BY UnderWay
  <1>2. remote \in Remotes
    BY DEF IInv, TypeOK, OutsideOK
  <1>3. CASE AtName(remote, drain.at) = {}
    <2> DEFINE ours == TRUE
               e == [at |-> drain.at, ours |-> ours]
    <2>1. remote' = Created(remote, drain.at, ours) /\ ours \in BOOLEAN /\ remote.made < MaxRemote
      BY <1>3 DEF Done
    <2> HIDE DEF ours
    <2>2. /\ remote.made + 1 \in Ids
          /\ remote'.files = [remote.files EXCEPT ![remote.made + 1] = e]
      BY <1>1, <1>2, <2>1, CreatedIs
    <2>3. e \in Entries /\ e # NoFile /\ e.at = drain.at
      <3>1. e \in Entries /\ e.at = drain.at
        BY <1>1, <2>1 DEF Entries
      <3> QED BY <3>1, NothingAssumption
    <2> HIDE DEF e
    <2>4. remote.files \in [Ids -> Entries \cup {NoFile}]
      BY <1>2 DEF Remotes
    <2> QED BY <1>3, <2>2, <2>3, <2>4 DEF AtName
  <1>4. CASE AtName(remote, drain.at) # {}
    BY <1>4 DEF Done
  <1> QED BY <1>3, <1>4

\* Sent: what was just made is nobody's.
LEMMA SentToKeeps ==
  ASSUME IInv, SentTo PROVE IInv'
  <1> DEFINE clear == AtName(remote, drain.at) = {}
  <1>1. /\ drain.pc = "send" /\ (clear => remote.made < MaxRemote) /\ remote' = Done(remote)
        /\ drain' = [drain EXCEPT !.entry = Entry(remote'), !.pc = IF clear THEN "settle" ELSE "met"]
        /\ UNCHANGED <<files, dirs, ops, outcome, past, play>>
    BY DEF SentTo
  <1>2. /\ drain.op \in OwedOps /\ drain.op.kind = "upload" /\ drain.at \in Paths
        /\ OpUnderWay /\ UploadOK
    BY <1>1, UnderWay DEF KindsAt
  <1>3. remote' \in Remotes /\ WorldOK' /\ StoreOK(Store, HereOrTaken', remote'.made)
    BY <1>1, DoneOK
  <1>4. OutsideOK'
    BY <1>1, <1>3 DEF OutsideOK, IInv, TypeOK
  <1>5. remote \in Remotes /\ OutsideOK /\ WorldOK
    BY DEF IInv, TypeOK, OutsideOK
  <1>6. /\ AtName(remote', drain.at) # {}
        /\ clear => AtName(remote', drain.at) \subseteq {remote.made + 1}
    BY <1>1, SentThere
  <1> DEFINE e == Entry(remote')
  <1>7. e \in Answers /\ e.id \in AtName(remote', drain.at) /\ e.id \in Ids /\ remote'.files[e.id] # NoFile
    BY <1>2, <1>3, <1>6, EntryIs
  <1>8. e.id \in HereOrTaken'
    BY <1>7 DEF HereOrTaken
  <1> HIDE DEF e, clear
  <1>9. /\ drain' \in Drains /\ drain'.pc = IF clear THEN "settle" ELSE "met"
        /\ drain'.op = drain.op /\ drain'.at = drain.at /\ drain'.entry = e
        /\ drain'.todo = drain.todo /\ drain'.read = drain.read /\ drain'.copying = drain.copying
        /\ drain'.holding = drain.holding /\ drain'.failed = drain.failed /\ drain'.stuck = drain.stuck
    <2> DEFINE pc == IF clear THEN "settle" ELSE "met"
    <2>1. pc \in Stages
      BY LaterStages, Zenon
    <2>2. drain' = [drain EXCEPT !.entry = e, !.pc = pc]
      BY <1>1 DEF e
    <2> HIDE DEF pc
    <2>3. Going(drain, drain', pc, drain.at, e)
      <3>1. drain \in Drains
        BY DrainIs
      <3> QED BY <1>2, <1>7, <2>1, <2>2, <3>1, StageIs, Zenon
    <2> QED BY <2>3 DEF Going, pc
  <1>10. "upload" \in KindsAt("met") /\ "upload" \in KindsAt("settle")
    BY DEF KindsAt
  <1>11. OpUnderWay' /\ UploadOK'
    BY <1>1, <1>2, <1>9, <1>10 DEF OpUnderWay, UploadOK, Row
  <1>12. MoveOK' /\ FetchOK' /\ MetOK' /\ RemoveOK' /\ RmdirOK'
    BY <1>2, <1>7, <1>8, <1>9 DEF MoveOK, FetchOK, MetOK, RemoveOK, RmdirOK
  <1>13. SettleOK'
    <2> SUFFICES ASSUME clear PROVE SettleOK'
      BY <1>9 DEF SettleOK
    <2>1. e.id = remote.made + 1 /\ remote.made \in Nat
      BY <1>5, <1>6, <1>7 DEF Remotes, Ids
    <2>2. \A f \in FileIds : ~BoundTo(files, f, e.id)
      <3> SUFFICES ASSUME NEW f \in FileIds, BoundTo(files, f, e.id) PROVE FALSE
        OBVIOUS
      <3>1. e.id # NoFile
        <4>1. e.id \in Nat
          BY <1>7 DEF Ids
        <4> QED BY <4>1, NothingAssumption
      <3>2. e.id \in HereOrTaken
        BY <3>1, WhatHolds DEF StoreOK, NamesMade, Bound, BoundTo
      <3> QED BY <2>1, <3>2, WhatHolds
    <2>3. \A i \in DOMAIN ops : ~DeleteOf(ops[i], e.id)
      <3> SUFFICES ASSUME NEW i \in DOMAIN ops, DeleteOf(ops[i], e.id) PROVE FALSE
        OBVIOUS
      <3>1. e.id <= remote.made
        BY WhatHolds DEF StoreOK, NamesMade, DeleteOf
      <3> QED BY <2>1, <3>1
    <2> QED BY <1>1, <1>9, <2>2, <2>3 DEF SettleOK, OthersBoundTo
  <1>14. FlightOK'
    BY <1>11, <1>12, <1>13 DEF FlightOK
  <1>15. drain.pc # "idle" /\ drain'.pc # "idle"
    BY <1>1, <1>9
  <1> HIDE DEF IInv
  <1> QED BY <1>1, <1>3, <1>4, <1>9, <1>14, <1>15, Aboard

\* Moved, there is a file at the name: the one that was moved, unless another
\* is in the way.
LEMMA MovedThere ==
  ASSUME IInv, drain.pc = "move", remote.files[Moving] # NoFile, remote' = Done(remote)
  PROVE  /\ AtName(remote', drain.at) # {}
         /\ AtName(remote, drain.at) \subseteq {Moving} => AtName(remote', drain.at) \subseteq {Moving}
  <1>1. drain.op.kind = "move-file" /\ drain.at \in Paths /\ MoveOK
    BY UnderWay DEF KindsAt
  <1>2. remote \in Remotes
    BY DEF IInv, TypeOK, OutsideOK
  <1>3. Moving \in Ids
    BY <1>1 DEF MoveOK, Moving
  <1>4. CASE AtName(remote, drain.at) \subseteq {Moving}
    <2> DEFINE v == DirMade(remote, drain.at.dir)
               ours == remote.files[Moving].ours
               e == [at |-> drain.at, ours |-> ours]
    <2>1. remote' = Placed(v, Moving, drain.at, ours)
      BY <1>4 DEF Done
    <2>2. v \in Remotes /\ v.files = remote.files
      <3>1. drain.at.dir \in Folders
        BY <1>1 DEF Paths
      <3> QED BY <1>2, <3>1, DirMadeIs
    <2>3. remote.files \in [Ids -> Entries \cup {NoFile}]
      BY <1>2 DEF Remotes
    <2>4. ours \in BOOLEAN
      BY <1>3, <2>3 DEF Entries
    <2> HIDE DEF v, ours
    <2>5. remote'.files = [remote.files EXCEPT ![Moving] = e]
      BY <1>1, <1>3, <2>1, <2>2, <2>4, PlacedIs
    <2>6. e \in Entries /\ e.at = drain.at
      BY <1>1, <2>4 DEF Entries
    <2>7. e # NoFile
      BY <2>6, NothingAssumption
    <2> HIDE DEF e
    <2> QED BY <1>3, <1>4, <2>3, <2>5, <2>6, <2>7 DEF AtName
  <1>5. CASE ~(AtName(remote, drain.at) \subseteq {Moving})
    <2>1. remote' = remote
      BY <1>5 DEF Done
    <2> QED BY <1>5, <2>1
  <1> QED BY <1>4, <1>5

\* Moved: the file is the row's, or something is in the way.
LEMMA MoveLandedKeeps ==
  ASSUME IInv, MoveLanded PROVE IInv'
  <1> DEFINE free == AtName(remote, drain.at) \subseteq {Moving}
  <1>1. drain.pc = "move" /\ remote' = Done(remote) /\ UNCHANGED <<outcome, past, play>>
    BY DEF MoveLanded
  <1>2. /\ drain.op \in OwedOps /\ drain.op.kind = "move-file" /\ drain.at \in Paths
        /\ drain.todo # <<>> /\ drain.op.tag = Head(drain.todo)
        /\ OpUnderWay /\ MoveOK
    BY <1>1, UnderWay DEF KindsAt
  <1>3. remote' \in Remotes /\ WorldOK' /\ StoreOK(Store, HereOrTaken', remote'.made)
    BY <1>1, DoneOK
  <1>4. OutsideOK'
    BY <1>1, <1>3 DEF OutsideOK, IInv, TypeOK
  <1>5. remote \in Remotes /\ OutsideOK /\ WorldOK
    BY DEF IInv, TypeOK, OutsideOK
  <1>6. CASE remote.files[Moving] = NoFile
    <2>1. Settled(Store, drain.op)
      BY <1>6 DEF MoveLanded
    <2>2. Fine(Store, Store, files, HereOrTaken', remote'.made)
      BY <1>3, StoreThen
    <2> HIDE DEF IInv
    <2> QED BY <1>1, <1>2, <1>3, <1>4, <2>1, <2>2, AfterSettled
  <1>7. CASE remote.files[Moving] # NoFile
    <2>1. /\ drain' = [drain EXCEPT !.entry = Entry(remote'), !.pc = IF free THEN "settle" ELSE "met"]
          /\ UNCHANGED <<files, dirs, ops>>
      BY <1>7 DEF MoveLanded
    <2>2. Moving \in Ids
      BY <1>2 DEF MoveOK, Moving
    <2>3. /\ AtName(remote', drain.at) # {}
          /\ free => AtName(remote', drain.at) \subseteq {Moving}
      BY <1>1, <1>7, MovedThere
    <2> DEFINE e == Entry(remote')
    <2>4. e \in Answers /\ e.id \in AtName(remote', drain.at) /\ e.id \in Ids /\ remote'.files[e.id] # NoFile
      BY <1>2, <1>3, <2>3, EntryIs
    <2>5. e.id \in HereOrTaken'
      BY <2>4 DEF HereOrTaken
    <2> HIDE DEF e, free
    <2>6. /\ drain' \in Drains /\ drain'.pc = IF free THEN "settle" ELSE "met"
          /\ drain'.op = drain.op /\ drain'.at = drain.at /\ drain'.entry = e /\ drain'.from = drain.from
          /\ drain'.todo = drain.todo /\ drain'.read = drain.read /\ drain'.copying = drain.copying
          /\ drain'.holding = drain.holding /\ drain'.failed = drain.failed /\ drain'.stuck = drain.stuck
      <3> DEFINE pc == IF free THEN "settle" ELSE "met"
      <3>1. pc \in Stages
        BY LaterStages, Zenon
      <3>2. drain' = [drain EXCEPT !.entry = e, !.pc = pc]
        BY <2>1 DEF e
      <3> HIDE DEF pc
      <3>3. Going(drain, drain', pc, drain.at, e)
        <4>1. drain \in Drains
          BY DrainIs
        <4> QED BY <1>2, <2>4, <3>1, <3>2, <4>1, StageIs
      <3> QED BY <3>3 DEF Going, pc
    <2>7. "move-file" \in KindsAt("met") /\ "move-file" \in KindsAt("settle")
      BY DEF KindsAt
    <2>8. OpUnderWay'
      BY <1>2, <2>1, <2>6, <2>7 DEF OpUnderWay
    <2>9. MoveOK'
      BY <1>2, <2>1, <2>6 DEF MoveOK, OthersBoundTo, Row
    <2>10. UploadOK' /\ FetchOK' /\ MetOK' /\ RemoveOK' /\ RmdirOK'
      BY <1>2, <2>4, <2>5, <2>6 DEF UploadOK, FetchOK, MetOK, RemoveOK, RmdirOK
    <2>11. SettleOK'
      <3> SUFFICES ASSUME free PROVE SettleOK'
        BY <2>6 DEF SettleOK
      <3>1. e.id = drain.from
        BY <2>3, <2>4 DEF Moving
      <3>2. ~OthersBoundTo(e.id) /\ (Row = NoRow \/ Row.remote = e.id)
        BY <1>2, <3>1 DEF MoveOK
      <3>3. ASSUME Row # NoRow, NEW i \in DOMAIN ops PROVE ~DeleteOf(ops[i], e.id)
        <4>1. drain.op.file \in FileIds
          BY <1>2 DEF OwedOps, OpOK
        <4>2. BoundTo(files, drain.op.file, e.id)
          BY <3>2, <3>3 DEF Row, BoundTo
        <4> QED BY <4>1, <4>2, WhatHolds DEF StoreOK, DeletedUnbound, DeleteOf
      <3> QED BY <1>2, <2>1, <2>6, <3>2, <3>3 DEF SettleOK, OthersBoundTo, Row
    <2>12. FlightOK'
      BY <2>8, <2>9, <2>10, <2>11 DEF FlightOK
    <2>13. drain.pc # "idle" /\ drain'.pc # "idle"
      BY <1>1, <2>6
    <2> HIDE DEF IInv
    <2> QED BY <1>3, <1>4, <2>1, <2>6, <2>12, <2>13, Aboard
  <1> QED BY <1>6, <1>7

\* A conflict name is a name.
LEMMA FreeThere ==
  ASSUME IInv, NEW d
  PROVE  FreeName({remote.files[i].at.k : i \in FilesThere(remote, d)} \cup NamesHere(Store, d)) \in Nat
  <1> DEFINE I == FilesThere(remote, d)
             F == FilesIn(Store, d)
             there == [i \in I |-> remote.files[i].at.k]
             here == [f \in F |-> Store.files[f].at.k]
             X == {remote.files[i].at.k : i \in I}
  <1>0. IsFiniteSet(1..MaxRemote) /\ IsFiniteSet(1..MaxFiles)
    <2>1. MaxRemote \in Nat /\ MaxFiles \in Nat /\ 1 \in Nat
      BY FilePushAssumption
    <2>2. \A n \in Nat : IsFiniteSet(1..n)
      BY FS_Interval
    <2> QED BY <2>1, <2>2
  <1>1. IsFiniteSet(I)
    <2>1. I \subseteq 1..MaxRemote
      BY DEF FilesThere, Ids
    <2> HIDE DEF I
    <2> QED BY <1>0, <2>1, FS_Subset
  <1>2. IsFiniteSet(F)
    <2>1. F \subseteq 1..MaxFiles
      BY WhatHolds DEF FilesIn, FileIds
    <2> HIDE DEF F
    <2> QED BY <1>0, <2>1, FS_Subset
  <1>3. IsFiniteSet(X)
    <2>1. there \in Surjection(I, X)
      BY DEF Surjection
    <2> QED BY <1>1, <2>1, FS_Surjection
  <1>4. IsFiniteSet(NamesHere(Store, d))
    <2>1. here \in Surjection(F, NamesHere(Store, d))
      BY DEF Surjection, NamesHere
    <2> QED BY <1>2, <2>1, FS_Surjection
  <1>5. IsFiniteSet(X \cup NamesHere(Store, d))
    BY <1>3, <1>4, FS_Union
  <1> HIDE DEF X
  <1>6. FreeName(X \cup NamesHere(Store, d)) \in Nat
    BY <1>5, FreeNameFree
  <1> QED BY <1>6 DEF X

\* Adopted, or gone beside.
LEMMA MetKeeps ==
  ASSUME IInv, Met PROVE IInv'
  <1> DEFINE free == FreeName({remote.files[i].at.k : i \in FilesThere(remote, drain.at.dir)}
                              \cup NamesHere(Store, drain.at.dir))
             again == IF drain.op.kind = "upload" THEN "send" ELSE "move"
             at == Path(drain.at.dir, free)
  <1>1. /\ drain.pc = "met" /\ UNCHANGED <<files, dirs, ops, remote, outcome, past, play>>
        /\ drain' = IF Adoptable(drain.entry) THEN [drain EXCEPT !.pc = "settle"]
                    ELSE [drain EXCEPT !.pc = again, !.at = at, !.entry = NoFile]
    BY DEF Met
  <1>2. /\ drain.op \in OwedOps /\ drain.op.kind \in {"upload", "move-file"} /\ drain.at \in Paths
        /\ OpUnderWay /\ UploadOK /\ MoveOK /\ MetOK
    BY <1>1, UnderWay DEF KindsAt
  <1>3. OutsideOK' /\ WorldOK' /\ HereOrTaken' = HereOrTaken /\ StoreOK(Store, HereOrTaken', remote'.made)
    BY <1>1, OutcomeIs, AllUnmoved DEF Fine
  <1>4. at \in Paths
    <2>1. free \in Nat
      BY FreeThere
    <2> HIDE DEF free
    <2> QED BY <1>2, <2>1 DEF Path, Paths
  <1> HIDE DEF at
  <1>5. CASE Adoptable(drain.entry)
    <2>1. drain' = [drain EXCEPT !.pc = "settle"]
      BY <1>1, <1>5
    <2>2. /\ drain' \in Drains /\ drain'.pc = "settle" /\ drain'.op = drain.op /\ drain'.at = drain.at
          /\ drain'.from = drain.from /\ drain'.entry = drain.entry
          /\ drain'.todo = drain.todo /\ drain'.read = drain.read /\ drain'.copying = drain.copying
          /\ drain'.holding = drain.holding /\ drain'.failed = drain.failed /\ drain'.stuck = drain.stuck
      <3>0. drain \in Drains
        BY DrainIs
      <3>1. "settle" \in Stages
        BY LaterStages, Zenon
      <3>2. Going(drain, drain', "settle", drain.at, drain.entry)
        BY <1>2, <2>1, <3>0, <3>1, StageIs, Zenon
      <3> QED BY <3>2 DEF Going
    <2>3. drain.op.kind \in KindsAt("settle")
      BY <1>2 DEF KindsAt
    <2>4. OpUnderWay' /\ UploadOK'
      BY <1>1, <1>2, <2>2, <2>3 DEF OpUnderWay, UploadOK, Row
    <2>5. MoveOK' /\ FetchOK' /\ MetOK' /\ RemoveOK' /\ RmdirOK'
      BY <1>1, <1>2, <1>3, <2>2 DEF MoveOK, FetchOK, MetOK, RemoveOK, RmdirOK, OthersBoundTo, Row
    <2>6. SettleOK'
      <3>1. ~OthersBoundTo(drain.entry.id)
        BY <1>5 DEF Adoptable, BoundElsewhere, OthersBoundTo, BoundTo
      <3>2. \A i \in DOMAIN ops : ~DeleteOf(ops[i], drain.entry.id)
        BY <1>5 DEF Adoptable, Queued, Store, DeleteOf
      <3> QED BY <1>1, <2>2, <3>1, <3>2 DEF SettleOK, OthersBoundTo
    <2>7. FlightOK'
      BY <2>4, <2>5, <2>6 DEF FlightOK
    <2> HIDE DEF IInv
    <2> QED BY <1>1, <1>3, <2>2, <2>7, Aboard
  <1>6. CASE ~Adoptable(drain.entry)
    <2>1. drain' = [drain EXCEPT !.pc = again, !.at = at, !.entry = NoFile]
      BY <1>1, <1>6
    <2>2. /\ drain' \in Drains /\ drain'.pc = again /\ drain'.op = drain.op /\ drain'.at = at
          /\ drain'.from = drain.from
          /\ drain'.todo = drain.todo /\ drain'.read = drain.read /\ drain'.copying = drain.copying
          /\ drain'.holding = drain.holding /\ drain'.failed = drain.failed /\ drain'.stuck = drain.stuck
      <3>0. drain \in Drains
        BY DrainIs
      <3>1. again \in Stages
        BY LaterStages, Zenon
      <3> HIDE DEF again
      <3>2. Going(drain, drain', again, at, NoFile)
        BY <1>4, <2>1, <3>0, <3>1, StageIs, Zenon
      <3> QED BY <3>2 DEF Going
    <2>3. drain.op.kind \in KindsAt(again) /\ again \in {"send", "move"}
      BY <1>2 DEF KindsAt
    <2> HIDE DEF again
    <2>4. OpUnderWay' /\ UploadOK'
      BY <1>1, <1>2, <1>4, <2>2, <2>3 DEF OpUnderWay, UploadOK, Row
    <2>5. MoveOK' /\ FetchOK' /\ MetOK' /\ RemoveOK' /\ RmdirOK' /\ SettleOK'
      BY <1>1, <1>2, <2>2, <2>3 DEF MoveOK, FetchOK, MetOK, RemoveOK, RmdirOK, SettleOK, OthersBoundTo, Row
    <2>7. FlightOK'
      BY <2>4, <2>5 DEF FlightOK
    <2>8. drain.pc # "idle" /\ drain'.pc # "idle"
      BY <1>1, <2>2, <2>3
    <2> HIDE DEF IInv
    <2> QED BY <1>1, <1>3, <2>2, <2>7, <2>8, Aboard
  <1> QED BY <1>5, <1>6

\* What was sent or moved is settled against the rows as they now stand.
LEMMA SettleKeeps ==
  ASSUME IInv, Settle PROVE IInv'
  <1> DEFINE op == drain.op
             up == Uploaded(Store, op.file, drain.entry, drain.sent)
             mv == MovedFile(Store, op.file, drain.entry, ByTag(Store, op.tag) = {})
             A == HereOrTaken
             m == remote.made
  <1>1. /\ drain.pc = "settle" /\ UNCHANGED <<remote, outcome, play>>
        /\ Settled(IF op.kind = "upload" THEN up ELSE mv, op)
        /\ past' = [past EXCEPT !.crossed = @ \/ Crossed(ops', files'),
                      !.behind = IF op.kind = "upload" THEN @ ELSE @ \cup Behind(ops', files')]
    BY DEF Settle
  <1>2. /\ op \in OwedOps /\ op.kind \in {"upload", "move-file"}
        /\ drain.todo # <<>> /\ op.tag = Head(drain.todo) /\ drain.pc # "idle"
        /\ UploadOK /\ MetOK /\ SettleOK
    BY <1>1, UnderWay DEF KindsAt
  <1>3. OutsideOK
    BY DEF IInv, TypeOK
  <1>4. DOMAIN past' = Kept /\ past'.taken = past.taken /\ past'.strays \subseteq Ids /\ play' \in Play
    BY <1>1, <1>3 DEF OutsideOK, Kept
  <1>5. OutsideOK' /\ WorldOK' /\ HereOrTaken' = A
    BY <1>1, <1>4, OutcomeIs, RemoteUnmoved
  <1>6. op.file \in FileIds /\ drain.entry \in Answers /\ drain.entry.id \in A
    BY <1>1, <1>2 DEF OwedOps, OpOK, MetOK
  <1>7. /\ Store \in Stores /\ A \in SUBSET Ids /\ (\A r \in A : r <= m) /\ StoreOK(Store, A, m)
        /\ Store.files = files /\ Store.ops = ops
    BY WhatHolds
  <1>8. \A g \in FileIds \ {op.file} : ~BoundTo(Store.files, g, drain.entry.id)
    BY <1>1, <1>2, <1>7 DEF SettleOK, OthersBoundTo
  <1>9. Store.files[op.file] # NoRow \/ op.kind = "upload" =>
          \A i \in DOMAIN Store.ops : ~DeleteOf(Store.ops[i], drain.entry.id)
    BY <1>1, <1>2, <1>7 DEF SettleOK, Row
  <1>10. CASE op.kind = "upload"
    <2>1. Store.files[op.file] = NoRow \/ Store.files[op.file].remote = NoFile
      BY <1>2, <1>7, <1>10 DEF UploadOK, Row
    <2> HIDE DEF A, m, op
    <2>2. Fine(Store, up, files, A, m)
      BY <1>6, <1>7, <1>8, <1>9, <1>10, <2>1, UploadedOK
    <2>3. Fine(Store, up, files, HereOrTaken', remote'.made) /\ Settled(up, op)
      BY <1>1, <1>5, <1>10, <2>2 DEF m
    <2> HIDE DEF IInv, up
    <2> QED BY <1>2, <1>5, <2>3, AfterSettled
  <1>11. CASE op.kind # "upload"
    <2> DEFINE withdrawn == ByTag(Store, op.tag) = {}
    <2> HIDE DEF A, m, op, withdrawn
    <2>2. Fine(Store, MovedFile(Store, op.file, drain.entry, withdrawn), files, A, m)
      BY <1>6, <1>7, <1>8, <1>9, MovedFileOK
    <2>3. Fine(Store, mv, files, HereOrTaken', remote'.made) /\ Settled(mv, op)
      BY <1>1, <1>5, <1>11, <2>2 DEF m, withdrawn
    <2> HIDE DEF IInv, mv
    <2> QED BY <1>2, <1>5, <2>3, AfterSettled
  <1> QED BY <1>10, <1>11

\* A file or a directory that nobody here wanted is gone.
LEMMA RemovedKeeps ==
  ASSUME IInv, Removed \/ RemovedDir PROVE IInv'
  <1>1. /\ drain.pc \in {"remove", "rmdir"} /\ remote' = Done(remote) /\ Settled(Store, drain.op)
        /\ UNCHANGED <<outcome, past, play>>
    BY DEF Removed, RemovedDir
  <1>2. drain.todo # <<>> /\ drain.op.tag = Head(drain.todo) /\ drain.pc # "idle"
    BY <1>1, UnderWay
  <1>3. remote' \in Remotes /\ WorldOK' /\ StoreOK(Store, HereOrTaken', remote'.made)
    BY <1>1, DoneOK
  <1>4. OutsideOK'
    BY <1>1, <1>3 DEF OutsideOK, IInv, TypeOK
  <1>5. Fine(Store, Store, files, HereOrTaken', remote'.made)
    BY <1>3, StoreThen
  <1> HIDE DEF IInv
  <1> QED BY <1>1, <1>2, <1>3, <1>4, <1>5, AfterSettled

\* A directory is made, and its row told.
LEMMA MadeDirKeeps ==
  ASSUME IInv, MadeDir PROVE IInv'
  <1> DEFINE d == drain.op.at.dir
             id == remote'.dirs[d].id
             s == MadeFolder(Store, d, id)
  <1>1. /\ drain.pc = "mkdir" /\ remote' = Done(remote) /\ Settled(s, drain.op)
        /\ UNCHANGED <<outcome, past, play>>
    BY DEF MadeDir
  <1>2. /\ drain.todo # <<>> /\ drain.op.tag = Head(drain.todo) /\ drain.pc # "idle"
        /\ drain.op \in OwedOps /\ drain.op.kind = "mkdir"
    BY <1>1, UnderWay DEF KindsAt
  <1>3. remote' \in Remotes /\ WorldOK' /\ StoreOK(Store, HereOrTaken', remote'.made)
    BY <1>1, DoneOK
  <1>4. OutsideOK'
    BY <1>1, <1>3 DEF OutsideOK, IInv, TypeOK
  <1>5. d \in Notebooks
    BY <1>2 DEF OwedOps, OpOK
  <1>6. id \in Nat
    <2>1. remote'.dirs \in [Notebooks -> [here : BOOLEAN, id : Nat]]
      BY <1>3 DEF Remotes
    <2> QED BY <1>5, <2>1
  <1> HIDE DEF d, id
  <1>7. Fine(Store, s, files, HereOrTaken', remote'.made)
    BY <1>3, <1>5, <1>6, WhatHolds, MadeFolderOK
  <1> HIDE DEF IInv, s
  <1> QED BY <1>1, <1>2, <1>3, <1>4, <1>7, AfterSettled

\* The last gates before an rmdir.
LEMMA LookKeeps ==
  ASSUME IInv, Look PROVE IInv'
  <1>1. /\ drain.pc = "look" /\ UNCHANGED <<remote, outcome, play>>
        /\ past' = [past EXCEPT !.strays = {},
                      !.overtaken = IF FilesThere(remote, drain.op.at.dir) \cap (past.behind \cup Astray) = {} THEN @
                                    ELSE @ \cup {drain.op.at.dir}]
    BY DEF Look
  <1>2. /\ drain.op \in OwedOps /\ drain.op.kind = "rmdir" /\ drain.at \in Paths
        /\ drain.todo # <<>> /\ drain.op.tag = Head(drain.todo) /\ drain.pc # "idle" /\ OpUnderWay
    BY <1>1, UnderWay DEF KindsAt
  <1>3. OutsideOK
    BY DEF IInv, TypeOK
  <1>4. DOMAIN past' = Kept /\ past'.taken = past.taken /\ past'.strays \subseteq Ids /\ play' \in Play
    BY <1>1, <1>3 DEF OutsideOK, Kept
  <1>5. OutsideOK' /\ WorldOK' /\ Fine(Store, Store, files, HereOrTaken', remote'.made)
    BY <1>1, <1>4, OutcomeIs, RemoteUnmoved
  <1>6. CASE Removable(drain.op)
    <2>1. drain' = [drain EXCEPT !.pc = "rmdir"] /\ UNCHANGED <<files, dirs, ops>>
      BY <1>6 DEF Look
    <2>2. /\ drain' \in Drains /\ drain'.pc = "rmdir" /\ drain'.op = drain.op /\ drain'.at = drain.at
          /\ drain'.todo = drain.todo /\ drain'.read = drain.read /\ drain'.copying = drain.copying
          /\ drain'.holding = drain.holding /\ drain'.failed = drain.failed /\ drain'.stuck = drain.stuck
      <3>0. drain \in Drains
        BY DrainIs
      <3>1. "rmdir" \in Stages
        BY LaterStages, Zenon
      <3>2. Going(drain, drain', "rmdir", drain.at, drain.entry)
        BY <1>2, <2>1, <3>0, <3>1, StageIs, Zenon
      <3> QED BY <3>2 DEF Going
    <2>3. "rmdir" \in KindsAt("rmdir")
      BY DEF KindsAt
    <2>4. OpUnderWay'
      BY <1>2, <2>1, <2>2, <2>3 DEF OpUnderWay
    <2>5. UploadOK' /\ MoveOK' /\ FetchOK' /\ MetOK' /\ SettleOK' /\ RemoveOK'
      BY <1>2, <2>2 DEF UploadOK, MoveOK, FetchOK, MetOK, SettleOK, RemoveOK
    <2>6. RmdirOK'
      <3>1. FilesThere(remote, drain.op.at.dir) = {}
        BY <1>6 DEF Removable
      <3> QED BY <1>1, <2>2, <3>1 DEF RmdirOK
    <2>7. FlightOK'
      BY <2>4, <2>5, <2>6 DEF FlightOK
    <2>8. StoreOK(Store, HereOrTaken', remote'.made) /\ drain'.pc # "idle"
      BY <1>5, <2>2 DEF Fine
    <2> HIDE DEF IInv
    <2> QED BY <1>2, <1>5, <2>1, <2>2, <2>7, <2>8, Aboard
  <1>7. CASE ~Removable(drain.op)
    <2>1. Settled(Store, drain.op)
      BY <1>7 DEF Look
    <2> HIDE DEF IInv
    <2> QED BY <1>2, <1>5, <2>1, AfterSettled
  <1> QED BY <1>6, <1>7

-----------------------------------------------------------------------------
(* What goes wrong.                                                          *)

\* What may still go wrong is counted.
LEMMA TroubleIs ==
  ASSUME IInv, NEW what, Trouble(what)
  PROVE  play' \in Play
  <1>1. play \in Play
    BY DEF IInv, TypeOK, OutsideOK
  <1>2. play.troubles \in Nat /\ play.troubles > 0 /\ play' = [play EXCEPT !.troubles = play.troubles - 1]
    BY <1>1 DEF Trouble, Play
  <1>3. play.troubles - 1 \in Nat
    BY <1>2
  <1> QED BY <1>1, <1>2, <1>3 DEF Play

\* So is what the user may still do.
LEMMA ActIs ==
  ASSUME IInv, NEW what, Act(what)
  PROVE  play' \in Play
  <1>1. play \in Play
    BY DEF IInv, TypeOK, OutsideOK
  <1>2. play.left \in Nat /\ play.left > 0 /\ play' = [play EXCEPT !.left = play.left - 1]
    BY <1>1 DEF Act, Play
  <1>3. play.left - 1 \in Nat
    BY <1>2
  <1> QED BY <1>1, <1>2, <1>3 DEF Play

\* An op that failed is still in the queue, and copies no other file.
LEMMA FailedKeeps ==
  ASSUME IInv, InCall, Failed, StoreOK(Store, HereOrTaken', remote'.made), WorldOK',
         remote' \in Remotes, DOMAIN past' = Kept, past'.taken \subseteq Ids, past'.strays \subseteq Ids,
         play' \in Play
  PROVE  IInv'
  <1> DEFINE op == drain.op
             s == FailOp(Store, op.tag)
  <1>1. drain.pc \in Calls /\ drain.pc \notin {"idle", "turn"}
    BY DEF InCall, Calls
  <1>2. /\ op \in OwedOps /\ drain.todo # <<>> /\ op.tag = Head(drain.todo) /\ drain.pc # "idle"
        /\ OpUnderWay /\ op.copyOf \in Ids \cup {NoFile}
    BY <1>1, UnderWay DEF OwedOps, QueuedOps
  <1>3. Fine(Store, s, files, HereOrTaken', remote'.made)
    BY WhatHolds, FailOpOK
  <1>4. Becomes(s)
    BY StoreIsOne DEF Failed
  <1> HIDE DEF s
  <1>5. s \in Stores /\ StoreOK(s, HereOrTaken', remote'.made) /\ OpsFrom(ops, s.ops, drain.read, files)
    BY <1>3, WhatHolds DEF Fine
  <1>6. CASE op.kind = "upload"
    <2>1. drain' = [StepOver(op, NextTurn) EXCEPT !.failed = TRUE] /\ outcome' = outcome
      BY <1>6 DEF Failed
    <2>2. OutsideOK'
      BY <2>1, OutcomeIs DEF OutsideOK, Outcomes
    <2> DEFINE C == drain.copying \cup {op.copyOf}
    <2>3. /\ C \in SUBSET (Ids \cup {NoFile}) /\ drain.holding \in SUBSET Paths
          /\ drain.stuck \in BOOLEAN /\ drain.copying \subseteq C /\ op.copyOf \in C
      BY <1>2, WhatHolds DEF Drains
    <2>4. Onward(drain', C, drain.holding, TRUE, drain.stuck)
      <3>1. Onward(NextTurn, drain.copying, drain.holding, drain.failed, drain.stuck)
        BY <1>2, NextTurnIs
      <3>2. drain' = [[NextTurn EXCEPT !.copying = C] EXCEPT !.failed = TRUE]
        BY <2>1, <3>1 DEF StepOver, Onward
      <3>3. Onward([NextTurn EXCEPT !.copying = C], C, drain.holding, drain.failed, drain.stuck)
        BY <2>3, <3>1, NextTurnMore
      <3> HIDE DEF C
      <3> QED BY <3>2, <3>3, NextTurnMore
    <2>5. \A i \in DOMAIN s.ops : s.ops[i].tag = op.tag => s.ops[i].copyOf \in {op.copyOf, NoFile}
      <3> SUFFICES ASSUME NEW i \in DOMAIN s.ops, s.ops[i].tag = op.tag
                   PROVE  s.ops[i].copyOf \in {op.copyOf, NoFile}
        OBVIOUS
      <3>1. RunOK /\ drain.todo \in Seq(Nat)
        BY WhatHolds DEF IInv
      <3>2. 1 \in DOMAIN drain.todo /\ drain.todo[1] = op.tag
        BY <1>2, <3>1, Skipped
      <3>3. s.ops[i].tag \in drain.read
        BY <3>1, <3>2 DEF RunOK
      <3>4. PICK k \in DOMAIN ops : SameOp(ops[k], s.ops[i])
        BY <1>5, <3>3, OldOps
      <3> QED BY <1>2, <3>4 DEF SameOp, OpUnderWay
    <2>6. \A i \in DOMAIN s.ops : s.ops[i].tag = Head(drain.todo) => s.ops[i].copyOf \in C \cup {NoFile}
      BY <1>2, <2>3, <2>5
    <2> HIDE DEF C, op
    <2>7. GoesOn(s, C, drain.holding, TRUE, drain.stuck)
      BY <1>3, <1>4, <2>3, <2>4, <2>6 DEF GoesOn
    <2> DEFINE yes == TRUE
    <2>8. GoesOn(s, C, drain.holding, yes, drain.stuck)
      BY <2>7
    <2> HIDE DEF IInv, yes
    <2> QED BY <1>2, <2>2, <2>8, AfterTurn
  <1>7. CASE op.kind # "upload"
    <2>1. drain' = Rest /\ outcome' = "retry"
      BY <1>7 DEF Failed, Ends
    <2>2. OutsideOK'
      BY <2>1 DEF OutsideOK
    <2> QED BY <1>4, <1>5, <2>1, <2>2, AfterEnd
  <1> QED BY <1>6, <1>7

\* A request fails.
LEMMA FailureKeeps ==
  ASSUME IInv, Failure PROVE IInv'
  <1>1. InCall /\ Failed /\ UNCHANGED <<remote, past>> /\ play' \in Play
    BY TroubleIs DEF Failure
  <1>2. OutsideOK /\ outcome' \in Outcomes
    BY <1>1, OutcomeIs DEF IInv, TypeOK, Failed, Ends, Outcomes
  <1>3. OutsideOK' /\ WorldOK' /\ Fine(Store, Store, files, HereOrTaken', remote'.made)
    BY <1>1, <1>2, RemoteUnmoved DEF OutsideOK
  <1>4. StoreOK(Store, HereOrTaken', remote'.made)
    BY <1>3 DEF Fine
  <1> HIDE DEF IInv
  <1> QED BY <1>1, <1>3, <1>4, FailedKeeps DEF OutsideOK

\* It was carried out, and nobody heard.
LEMMA LostAnswerKeeps ==
  ASSUME IInv, LostAnswer PROVE IInv'
  <1>1. /\ drain.pc \in {"send", "move", "remove", "rmdir", "mkdir"}
        /\ drain.pc = "send" => remote.made < MaxRemote
        /\ remote' = Done(remote) /\ past' = [past EXCEPT !.unheard = @ \cup {drain.op.kind}]
        /\ Failed \/ (Ends("stopped") /\ UNCHANGED <<files, dirs, ops>>)
        /\ play' \in Play
    BY TroubleIs DEF LostAnswer
  <1>2. OutsideOK
    BY DEF IInv, TypeOK
  <1>3. /\ DOMAIN past' = Kept /\ past'.taken = past.taken /\ past'.taken \subseteq Ids
        /\ past'.strays \subseteq Ids
    BY <1>1, <1>2 DEF OutsideOK, Kept
  <1>4. remote' \in Remotes /\ WorldOK' /\ StoreOK(Store, HereOrTaken', remote'.made)
    BY <1>1, <1>3, DoneOK
  <1>5. CASE Failed
    <2>1. InCall
      BY <1>1 DEF InCall, Calls
    <2> HIDE DEF IInv
    <2> QED BY <1>1, <1>3, <1>4, <1>5, <2>1, FailedKeeps
  <1>6. CASE Ends("stopped") /\ UNCHANGED <<files, dirs, ops>>
    <2>1. drain' = Rest /\ outcome' = "stopped" /\ Becomes(Store)
      BY <1>6, StoreStays DEF Ends
    <2>2. OutsideOK'
      BY <1>1, <1>3, <1>4, <2>1 DEF OutsideOK
    <2> QED BY <1>4, <2>1, <2>2, WhatHolds, AfterEnd
  <1> QED BY <1>1, <1>5, <1>6

\* A rate limit, or the tab goes.
LEMMA StoppedKeeps ==
  ASSUME IInv, Stopped \/ Crash PROVE IInv'
  <1>1. /\ drain' = Rest /\ outcome' = "stopped" /\ UNCHANGED <<files, dirs, ops, remote>>
        /\ play' \in Play
        /\ past' = past \/ past' = [past EXCEPT !.unheard = @ \cup {drain.op.kind}]
    BY TroubleIs DEF Stopped, Crash, Ends
  <1>2. OutsideOK
    BY DEF IInv, TypeOK
  <1>3. DOMAIN past' = Kept /\ past'.taken = past.taken /\ past'.strays \subseteq Ids
    BY <1>1, <1>2 DEF OutsideOK, Kept
  <1>4. OutsideOK' /\ WorldOK' /\ Fine(Store, Store, files, HereOrTaken', remote'.made)
    BY <1>1, <1>3, RemoteUnmoved DEF Outcomes
  <1>5. Becomes(Store)
    BY <1>1, StoreStays
  <1> QED BY <1>1, <1>4, <1>5, AfterEnd DEF Fine

\* Attempts are given back.
LEMMA GiveBackKeeps ==
  ASSUME IInv, GiveBack PROVE IInv'
  <1> DEFINE s == ResetAttempts(Store)
  <1>1. drain.pc = "idle" /\ StoreIs(s) /\ UNCHANGED <<remote, drain, outcome, past, play>>
    BY DEF GiveBack
  <1>2. drain' = Rest
    BY <1>1 DEF IInv, RunOK
  <1>3. OutsideOK' /\ WorldOK' /\ Fine(Store, Store, files, HereOrTaken', remote'.made)
    BY <1>1, OutcomeIs, AllUnmoved
  <1>4. Fine(Store, s, files, HereOrTaken', remote'.made)
    BY <1>3, WhatHolds, ResetOK DEF Fine
  <1>5. Becomes(s)
    BY <1>1, StoreIsOne
  <1> HIDE DEF s
  <1> QED BY <1>2, <1>3, <1>4, <1>5, AfterEnd DEF Fine

-----------------------------------------------------------------------------
(* The run begins.                                                           *)

\* What is at some places and then what is at the others has all of it, and
\* keeps the order of the first.
InOrder(q, q2, I) ==
  /\ q2 \in Seq(OwedOps)
  /\ \A n \in DOMAIN q2 : \E i \in DOMAIN q : q2[n] = q[i]
  /\ \A i \in DOMAIN q : \E n \in DOMAIN q2 : q2[n] = q[i]
  /\ TagsApart(q) => \A i \in I, j \in I, n \in DOMAIN q2 :
       i < j /\ q2[n].tag = q[j].tag => \E m \in DOMAIN q2 : m < n /\ q2[m] = q[i]

\* The order of a run.
LEMMA OrderIs ==
  ASSUME NEW q \in Seq(OwedOps), NEW I \in SUBSET DOMAIN q
  PROVE  InOrder(q, Those(q, I) \o Those(q, DOMAIN q \ I), I)
  <1> DEFINE J == DOMAIN q \ I
             a == Those(q, I)
             b == Those(q, J)
             q2 == a \o b
  <1>1. a \in Seq(OwedOps) /\ b \in Seq(OwedOps)
    BY ThosePicked
  <1>2. PICK g : Picks(q, I, a, g)
    <2>1. I \cap DOMAIN q = I
      OBVIOUS
    <2> QED BY <2>1, ThosePicked
  <1>3. PICK h : Picks(q, J, b, h)
    <2>1. J \cap DOMAIN q = J
      OBVIOUS
    <2> QED BY <2>1, ThosePicked
  <1>4. /\ g \in [DOMAIN a -> I] /\ \A k, l \in DOMAIN a : k < l => g[k] < g[l]
        /\ (\A k \in DOMAIN a : a[k] = q[g[k]]) /\ \A i \in I : \E k \in DOMAIN a : g[k] = i
    BY <1>2 DEF Picks
  <1>b. \A i \in I : \E k \in DOMAIN a : g[k] = i
    BY <1>2 DEF Picks
  <1>5. /\ h \in [DOMAIN b -> J] /\ \A k \in DOMAIN b : b[k] = q[h[k]]
        /\ \A i \in J : \E k \in DOMAIN b : h[k] = i
    BY <1>3 DEF Picks
  <1> HIDE DEF a, b
  <1>6. /\ q2 \in Seq(OwedOps) /\ Len(a) \in Nat /\ Len(b) \in Nat /\ Len(q2) = Len(a) + Len(b)
        /\ DOMAIN a = 1..Len(a) /\ DOMAIN b = 1..Len(b) /\ DOMAIN q2 = 1..(Len(a) + Len(b))
        /\ \A k \in 1..Len(a) : q2[k] = a[k]
        /\ \A k \in 1..Len(b) : q2[Len(a) + k] = b[k]
    BY <1>1
  <1> HIDE DEF q2
  <1>7. ASSUME NEW n \in DOMAIN q2
        PROVE  \/ n \in DOMAIN a /\ q2[n] = q[g[n]] /\ g[n] \in I
               \/ n - Len(a) \in DOMAIN b /\ q2[n] = q[h[n - Len(a)]] /\ h[n - Len(a)] \in J
    <2>1. CASE n \in 1..Len(a)
      BY <2>1, <1>4, <1>6
    <2>2. CASE n \notin 1..Len(a)
      <3>1. n - Len(a) \in 1..Len(b) /\ Len(a) + (n - Len(a)) = n
        BY <2>2, <1>6
      <3>2. q2[n] = b[n - Len(a)]
        BY <3>1, <1>6
      <3> QED BY <3>1, <3>2, <1>5, <1>6
    <2> QED BY <2>1, <2>2
  <1>8. \A n \in DOMAIN q2 : \E i \in DOMAIN q : q2[n] = q[i]
    BY <1>7
  <1>9. ASSUME NEW i \in DOMAIN q PROVE \E n \in DOMAIN q2 : q2[n] = q[i]
    <2>1. CASE i \in I
      <3>1. PICK k \in DOMAIN a : g[k] = i
        BY <2>1, <1>b
      <3> QED BY <3>1, <1>4, <1>6
    <2>2. CASE i \notin I
      <3>1. PICK k \in DOMAIN b : h[k] = i
        BY <2>2, <1>5
      <3>2. Len(a) + k \in DOMAIN q2 /\ q2[Len(a) + k] = b[k]
        BY <3>1, <1>6
      <3> QED BY <3>1, <3>2, <1>5
    <2> QED BY <2>1, <2>2
  <1>10. ASSUME TagsApart(q), NEW i \in I, NEW j \in I, NEW n \in DOMAIN q2, i < j, q2[n].tag = q[j].tag
         PROVE  \E m \in DOMAIN q2 : m < n /\ q2[m] = q[i]
    <2>1. n \in DOMAIN a /\ g[n] = j
      BY <1>7, <1>10 DEF TagsApart
    <2>2. PICK m \in DOMAIN a : g[m] = i
      BY <1>b
    <2>3. i \in Nat /\ j \in Nat /\ m \in Nat /\ n \in Nat
      BY <1>6, <2>1, <2>2
    <2>4. m < n
      BY <1>4, <1>10, <2>1, <2>2, <2>3
    <2> QED BY <2>2, <2>4, <1>4, <1>6
  <1>11. TagsApart(q) => \A i \in I, j \in I, n \in DOMAIN q2 :
           i < j /\ q2[n].tag = q[j].tag => \E m \in DOMAIN q2 : m < n /\ q2[m] = q[i]
    BY <1>10
  <1>12. InOrder(q, q2, I)
    BY <1>6, <1>8, <1>9, <1>11 DEF InOrder
  <1> QED BY <1>12 DEF q2, a, b

\* The tags of the queue are finitely many.
LEMMA TagsFinite ==
  ASSUME NEW st \in Stores
  PROVE  {o.tag : o \in Queued(st)} \in FiniteTags
  <1> DEFINE tags == {st.ops[i].tag : i \in DOMAIN st.ops}
             tag == [i \in DOMAIN st.ops |-> st.ops[i].tag]
  <1>1. \A i \in DOMAIN st.ops : st.ops[i].tag \in Nat
    BY StoreTyped DEF QueuedOps
  <1>2. tags \in SUBSET Nat
    BY <1>1
  <1>3. IsFiniteSet(DOMAIN st.ops)
    <2>1. DOMAIN st.ops = 1..Len(st.ops) /\ Len(st.ops) \in Nat
      BY StoreTyped
    <2> QED BY <2>1, FS_Interval
  <1>4. tag \in Surjection(DOMAIN st.ops, tags)
    BY DEF Surjection
  <1>5. {o.tag : o \in Queued(st)} = tags
    BY DEF Queued
  <1> HIDE DEF tags, tag
  <1> QED BY <1>2, <1>3, <1>4, <1>5, FS_Surjection DEF FiniteTags

\* A run begins: the uploads that copy a file are ahead of its delete.
LEMMA StartKeeps ==
  ASSUME IInv, Start PROVE IInv'
  <1> DEFINE last == {i \in DOMAIN ops : Later(ops[i])}
             I == DOMAIN ops \ last
             order == Those(ops, I) \o Those(ops, last)
             todo == [i \in DOMAIN order |-> order[i].tag]
             read == {o.tag : o \in Queued(Store)}
  <1>1. /\ drain' = [Rest EXCEPT !.pc = "turn", !.todo = todo, !.read = read]
        /\ UNCHANGED <<files, dirs, ops, remote, outcome, past, play>>
    BY DEF Start
  <1>2. /\ Store \in Stores /\ ops \in Seq(OwedOps) /\ TagsApart(ops) /\ CopiesFirst(ops)
        /\ StoreOK(Store, HereOrTaken, remote.made) /\ Store.ops = ops
        /\ \A i \in DOMAIN ops : ops[i] \in OwedOps
    BY WhatHolds DEF StoreOK
  <1>3. InOrder(ops, order, I)
    <2>1. DOMAIN ops \ I = last /\ I \in SUBSET DOMAIN ops
      OBVIOUS
    <2> HIDE DEF last, I
    <2>2. InOrder(ops, Those(ops, I) \o Those(ops, DOMAIN ops \ I), I)
      BY <1>2, <2>1, OrderIs
    <2> QED BY <2>1, <2>2
  <1>4. \A i \in DOMAIN ops : ops[i].kind # "upload" \/ ops[i].copyOf # NoFile => i \in I
    BY DEF Later
  <1> HIDE DEF order, I
  <1>5. /\ order \in Seq(OwedOps)
        /\ \A n \in DOMAIN order : \E i \in DOMAIN ops : order[n] = ops[i]
        /\ \A i \in DOMAIN ops : \E n \in DOMAIN order : order[n] = ops[i]
        /\ \A i \in I, j \in I, n \in DOMAIN order :
             i < j /\ order[n].tag = ops[j].tag => \E m \in DOMAIN order : m < n /\ order[m] = ops[i]
    BY <1>2, <1>3 DEF InOrder
  <1>6. DOMAIN todo = DOMAIN order /\ (\A n \in DOMAIN order : todo[n] = order[n].tag) /\ todo \in Seq(Nat)
    <2>1. \A o \in OwedOps : o.tag \in Nat
      BY DEF OwedOps, QueuedOps
    <2>2. DOMAIN order = 1..Len(order) /\ Len(order) \in Nat /\ \A n \in DOMAIN order : order[n] \in OwedOps
      BY <1>5
    <2>3. todo \in [1..Len(order) -> Nat]
      BY <2>1, <2>2
    <2> QED BY <2>2, <2>3
  <1>7. read \in FiniteTags /\ \A i \in DOMAIN ops : ops[i].tag \in read
    BY <1>2, TagsFinite DEF Queued
  <1>8. \A n \in DOMAIN todo : todo[n] \in read
    BY <1>5, <1>6, <1>7
  <1> HIDE DEF todo, read
  <1>9. /\ drain'.pc = "turn" /\ drain'.todo = todo /\ drain'.read = read /\ drain'.copying = {}
        /\ drain'.holding = {} /\ drain' \in Drains
    BY <1>1, <1>6, <1>7, FS_EmptySet DEF Rest, Drains, Stages
  <1>10. OutsideOK' /\ WorldOK' /\ HereOrTaken' = HereOrTaken
    BY <1>1, OutcomeIs, AllUnmoved
  <1>11. Store' = [Store EXCEPT !.kept = read]
    BY <1>1, <1>9 DEF Store
  <1>12. Store' \in Stores /\ Store'.files = Store.files /\ Store'.ops = ops
    BY <1>2, <1>7, <1>11 DEF Stores
  <1>13. TypeOK' /\ QueueOK'
    BY <1>1, <1>2, <1>9, <1>10, <1>12 DEF TypeOK, QueueOK, StoreOK
  <1>14. ASSUME NEW i \in DOMAIN ops PROVE \E n \in DOMAIN todo : todo[n] = ops[i].tag
    BY <1>5, <1>6
  <1>15. ASSUME NEW i \in DOMAIN ops, NEW j \in DOMAIN ops, NEW n \in DOMAIN todo,
                ops[j].kind = "delete-file", CopyOf(ops[i], ops[j].remote), todo[n] = ops[j].tag
         PROVE  \E m \in DOMAIN todo : m < n /\ todo[m] = ops[i].tag
    <2>1. i < j
      BY <1>2, <1>15 DEF CopiesFirst
    <2>2. i \in I /\ j \in I
      BY <1>4, <1>15 DEF CopyOf
    <2>3. n \in DOMAIN order /\ order[n].tag = ops[j].tag
      BY <1>6, <1>15
    <2>4. PICK m \in DOMAIN order : m < n /\ order[m] = ops[i]
      BY <1>5, <2>1, <2>2, <2>3
    <2>5. m \in DOMAIN todo /\ todo[m] = ops[i].tag
      BY <1>6, <2>4
    <2> QED BY <2>4, <2>5
  <1>16. RunOK'
    BY <1>1, <1>8, <1>9, <1>14, <1>15 DEF RunOK, InTodo
  <1>17. FlightOK'
    BY <1>9 DEF FlightOK, Flight
  <1> QED BY <1>10, <1>13, <1>16, <1>17 DEF IInv

-----------------------------------------------------------------------------
(* The user.                                                                 *)

\* One act of the user.
LEMMA ActKeeps ==
  ASSUME IInv, NEW what, Act(what), NEW s, NEW born, NEW l,
         FineForUser(Store, s, born, HereOrTaken, remote.made), StoreIs(s), Left(l),
         drain.op # NoRow => drain.op.file \notin born
  PROVE  IInv'
  <1>1. Becomes(s) /\ play' \in Play /\ UNCHANGED <<remote, drain, outcome>>
    BY StoreIsOne, ActIs DEF Act
  <1>2. OutsideOK
    BY DEF IInv, TypeOK
  <1>3. DOMAIN past' = Kept /\ past'.taken = past.taken /\ past'.strays = past.strays
    BY <1>2 DEF OutsideOK, Left, Kept
  <1> HIDE DEF IInv
  <1> QED BY <1>1, <1>3, UserKeeps

\* Every act of the user.
LEMMA UserStep ==
  ASSUME IInv, User PROVE IInv'
  <1>1. /\ Store \in Stores /\ StoreOK(Store, HereOrTaken, remote.made) /\ HereOrTaken \in SUBSET Ids
        /\ \A r \in HereOrTaken : r <= remote.made
        /\ Store.files = files /\ Store.dirs = dirs /\ Store.ops = ops
    BY WhatHolds
  <1> HIDE DEF IInv
  <1>2. ASSUME NEW d \in Folders, UserAdds(d) PROVE IInv'
    <2>1. PICK f \in NewFile : StoreIs(AddFile(Store, f, d))
      BY <1>2 DEF UserAdds
    <2>2. /\ f \in FileIds /\ Store.files[f] = NoRow /\ \A o \in Queued(Store) : o.file # f
          /\ drain.op # NoRow => drain.op.file \notin {f}
      BY <1>1, <2>1 DEF NewFile
    <2>3. FineForUser(Store, AddFile(Store, f, d), {f}, HereOrTaken, remote.made)
      BY <1>1, <2>2, AddFileOK
    <2>4. Act("add") /\ Left(past.left)
      BY <1>2 DEF UserAdds
    <2> QED BY <2>1, <2>2, <2>3, <2>4, ActKeeps
  <1>3. ASSUME NEW f \in FileIds, NEW d \in Folders, UserCopies(f, d) PROVE IInv'
    <2>1. PICK g \in NewFile : StoreIs(CopyFileTo(Store, f, g, d))
      BY <1>3 DEF UserCopies
    <2>2. /\ g \in FileIds /\ Store.files[g] = NoRow /\ \A o \in Queued(Store) : o.file # g
          /\ drain.op # NoRow => drain.op.file \notin {g}
      BY <1>1, <2>1 DEF NewFile
    <2>3. Store.files[f] # NoRow /\ (Store.files[f].held \/ Store.files[f].remote # NoFile)
      BY <1>1, <1>3 DEF UserCopies
    <2>4. FineForUser(Store, CopyFileTo(Store, f, g, d), {g}, HereOrTaken, remote.made)
      BY <1>1, <2>2, <2>3, CopyFileOK
    <2>5. Act("copy") /\ Left(past.left)
      BY <1>3 DEF UserCopies
    <2> QED BY <2>1, <2>2, <2>4, <2>5, ActKeeps
  <1>4. ASSUME NEW f \in FileIds, NEW d \in Folders, UserMoves(f, d) PROVE IInv'
    <2>1. /\ Act("move") /\ files[f] # NoRow /\ StoreIs(MoveFileTo(Store, f, d)) /\ Left(past.left)
      BY <1>4 DEF UserMoves
    <2>2. FineForUser(Store, MoveFileTo(Store, f, d), {}, HereOrTaken, remote.made)
      BY <1>1, <2>1, MoveFileOK
    <2> QED BY <2>1, <2>2, ActKeeps
  <1>5. ASSUME NEW f \in FileIds, UserDrops(f) PROVE IInv'
    <2>1. /\ Act("drop") /\ files[f] # NoRow /\ StoreIs(DropFile(Store, f)) /\ Left(past.left)
      BY <1>5 DEF UserDrops
    <2>2. FineForUser(Store, DropFile(Store, f), {}, HereOrTaken, remote.made)
      BY <1>1, <2>1, DropFileOK
    <2> QED BY <2>1, <2>2, ActKeeps
  <1>6. ASSUME NEW d \in Notebooks, UserCreates(d) PROVE IInv'
    <2>1. /\ Act("create") /\ StoreIs(CreateFolder(Store, d)) /\ Left({l \in past.left : l[1] # d})
      BY <1>6 DEF UserCreates
    <2>2. FineForUser(Store, CreateFolder(Store, d), {}, HereOrTaken, remote.made)
      BY <1>1, CreateFolderOK
    <2> DEFINE l == {x \in past.left : x[1] # d}
    <2>3. Left(l)
      BY <2>1
    <2> HIDE DEF l
    <2> QED BY <2>1, <2>2, <2>3, ActKeeps
  <1>7. ASSUME NEW d \in Notebooks, UserDeletes(d) PROVE IInv'
    <2>1. /\ Act("delete") /\ dirs[d] # NoRow /\ StoreIs(DeleteFolder(Store, d))
          /\ Left(past.left \cup LetsGo(d))
      BY <1>7 DEF UserDeletes
    <2>2. FineForUser(Store, DeleteFolder(Store, d), {}, HereOrTaken, remote.made)
      BY <1>1, <2>1, DeleteFolderOK
    <2> QED BY <2>1, <2>2, ActKeeps
  <1>8. ASSUME NEW d \in Notebooks, NEW e \in Notebooks, UserRenames(d, e) PROVE IInv'
    <2> DEFINE l == {x \in past.left : x[1] # e} \cup LetsGo(d)
    <2>1. /\ Act("rename") /\ dirs[d] # NoRow /\ StoreIs(RenameFolder(Store, d, e)) /\ Left(l)
      BY <1>8 DEF UserRenames
    <2> HIDE DEF l
    <2>2. FineForUser(Store, RenameFolder(Store, d, e), {}, HereOrTaken, remote.made)
      BY <1>1, <2>1, RenameFolderOK
    <2> QED BY <2>1, <2>2, ActKeeps
  <1> QED BY <1>2, <1>3, <1>4, <1>5, <1>6, <1>7, <1>8 DEF User

-----------------------------------------------------------------------------
(* The other devices.                                                        *)

\* Another device changes the remote.
LEMMA OthersKeep ==
  ASSUME IInv, UNCHANGED <<files, dirs, ops, drain, outcome>>, remote' \in Remotes,
         StoreOK(Store, HereOrTaken', remote'.made), WorldOK', HereOrTaken \subseteq HereOrTaken',
         play' \in Play, DOMAIN past' = Kept, past'.taken \subseteq Ids, past'.strays \subseteq Ids, RmdirOK'
  PROVE  IInv'
  <1>1. Store' = Store
    BY DEF Store
  <1>2. TypeOK' /\ QueueOK'
    BY <1>1, OutcomeIs, WhatHolds DEF TypeOK, QueueOK, OutsideOK, Outcomes
  <1>3. RunOK'
    BY DEF IInv, RunOK, InTodo
  <1>4. ASSUME Flight PROVE FlightOK'
    <2>1. OpUnderWay /\ UploadOK /\ MoveOK /\ FetchOK /\ MetOK /\ SettleOK /\ RemoveOK
      BY <1>4, UnderWay DEF Flight
    <2>2. OpUnderWay' /\ UploadOK' /\ MoveOK' /\ FetchOK' /\ MetOK'
      BY <2>1 DEF OpUnderWay, UploadOK, MoveOK, FetchOK, MetOK, Row, OthersBoundTo
    <2>3. SettleOK' /\ RemoveOK'
      BY <2>1 DEF SettleOK, RemoveOK, Row, OthersBoundTo, Unwanted
    <2> QED BY <2>2, <2>3 DEF FlightOK
  <1>5. FlightOK'
    BY <1>4 DEF FlightOK, Flight
  <1> QED BY <1>2, <1>3, <1>5 DEF IInv

\* It adds a file.
LEMMA AddsKeeps ==
  ASSUME IInv, NEW p \in Paths, NEW ours \in BOOLEAN, OtherAdds(p, ours) PROVE IInv'
  <1> DEFINE n == remote.made + 1
             e == [at |-> p, ours |-> ours]
  <1>1. /\ remote.made < MaxRemote /\ remote' = Created(remote, p, ours)
        /\ past' = [past EXCEPT !.meddled = TRUE, !.strays = @ \cup {remote'.made}]
        /\ UNCHANGED <<files, dirs, ops, drain, outcome>> /\ play' \in Play
    BY TroubleIs DEF OtherAdds
  <1>2. OutsideOK /\ remote \in Remotes /\ WorldOK
    BY DEF IInv, TypeOK, OutsideOK
  <1>3. /\ remote.made \in Nat /\ n \in Ids /\ n \in Nat /\ remote' \in Remotes /\ remote'.made = n
        /\ remote'.files = [remote.files EXCEPT ![n] = e]
    BY <1>1, <1>2, CreatedIs DEF Ids
  <1>4. remote.files \in [Ids -> Entries \cup {NoFile}]
    BY <1>2 DEF Remotes
  <1>5. e \in Entries /\ e # NoFile
    <2>1. e \in Entries
      BY DEF Entries
    <2> QED BY <2>1, NothingAssumption
  <1> HIDE DEF e
  <1>6. /\ DOMAIN past' = Kept /\ past'.taken = past.taken /\ past'.taken \subseteq Ids
        /\ past'.strays = past.strays \cup {n} /\ past'.strays \subseteq Ids
    BY <1>1, <1>2, <1>3 DEF OutsideOK, Kept
  <1>7. HereOrTaken' = HereOrTaken \cup {n}
    BY <1>3, <1>4, <1>5, <1>6 DEF HereOrTaken
  <1>8. \A r \in HereOrTaken : r <= remote.made /\ r \in Nat
    BY <1>2, WhatHolds DEF WorldOK, Ids
  <1>9. WorldOK'
    BY <1>3, <1>7, <1>8 DEF WorldOK
  <1>10. StoreOK(Store, HereOrTaken', remote'.made)
    <2>1. remote.made <= n
      BY <1>3
    <2> HIDE DEF n
    <2>2. HereOrTaken \subseteq HereOrTaken'
      BY <1>7
    <2> QED BY <1>3, <2>1, <2>2, WhatHolds, MoreThere
  <1>11. RmdirOK'
    <2> SUFFICES ASSUME drain.pc = "rmdir" PROVE RmdirOK'
      BY <1>1 DEF RmdirOK
    <2> DEFINE d == drain.op.at.dir
    <2>1. FilesThere(remote, d) \subseteq past.strays /\ \A r \in FilesThere(remote, d) : Unwanted(r)
      BY UnderWay DEF RmdirOK
    <2>2. FilesThere(remote', d) \subseteq FilesThere(remote, d) \cup {n}
      BY <1>3, <1>4 DEF FilesThere
    <2>3. Unwanted(n)
      <3>1. n \notin HereOrTaken /\ n # NoFile
        BY <1>3, <1>8, NothingAssumption
      <3>2. NamesMade(files, ops, HereOrTaken, remote.made)
        BY WhatHolds DEF StoreOK
      <3>3. \A f \in FileIds : ~BoundTo(files, f, n)
        BY <3>1, <3>2 DEF NamesMade, Bound, BoundTo
      <3>4. \A i \in DOMAIN ops : ~CopyOf(ops[i], n)
        BY <3>1, <3>2 DEF NamesMade, CopyOf
      <3> QED BY <3>3, <3>4 DEF Unwanted
    <2>4. \A r : Unwanted(r) => Unwanted(r)'
      BY <1>1 DEF Unwanted
    <2>5. \A r \in FilesThere(remote', d) : Unwanted(r)'
      BY <2>1, <2>2, <2>3, <2>4
    <2>6. FilesThere(remote', d) \subseteq past'.strays
      BY <1>6, <2>1, <2>2
    <2>7. drain'.op.at.dir = d
      BY <1>1
    <2> HIDE DEF d
    <2> QED BY <2>5, <2>6, <2>7 DEF RmdirOK, Unwanted
  <1> HIDE DEF IInv
  <1> QED BY <1>1, <1>3, <1>6, <1>7, <1>9, <1>10, <1>11, OthersKeep

\* It deletes one.
LEMMA DeletesKeeps ==
  ASSUME IInv, NEW i \in Ids, OtherDeletes(i) PROVE IInv'
  <1>1. /\ remote.files[i] # NoFile /\ remote' = [remote EXCEPT !.files[i] = NoFile]
        /\ past' = [past EXCEPT !.meddled = TRUE, !.taken = @ \cup {i}]
        /\ UNCHANGED <<files, dirs, ops, drain, outcome>> /\ play' \in Play
    BY TroubleIs DEF OtherDeletes
  <1>2. OutsideOK /\ remote \in Remotes /\ WorldOK
    BY DEF IInv, TypeOK, OutsideOK
  <1>3. remote.files \in [Ids -> Entries \cup {NoFile}]
    BY <1>2 DEF Remotes
  <1>4. [remote.files EXCEPT ![i] = NoFile] \in [Ids -> Entries \cup {NoFile}]
    BY <1>3
  <1>5. remote' = [remote EXCEPT !.files = [remote.files EXCEPT ![i] = NoFile]]
    BY <1>1
  <1>6. /\ remote' \in Remotes /\ remote'.made = remote.made
        /\ remote'.files = [remote.files EXCEPT ![i] = NoFile]
    BY <1>2, <1>4, <1>5 DEF Remotes
  <1>7. /\ DOMAIN past' = Kept /\ past'.taken = past.taken \cup {i} /\ past'.taken \subseteq Ids
        /\ past'.strays = past.strays /\ past'.strays \subseteq Ids
    BY <1>1, <1>2 DEF OutsideOK, Kept
  <1>8. HereOrTaken' = HereOrTaken
    BY <1>1, <1>3, <1>6, <1>7 DEF HereOrTaken
  <1>9. WorldOK' /\ StoreOK(Store, HereOrTaken', remote'.made)
    BY <1>2, <1>6, <1>8, WhatHolds DEF WorldOK
  <1>10. RmdirOK'
    <2> SUFFICES ASSUME drain.pc = "rmdir" PROVE RmdirOK'
      BY <1>1 DEF RmdirOK
    <2> DEFINE d == drain.op.at.dir
    <2>1. FilesThere(remote, d) \subseteq past.strays /\ \A r \in FilesThere(remote, d) : Unwanted(r)
      BY UnderWay DEF RmdirOK
    <2>2. FilesThere(remote', d) \subseteq FilesThere(remote, d)
      BY <1>3, <1>6 DEF FilesThere
    <2>3. \A r : Unwanted(r) => Unwanted(r)'
      BY <1>1 DEF Unwanted
    <2>4. \A r \in FilesThere(remote', d) : Unwanted(r)'
      BY <2>1, <2>2, <2>3
    <2>5. FilesThere(remote', d) \subseteq past'.strays
      BY <1>7, <2>1, <2>2
    <2>6. drain'.op.at.dir = d
      BY <1>1
    <2> HIDE DEF d
    <2> QED BY <2>4, <2>5, <2>6 DEF RmdirOK, Unwanted
  <1> HIDE DEF IInv
  <1> QED BY <1>1, <1>6, <1>7, <1>8, <1>9, <1>10, OthersKeep

-----------------------------------------------------------------------------
(* The invariant.                                                            *)

\* It holds at first.
LEMMA InitOK == Init => IInv
  <1> SUFFICES ASSUME Init PROVE IInv
    OBVIOUS
  <1> DEFINE d == CHOOSE d \in Notebooks : TRUE
             file(p) == [at |-> p, ours |-> TRUE]
  <1>1. PICK held \in BOOLEAN :
          /\ files = [g \in FileIds |->
                        IF g = 1 THEN [at |-> Path(d, 0), remote |-> 1, held |-> held] ELSE NoRow]
          /\ dirs = [e \in Notebooks |-> IF e = d THEN 1 ELSE NoRow]
          /\ remote = [files |-> [i \in Ids |-> IF i = 1 THEN [at |-> Path(d, 0), ours |-> TRUE]
                                                ELSE NoFile],
                       dirs |-> [e \in Notebooks |-> [here |-> e = d, id |-> IF e = d THEN 1 ELSE 0]],
                       made |-> 1]
    BY DEF Init
  <1>2. ops = <<>> /\ drain = Rest /\ outcome = "none" /\ play \in Plays
    BY DEF Init
  <1>3. DOMAIN past = Kept /\ past.taken = {} /\ past.strays = {}
    BY DEF Init, Kept
  <1>4. d \in Notebooks
    BY FilePushAssumption DEF Notebooks
  <1> HIDE DEF d
  <1>5. Path(d, 0) \in Paths /\ 1 \in FileIds /\ 1 \in Ids /\ 1 # NoFile
    BY <1>4, FilePushAssumption, NothingAssumption DEF Path, Paths, Notebooks, FileIds, Ids
  <1> DEFINE row == [at |-> Path(d, 0), remote |-> 1, held |-> held]
             e == [at |-> Path(d, 0), ours |-> TRUE]
  <1>6. row \in Rows /\ row # NoRow /\ row.remote = 1
    <2>1. row \in Rows
      BY <1>5 DEF Rows
    <2> QED BY <2>1, NothingAssumption
  <1>7. e \in Entries /\ e # NoFile
    <2>1. e \in Entries
      BY <1>5 DEF Entries
    <2> QED BY <2>1, NothingAssumption
  <1>8. files = [g \in FileIds |-> IF g = 1 THEN row ELSE NoRow]
        /\ remote.files = [i \in Ids |-> IF i = 1 THEN e ELSE NoFile] /\ remote.made = 1
    BY <1>1
  <1>9. dirs \in [Notebooks -> {NoRow, NoDir} \cup Nat]
    BY <1>1
  <1>10. remote \in Remotes
    <2>1. [i \in Ids |-> IF i = 1 THEN e ELSE NoFile] \in [Ids -> Entries \cup {NoFile}]
      BY <1>7
    <2>2. [x \in Notebooks |-> [here |-> x = d, id |-> IF x = d THEN 1 ELSE 0]]
            \in [Notebooks -> [here : BOOLEAN, id : Nat]]
      OBVIOUS
    <2> QED BY <1>1, <1>5, <2>1, <2>2 DEF Remotes
  <1> HIDE DEF row, e
  <1>11. files \in [FileIds -> Rows \cup {NoRow}]
    BY <1>6, <1>8
  <1>12. {} \in FiniteTags
    BY FS_EmptySet DEF FiniteTags
  <1>13. Store \in Stores /\ drain \in Drains
    BY <1>2, <1>9, <1>11, <1>12 DEF Store, Stores, Drains, Rest, Stages
  <1>14. play \in Play
    BY <1>2, FilePushAssumption
  <1>15. TypeOK
    BY <1>2, <1>3, <1>10, <1>13, <1>14 DEF TypeOK, OutsideOK
  <1>16. HereOrTaken = {1}
    BY <1>3, <1>5, <1>7, <1>8 DEF HereOrTaken
  <1>17. WorldOK
    BY <1>8, <1>16 DEF WorldOK
  <1>18. \A g \in FileIds : files[g] # NoRow => g = 1 /\ files[g].remote = 1
    BY <1>6, <1>8
  <1>19. QueueOK
    BY <1>2, <1>16, <1>18 DEF QueueOK, StoreOK, Store, TagsApart, OneRowPerFile, BytesSomewhere,
       DeletedUnbound, CopiesFirst, NamesMade, Bound, BoundTo
  <1>20. RunOK /\ FlightOK
    BY <1>2 DEF RunOK, FlightOK, Flight, Rest
  <1> QED BY <1>15, <1>17, <1>19, <1>20 DEF IInv

\* Every step of the drain keeps it.
LEMMA DrainKeeps ==
  ASSUME IInv, Drain PROVE IInv'
  <1> HIDE DEF IInv
  <1>1. ASSUME DrainEnds \/ PassOver \/ HoldBack \/ OutOfAttempts PROVE IInv'
    BY <1>1, DrainEndsKeeps, PassOverKeeps, HoldBackKeeps, OutOfAttemptsKeeps
  <1>2. ASSUME BeginUpload \/ BeginMove \/ BeginDelete \/ BeginRmdir \/ BeginMkdir PROVE IInv'
    BY <1>2, BeginUploadKeeps, BeginMoveKeeps, BeginDeleteKeeps, BeginRmdirKeeps, BeginMkdirKeeps
  <1>3. ASSUME Fetched \/ SentTo \/ MoveLanded \/ Met \/ Settle PROVE IInv'
    BY <1>3, FetchedKeeps, SentToKeeps, MoveLandedKeeps, MetKeeps, SettleKeeps
  <1>4. ASSUME Removed \/ RemovedDir \/ Look \/ MadeDir PROVE IInv'
    BY <1>4, RemovedKeeps, LookKeeps, MadeDirKeeps
  <1> QED BY <1>1, <1>2, <1>3, <1>4 DEF Drain

\* Every step does.
LEMMA NextOK == IInv /\ [Next]_vars => IInv'
  <1> SUFFICES ASSUME IInv, [Next]_vars PROVE IInv'
    OBVIOUS
  <1>1. CASE Start
    BY <1>1, StartKeeps
  <1>2. CASE Drain
    BY <1>2, DrainKeeps
  <1>3. CASE GiveBack
    BY <1>3, GiveBackKeeps
  <1>4. CASE User
    BY <1>4, UserStep
  <1>5. CASE Others
    <2>1. ASSUME NEW d \in Folders, NEW ours \in BOOLEAN, OtherAdds(Path(d, 0), ours) PROVE IInv'
      <3>1. Path(d, 0) \in Paths
        BY DEF Path, Paths
      <3> HIDE DEF IInv
      <3> QED BY <2>1, <3>1, AddsKeeps
    <2> HIDE DEF IInv
    <2> QED BY <1>5, <2>1, DeletesKeeps DEF Others
  <1>6. CASE Failure
    BY <1>6, FailureKeeps
  <1>7. CASE LostAnswer
    BY <1>7, LostAnswerKeeps
  <1>8. CASE Stopped \/ Crash
    BY <1>8, StoppedKeeps
  <1>9. CASE UNCHANGED vars
    BY <1>9 DEF vars, IInv, TypeOK, OutsideOK, Store, WorldOK, HereOrTaken, QueueOK, StoreOK, RunOK,
       InTodo, FlightOK, Flight, OpUnderWay, UploadOK, MoveOK, FetchOK, MetOK, SettleOK, RemoveOK,
       RmdirOK, Row, OthersBoundTo, Unwanted
  <1> QED BY <1>1, <1>2, <1>3, <1>4, <1>5, <1>6, <1>7, <1>8, <1>9 DEF Next

\* The invariant.
THEOREM Holds == Spec => []IInv
  <1> QED BY InitOK, NextOK, PTL DEF Spec

\* Every row, op and entry is what it should be, and every tag that is held is
\* a number.
THEOREM TypesHold == Spec => []TypeOK
  <1>1. IInv => TypeOK
    BY DEF IInv
  <1> QED BY <1>1, Holds, PTL

\* Two rows here never name one file there: the push, the writers and the
\* answers of the provider in whatever order (settle, isAdoptable).
THEOREM RowsApart == Spec => []OneRowPerFile(files)
  <1>1. IInv => OneRowPerFile(files)
    BY WhatHolds DEF StoreOK
  <1> QED BY <1>1, Holds, PTL

-----------------------------------------------------------------------------
(* A row that has lost its file.                                             *)

\* Completing an op leaves the rows alone.
LEMMA SettledRows ==
  ASSUME NEW s \in Stores, NEW op, Settled(s, op)
  PROVE  files' = s.files
  <1> DEFINE t == Complete(s, op.tag)
  <1>1. Settled(s, op) => files' = Complete(s, op.tag).files
    BY DEF Settled, StoreIs
  <1>2. t = [s EXCEPT !.ops = t.ops]
    BY WithdrawIs DEF Complete
  <1> QED BY <1>1, <1>2 DEF Stores

\* forgetFile takes one row.
LEMMA ForgottenRows ==
  ASSUME NEW st \in Stores, NEW f \in FileIds
  PROVE  ForgetFile(st, f) \in Stores /\ ForgetFile(st, f).files = [st.files EXCEPT ![f] = NoRow]
  <1> DEFINE w == Withdraw(st, UploadsOf(st, f) \cup MovesOf(st, f))
  <1>1. w \in Stores /\ w = [st EXCEPT !.ops = w.ops]
    BY WithdrawIs
  <1>2. w.files = st.files
    <2> HIDE DEF w
    <2>1. [st EXCEPT !.ops = w.ops].files = st.files
      BY DEF Stores
    <2> QED BY <1>1, <2>1
  <1>3. ForgetFile(st, f) = PutFile(w, f, NoRow)
    BY DEF ForgetFile
  <1> HIDE DEF w
  <1> DEFINE rows == [w.files EXCEPT ![f] = NoRow]
  <1>4. rows \in [FileIds -> Rows \cup {NoRow}]
    BY <1>1 DEF Stores
  <1>5. ForgetFile(st, f) = [w EXCEPT !.files = rows]
    BY <1>3 DEF PutFile
  <1> HIDE DEF rows
  <1>6. [w EXCEPT !.files = rows] \in Stores /\ [w EXCEPT !.files = rows].files = rows
    BY <1>1, <1>4 DEF Stores
  <1> QED BY <1>2, <1>5, <1>6 DEF rows

Lost == \E f \in FileIds : files[f] # NoRow /\ files'[f] = NoRow

\* No turn but an upload's takes a row.
LEMMA TurnsLoseNone ==
  ASSUME IInv, DrainEnds \/ PassOver \/ HoldBack \/ OutOfAttempts \/ BeginMove \/ BeginDelete
               \/ BeginRmdir \/ BeginMkdir
  PROVE  files' = files
  <1>1. Store \in Stores /\ Store.files = files
    BY WhatHolds
  <1>2. \A op : Settled(Store, op) => files' = files
    BY <1>1, SettledRows
  <1>3. CASE OutOfAttempts
    <2>1. PICK op \in Now :
            CASE op.kind = "rmdir"  -> Settled(Store, op) /\ past' = [past EXCEPT !.gaveUp = TRUE]
                                       /\ UNCHANGED outcome
              [] op.kind = "upload" -> /\ drain' = [StepOver(op, NextTurn) EXCEPT !.stuck = TRUE]
                                       /\ UNCHANGED <<files, dirs, ops, outcome, past>>
              [] OTHER -> Ends("blocked") /\ UNCHANGED <<files, dirs, ops, past>>
      BY <1>3 DEF OutOfAttempts
    <2>2. CASE op.kind = "rmdir"
      BY <2>1, <2>2, <1>2
    <2>3. CASE op.kind = "upload"
      BY <2>1, <2>3
    <2>4. CASE op.kind \notin {"rmdir", "upload"}
      BY <2>1, <2>4
    <2> QED BY <2>2, <2>3, <2>4
  <1>4. CASE BeginMove
    <2>1. \E op \in Now : Settled(Store, op) \/ UNCHANGED files
      BY <1>4 DEF BeginMove
    <2> QED BY <1>2, <2>1
  <1>5. CASE BeginRmdir
    <2>1. \E op \in Now : Settled(Store, op) \/ UNCHANGED files
      BY <1>5 DEF BeginRmdir
    <2> QED BY <1>2, <2>1
  <1>6. CASE DrainEnds \/ PassOver \/ HoldBack \/ BeginDelete \/ BeginMkdir
    BY <1>6 DEF DrainEnds, PassOver, HoldBack, BeginDelete, BeginMkdir
  <1> QED BY <1>3, <1>4, <1>5, <1>6

\* Nor does an upload's: its row has bytes somewhere.
LEMMA UploadsLoseNone ==
  ASSUME IInv, BeginUpload
  PROVE  files' = files
  <1>1. Store \in Stores /\ Store.files = files
    BY WhatHolds
  <1>2. \A op : Settled(Store, op) => files' = files
    BY <1>1, SettledRows
  <1>3. PICK op \in Now :
          /\ op.kind = "upload"
          /\ LET row == files[op.file]
             IN  IF row = NoRow \/ row.remote # NoFile THEN Settled(Store, op)
                 ELSE IF ~row.held /\ op.copyOf = NoFile THEN Settled(ForgetFile(Store, op.file), op)
                 ELSE UNCHANGED files
    BY DEF BeginUpload
  <1>4. \E i \in DOMAIN ops : op = ops[i]
    BY TurnsOp
  <1>5. BytesSomewhere(files, ops)
    BY WhatHolds DEF StoreOK
  <1>6. LET row == files[op.file]
        IN  ~(row = NoRow \/ row.remote # NoFile) => ~(~row.held /\ op.copyOf = NoFile)
    BY <1>3, <1>4, <1>5 DEF BytesSomewhere
  <1> QED BY <1>2, <1>3, <1>6

\* No answer takes a row but that the original is gone.
LEMMA AnswersLoseNone ==
  ASSUME IInv, SentTo \/ MoveLanded \/ Met \/ Settle \/ Removed \/ Look \/ RemovedDir \/ MadeDir,
         NEW f \in FileIds, files[f] # NoRow
  PROVE  files'[f] # NoRow
  <1>1. Store \in Stores /\ Store.files = files
    BY WhatHolds
  <1>2. \A op : Settled(Store, op) => files' = files
    BY <1>1, SettledRows
  <1>3. CASE SentTo \/ MoveLanded \/ Met \/ Removed \/ RemovedDir \/ Look
    <2>1. Settled(Store, drain.op) \/ UNCHANGED files
      BY <1>3 DEF SentTo, MoveLanded, Met, Removed, RemovedDir, Look
    <2> QED BY <1>2, <2>1
  <1>4. CASE MadeDir
    <2> DEFINE d == drain.op.at.dir
               s == MadeFolder(Store, d, remote'.dirs[d].id)
    <2>1. drain.pc = "mkdir" /\ remote' = Done(remote) /\ Settled(s, drain.op) /\ past' = past
      BY <1>4 DEF MadeDir
    <2>2. drain.op \in OwedOps /\ drain.op.kind = "mkdir"
      BY <2>1, UnderWay DEF KindsAt
    <2>3. remote' \in Remotes /\ StoreOK(Store, HereOrTaken', remote'.made)
      BY <2>1, DoneOK
    <2>4. d \in Notebooks
      BY <2>2 DEF OwedOps, OpOK
    <2>5. remote'.dirs[d].id \in Nat
      <3>1. remote'.dirs \in [Notebooks -> [here : BOOLEAN, id : Nat]]
        BY <2>3 DEF Remotes
      <3> QED BY <2>4, <3>1
    <2>6. s \in Stores
      BY <1>1, <2>3, <2>4, <2>5, MadeFolderOK DEF Fine
    <2>7. s.files = Store.files
      BY <1>1 DEF MadeFolder, Stores
    <2> HIDE DEF s
    <2> QED BY <1>1, <2>1, <2>6, <2>7, SettledRows
  <1>5. CASE Settle
    <2> DEFINE op == drain.op
               up == Uploaded(Store, op.file, drain.entry, drain.sent)
               mv == MovedFile(Store, op.file, drain.entry, ByTag(Store, op.tag) = {})
               A == HereOrTaken
               m == remote.made
    <2>1. drain.pc = "settle" /\ Settled(IF op.kind = "upload" THEN up ELSE mv, op)
      BY <1>5 DEF Settle
    <2>2. op \in OwedOps /\ op.kind \in {"upload", "move-file"} /\ UploadOK /\ MetOK /\ SettleOK
      BY <2>1, UnderWay DEF KindsAt
    <2>3. op.file \in FileIds /\ drain.entry \in Answers /\ drain.entry.id \in A
      BY <2>1, <2>2 DEF OwedOps, OpOK, MetOK
    <2>4. A \in SUBSET Ids /\ (\A r \in A : r <= m) /\ StoreOK(Store, A, m) /\ Store.ops = ops
      BY WhatHolds
    <2>5. \A g \in FileIds \ {op.file} : ~BoundTo(Store.files, g, drain.entry.id)
      BY <1>1, <2>1, <2>2 DEF SettleOK, OthersBoundTo
    <2>6. Store.files[op.file] # NoRow \/ op.kind = "upload" =>
            \A i \in DOMAIN Store.ops : ~DeleteOf(Store.ops[i], drain.entry.id)
      BY <1>1, <2>1, <2>2, <2>4 DEF SettleOK, Row
    <2>7. CASE op.kind = "upload"
      <3>1. Store.files[op.file] = NoRow \/ Store.files[op.file].remote = NoFile
        BY <1>1, <2>2, <2>7 DEF UploadOK, Row
      <3> HIDE DEF A, m, op
      <3>2. Fine(Store, up, files, A, m) /\ RowsStay(Store, up)
        BY <1>1, <2>3, <2>4, <2>5, <2>6, <2>7, <3>1, UploadedOK
      <3>3. Settled(up, op)
        BY <2>1, <2>7
      <3> HIDE DEF up
      <3> QED BY <1>1, <3>2, <3>3, SettledRows DEF Fine, RowsStay
    <2>8. CASE op.kind # "upload"
      <3> DEFINE withdrawn == ByTag(Store, op.tag) = {}
      <3>0. Settled(mv, op)
        BY <2>1, <2>8
      <3> HIDE DEF A, m, op, withdrawn
      <3>1. LET v == MovedFile(Store, op.file, drain.entry, withdrawn)
            IN  Fine(Store, v, files, A, m) /\ RowsStay(Store, v)
        BY <1>1, <2>3, <2>4, <2>5, <2>6, MovedFileOK
      <3>2. Fine(Store, mv, files, A, m) /\ RowsStay(Store, mv)
        BY <3>1 DEF withdrawn
      <3> HIDE DEF mv
      <3> QED BY <1>1, <3>0, <3>2, SettledRows DEF Fine, RowsStay
    <2> QED BY <2>7, <2>8
  <1> QED BY <1>3, <1>4, <1>5

\* CopiesSurvive: only the copy whose original is found gone loses its row.
LEMMA OnlyCopiesGo ==
  ASSUME IInv, Drain, NEW f \in FileIds, files[f] # NoRow, files'[f] = NoRow
  PROVE  \E op \in About : op.copyOf \in past.taken
  <1>1. Fetched
    <2>1. ~(DrainEnds \/ PassOver \/ HoldBack \/ OutOfAttempts \/ BeginMove \/ BeginDelete
            \/ BeginRmdir \/ BeginMkdir)
      BY TurnsLoseNone
    <2>2. ~BeginUpload
      BY UploadsLoseNone
    <2>3. ~(SentTo \/ MoveLanded \/ Met \/ Settle \/ Removed \/ Look \/ RemovedDir \/ MadeDir)
      BY AnswersLoseNone
    <2> QED BY <2>1, <2>2, <2>3 DEF Drain
  <1>2. drain.pc = "fetch" /\ remote.files[drain.op.copyOf] = NoFile
    BY <1>1 DEF Fetched
  <1>3. drain.op.copyOf \in HereOrTaken
    BY <1>2, UnderWay DEF FetchOK
  <1>4. drain.op.copyOf \in past.taken
    BY <1>2, <1>3 DEF HereOrTaken
  <1> QED BY <1>2, <1>4 DEF About, Turn

\* A row that has lost its file is not one the push made: a copy still to be
\* sent goes only where another device deleted what it was to copy
\* (awaitsCopy, holdBack and later in push/drain.ts, handOverToCopies).
THEOREM CopiesAreSafe == Spec => CopiesSurvive
  <1>1. IInv /\ [Next]_vars =>
          [\A f \in FileIds : files[f] # NoRow /\ files'[f] = NoRow /\ Drain
             => \E op \in About : op.copyOf \in past.taken]_vars
    BY OnlyCopiesGo
  <1> QED BY <1>1, Holds, PTL DEF Spec, CopiesSurvive

-----------------------------------------------------------------------------
(* A directory that goes.                                                    *)

\* A directory is not undone by making one.
LEMMA DirMadeStays ==
  ASSUME NEW w \in Remotes, NEW e, NEW d \in Notebooks, w.dirs[d].here
  PROVE  DirMade(w, e).dirs[d].here
  <1>1. w.dirs \in [Notebooks -> [here : BOOLEAN, id : Nat]]
    BY DEF Remotes
  <1>2. CASE Here(w, e)
    BY <1>2 DEF DirMade
  <1>3. CASE ~Here(w, e)
    <2>1. e # d
      BY <1>3 DEF Here
    <2>2. DirMade(w, e).dirs = [w.dirs EXCEPT ![e] = [here |-> TRUE, id |-> @.id + 1]]
      BY <1>3 DEF DirMade, Remotes
    <2> QED BY <1>1, <2>1, <2>2
  <1> QED BY <1>2, <1>3

\* Of the requests only an rmdir takes a directory.
LEMMA DoneDirs ==
  ASSUME IInv, remote' = Done(remote), NEW d \in Notebooks, remote.dirs[d].here, ~remote'.dirs[d].here,
         drain.pc \in {"send", "move", "remove", "rmdir", "mkdir"}
  PROVE  drain.pc = "rmdir" /\ d = drain.op.at.dir
  <1>1. remote \in Remotes
    BY DEF IInv, TypeOK, OutsideOK
  <1>2. \A e : DirMade(remote, e).dirs[d].here
    BY <1>1, DirMadeStays
  <1>3. CASE drain.pc = "send"
    BY <1>2, <1>3 DEF Done, Created, Placed
  <1>4. CASE drain.pc = "move"
    BY <1>2, <1>4 DEF Done, Placed
  <1>5. CASE drain.pc = "remove"
    BY <1>1, <1>5 DEF Done, Remotes
  <1>6. CASE drain.pc = "mkdir"
    BY <1>2, <1>6 DEF Done
  <1>7. CASE drain.pc = "rmdir"
    <2>1. remote.dirs \in [Notebooks -> [here : BOOLEAN, id : Nat]]
      BY <1>1 DEF Remotes
    <2>2. remote'.dirs = [remote.dirs EXCEPT ![drain.op.at.dir] = [@ EXCEPT !.here = FALSE]]
      BY <1>1, <1>7 DEF Done, DirGone, Remotes
    <2> QED BY <1>7, <2>1, <2>2
  <1> QED BY <1>3, <1>4, <1>5, <1>6, <1>7

\* What is in a directory that goes.
LEMMA OnlyStraysGo ==
  ASSUME IInv, Next, NEW d \in Notebooks, remote.dirs[d].here, ~remote'.dirs[d].here
  PROVE  FilesThere(remote, d) \subseteq past.strays
  <1>1. remote \in Remotes
    BY DEF IInv, TypeOK, OutsideOK
  <1>2. ~UNCHANGED remote
    OBVIOUS
  <1>3. ~Start /\ ~GiveBack /\ ~Failure /\ ~Stopped /\ ~Crash
    BY <1>2 DEF Start, GiveBack, Failure, Stopped, Crash
  <1>4. ~User
    BY <1>2 DEF User, UserAdds, UserCopies, UserMoves, UserDrops, UserCreates, UserDeletes, UserRenames, Act
  <1>5. ASSUME NEW e \in Folders, NEW ours \in BOOLEAN, OtherAdds(Path(e, 0), ours) PROVE FALSE
    <2>1. remote' = Created(remote, Path(e, 0), ours)
      BY <1>5 DEF OtherAdds
    <2>2. remote'.dirs = DirMade(remote, Path(e, 0).dir).dirs
      BY <2>1 DEF Created, Placed
    <2> QED BY <1>1, <2>2, DirMadeStays
  <1>6. ASSUME NEW i \in Ids, OtherDeletes(i) PROVE FALSE
    BY <1>6 DEF OtherDeletes
  <1>7. ~(DrainEnds \/ PassOver \/ HoldBack \/ OutOfAttempts \/ BeginUpload \/ BeginMove \/ BeginDelete
          \/ BeginRmdir \/ BeginMkdir \/ Fetched \/ Met \/ Settle \/ Look)
    BY <1>2 DEF DrainEnds, PassOver, HoldBack, OutOfAttempts, BeginUpload, BeginMove, BeginDelete,
       BeginRmdir, BeginMkdir, Fetched, Met, Settle, Look
  <1>8. SentTo \/ MoveLanded \/ Removed \/ RemovedDir \/ MadeDir \/ LostAnswer
    BY <1>3, <1>4, <1>5, <1>6, <1>7 DEF Next, Others, Drain
  <1>9. remote' = Done(remote) /\ drain.pc \in {"send", "move", "remove", "rmdir", "mkdir"}
    BY <1>8 DEF SentTo, MoveLanded, Removed, RemovedDir, MadeDir, LostAnswer
  <1>10. drain.pc = "rmdir" /\ d = drain.op.at.dir
    BY <1>9, DoneDirs
  <1> QED BY <1>10, UnderWay DEF RmdirOK

\* A directory is removed with nothing in it but what was put there since it
\* was found empty (runRmdir's gates).
THEOREM OthersAreSafe == Spec => NothingOfOthersGoes
  <1>1. IInv /\ [Next]_vars =>
          [\A d \in Notebooks : remote.dirs[d].here /\ ~remote'.dirs[d].here =>
             FilesThere(remote, d) \subseteq past.strays]_vars
    BY OnlyStraysGo
  <1> QED BY <1>1, Holds, PTL DEF Spec, NothingOfOthersGoes

-----------------------------------------------------------------------------
(* A run that ends well.                                                     *)

\* Only the end of the queue ends a run well.
LEMMA EndsWell ==
  ASSUME IInv, Next, drain.pc # "idle", drain'.pc = "idle", outcome' = "ok"
  PROVE  DrainEnds
  <1>1. NextTurn.pc = "turn" /\ \A op : StepOver(op, NextTurn).pc = "turn"
    BY DEF NextTurn, StepOver, Rest
  <1>2. \A s, op : ~Settled(s, op)
    BY <1>1 DEF Settled
  <1>3. drain' # drain
    OBVIOUS
  <1>4. ~Start /\ ~GiveBack /\ ~User /\ ~Others
    BY <1>3 DEF Start, GiveBack, User, UserAdds, UserCopies, UserMoves, UserDrops, UserCreates,
       UserDeletes, UserRenames, Act, Others, OtherAdds, OtherDeletes, Rest
  <1>5. ~Failed
    BY DEF Failed, Ends, NextTurn, StepOver, Rest
  <1>6. ~Failure /\ ~LostAnswer /\ ~Stopped /\ ~Crash
    BY <1>5 DEF Failure, LostAnswer, Stopped, Crash, Ends
  <1>7. drain.pc # "idle" /\ drain \in Drains
    BY WhatHolds
  <1>8. ~PassOver /\ ~HoldBack
    BY DEF PassOver, HoldBack, HeldBack, NextTurn, Rest
  <1>9. ~OutOfAttempts
    <2> SUFFICES ASSUME OutOfAttempts PROVE FALSE
      OBVIOUS
    <2>1. PICK op \in Now :
            CASE op.kind = "rmdir"  -> Settled(Store, op) /\ past' = [past EXCEPT !.gaveUp = TRUE]
                                       /\ UNCHANGED outcome
              [] op.kind = "upload" -> /\ drain' = [StepOver(op, NextTurn) EXCEPT !.stuck = TRUE]
                                       /\ UNCHANGED <<files, dirs, ops, outcome, past>>
              [] OTHER -> Ends("blocked") /\ UNCHANGED <<files, dirs, ops, past>>
      BY DEF OutOfAttempts
    <2>2. CASE op.kind = "rmdir"
      BY <2>1, <2>2, <1>2
    <2>3. CASE op.kind = "upload"
      BY <2>1, <2>3 DEF NextTurn, StepOver, Rest
    <2>4. CASE op.kind \notin {"rmdir", "upload"}
      BY <2>1, <2>4 DEF Ends
    <2> QED BY <2>2, <2>3, <2>4
  <1>10. ASSUME NEW op, NEW pc, pc # "idle", NEW at, NEW from, Goes(op, pc, at, from) PROVE FALSE
    <2>1. drain'.pc = pc
      BY <1>7, <1>10 DEF Goes, Drains
    <2> QED BY <1>10, <2>1
  <1>11. ~BeginUpload
    <2> SUFFICES ASSUME BeginUpload PROVE FALSE
      OBVIOUS
    <2>1. PICK op \in Now : \/ Settled(Store, op) \/ Settled(ForgetFile(Store, op.file), op)
                            \/ Goes(op, IF files[op.file].held THEN "send" ELSE "fetch",
                                    files[op.file].at, NoFile)
      BY DEF BeginUpload
    <2> QED BY <1>2, <1>10, <2>1
  <1>12. ~BeginMove /\ ~BeginDelete /\ ~BeginRmdir /\ ~BeginMkdir
    BY <1>2, <1>10 DEF BeginMove, BeginDelete, BeginRmdir, BeginMkdir
  <1>13. ~Fetched /\ ~SentTo /\ ~MoveLanded /\ ~Met
    <2>1. \A pc : drain' = [drain EXCEPT !.pc = pc] => drain'.pc = pc
      BY <1>7 DEF Drains
    <2>2. \A pc, e : drain' = [drain EXCEPT !.entry = e, !.pc = pc] => drain'.pc = pc
      BY <1>7 DEF Drains
    <2>3. \A pc, at, e : drain' = [drain EXCEPT !.pc = pc, !.at = at, !.entry = e] => drain'.pc = pc
      BY <1>7 DEF Drains
    <2>4. ~Fetched
      BY <1>2, <2>1 DEF Fetched
    <2>5. ~SentTo
      BY <2>2 DEF SentTo
    <2>6. ~MoveLanded
      BY <1>2, <2>2 DEF MoveLanded
    <2>7. ~Met
      <3>1. Met => \/ drain' = [drain EXCEPT !.pc = "settle"]
                   \/ \E at : \E pc \in {"send", "move"} :
                        drain' = [drain EXCEPT !.pc = pc, !.at = at, !.entry = NoFile]
        BY DEF Met
      <3> QED BY <2>1, <2>3, <3>1
    <2> QED BY <2>4, <2>5, <2>6, <2>7
  <1>14. ~Settle /\ ~Removed /\ ~RemovedDir /\ ~MadeDir
    BY <1>2 DEF Settle, Removed, RemovedDir, MadeDir
  <1>15. ~Look
    <2>1. drain' = [drain EXCEPT !.pc = "rmdir"] => drain'.pc = "rmdir"
      BY <1>7 DEF Drains
    <2> QED BY <1>2, <2>1 DEF Look
  <1> QED BY <1>4, <1>6, <1>8, <1>9, <1>11, <1>12, <1>13, <1>14, <1>15 DEF Next, Drain

\* And then nothing it read is left.
LEMMA NothingLeft ==
  ASSUME IInv, Next, drain.pc # "idle", drain'.pc = "idle", outcome' = "ok", NEW i \in DOMAIN ops'
  PROVE  ops'[i].tag \notin drain.read
  <1>1. drain.todo = <<>> /\ drain.pc = "turn" /\ outcome' = Drained /\ ops' = ops
    BY EndsWell DEF DrainEnds, Turn, Ends
  <1>2. ~drain.failed /\ ~drain.stuck
    BY <1>1 DEF Drained
  <1>3. RunOK
    BY DEF IInv
  <1>4. \A tag : ~InTodo(tag)
    BY <1>1 DEF InTodo
  <1> QED BY <1>1, <1>2, <1>3, <1>4 DEF RunOK

\* A run that ends well has sent everything it read: what the last turn leaves
\* behind is what the user has done since (drain, outcomeOf).
THEOREM OkIsTrue == Spec => OkMeansSent
  <1>1. IInv /\ [Next]_vars =>
          [drain.pc # "idle" /\ drain'.pc = "idle" /\ outcome' = "ok" =>
             \A i \in DOMAIN ops' : ops'[i].tag \notin drain.read]_vars
    BY NothingLeft
  <1> QED BY <1>1, Holds, PTL DEF Spec, OkMeansSent
==============================================================================

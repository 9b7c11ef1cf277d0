---------------------------- MODULE NoteSync_proofs ----------------------------
(* That a row which holds the version a file has last synced the very text   *)
(* the file has (NoteSync.InStep), for any devices, notes, users' acts and   *)
(* faults; and what follows from it: a push writes over a text only where    *)
(* that text is the one its note last synced.                                *)
(*                                                                           *)
(* A version is had of a file in many ways, and held in many places: a row,  *)
(* a change decided and not applied, a request under way.  Wherever one is   *)
(* held with a text, the file has that text at that version, if it still     *)
(* has that version: Reads, which nothing that happens to the remote undoes, *)
(* since a text never changes without its version (Grows).                   *)
EXTENDS NoteSync, SequenceTheorems, FiniteSetTheorems, WellFoundedInduction, TLAPS

-----------------------------------------------------------------------------
(* What is held is so.                                                       *)

\* A version a file had, and had it with that text.
Known(w, f) ==
  /\ f = [id |-> f.id, version |-> f.version]
  /\ f.id \in DOMAIN w /\ f.version \in Nat
  /\ w[f.id] # Gone => f.version <= w[f.id].version
Reads(w, f, t) ==
  Known(w, f) /\ (w[f.id] # Gone /\ w[f.id].version = f.version => w[f.id].text = t)

IsSeq(q) == q \in Seq({q[i] : i \in DOMAIN q})

RemoteTrue(w) ==
  IsSeq(w) /\ \A f \in DOMAIN w : w[f] # Gone =>
    w[f] = [path |-> w[f].path, text |-> w[f].text, version |-> w[f].version] /\ w[f].version \in Nat

RowTrue(w, r) ==
  /\ r = [path |-> r.path, text |-> r.text, dirty |-> r.dirty, deleted |-> r.deleted,
          file |-> r.file, synced |-> r.synced]
  /\ r.file # NoFile => Reads(w, r.file, r.synced)
TableTrue(w, t) ==
  t = [n \in NoteIds |-> t[n]] /\ \A n \in NoteIds : t[n] = NoRow \/ RowTrue(w, t[n])

OpTrue(o) ==
  /\ o = [seq |-> o.seq, kind |-> o.kind, note |-> o.note, path |-> o.path, target |-> o.target]
  /\ o.note \in NoteIds
OpsTrue(q) == \A o \in q : OpTrue(o)

EntryTrue(w, e) == ~e.gone => Known(w, FileOf(e))

Kinds == {"upsert", "adopt", "move", "delete", "detach", "displace", "reupload", "conflict"}
ChangeTrue(w, c) ==
  /\ c.kind \in Kinds
  /\ c.kind \in {"upsert", "conflict"} => Reads(w, c.file, c.text)
  /\ c.kind \in {"adopt", "move"} => Reads(w, c.file, c.synced)
  /\ c.kind = "conflict" => c.copy \in NoteIds
  /\ c.kind = "reupload" => c.note \in NoteIds
ChangesTrue(w, q) == IsSeq(q) /\ \A i \in DOMAIN q : ChangeTrue(w, q[i])

-----------------------------------------------------------------------------
(* What an engine holds; t is its device's table.                            *)

Pending == {"landed", "met", "missing", "create", "follow", "followed", "rewrite",
            "aside", "moved", "purge", "weigh", "setaside"}
\* The file of the row is where the request is about it.
OwnFile(e) ==
  /\ e.pc \in {"missing", "create", "follow", "followed", "aside", "moved"} => e.row.file # NoFile
  /\ e.pc \in {"missing", "follow", "aside"} => e.file = e.row.file
  /\ e.pc = "moved" => e.file = [id |-> e.row.file.id, version |-> e.file.version]
Held(w, t, e) ==
  /\ {"pc", "left", "op", "row", "file", "at", "taken"} \subseteq DOMAIN e
  /\ e.op.note \in NoteIds /\ RowTrue(w, t[e.op.note]) /\ RowTrue(w, e.row)
HoldTrue(w, t, e) ==
  /\ Held(w, t, e)
  /\ OwnFile(e)
  /\ e.pc \in {"aside", "moved"} => t[e.op.note].synced = e.row.synced
  /\ e.pc = "landed" => Reads(w, e.file, e.row.text)
  /\ e.pc = "rewrite" => Reads(w, e.file, e.row.synced)
  /\ e.pc \in {"met", "weigh"} => Known(w, e.file)
  /\ e.pc = "weigh" =>
       /\ {"text", "version"} \subseteq DOMAIN e /\ e.file.version <= e.version
       /\ Reads(w, [id |-> e.file.id, version |-> e.version], e.text)

DecideTrue(w, e) ==
  /\ e = [pc |-> "decide", batch |-> e.batch, todo |-> e.todo, decided |-> e.decided]
  /\ IsSeq(e.todo) /\ \A i \in DOMAIN e.todo : EntryTrue(w, e.todo[i])
  /\ ChangesTrue(w, e.decided)
EngTrue(w, t, e) ==
  /\ e.pc \in {"idle", "decide", "apply", "drain"} \cup Pending
  /\ e.pc = "decide" => DecideTrue(w, e)
  /\ e.pc = "apply" => ChangesTrue(w, e.decided)
  /\ e.pc \in Pending => HoldTrue(w, t, e)

NewsTrue == news = [d \in Devices |-> news[d]] /\ \A d \in Devices : news[d] \in Seq(Files)
StoresTrue ==
  /\ rows = [d \in Devices |-> rows[d]] /\ \A d \in Devices : TableTrue(remote, rows[d])
  /\ ops = [d \in Devices |-> ops[d]] /\ \A d \in Devices : OpsTrue(ops[d])
EnginesTrue ==
  eng = [d \in Devices |-> eng[d]] /\ \A d \in Devices : EngTrue(remote, rows[d], eng[d])
IInv == RemoteTrue(remote) /\ NewsTrue /\ StoresTrue /\ EnginesTrue

\* A text changes on the remote only where a request wrote it over the text
\* its note last synced.
WroteOver ==
  \A f \in Files : Alive(f) /\ remote'[f] # Gone /\ remote'[f].text # remote[f].text =>
    \E d \in Devices : /\ eng'[d].pc = "landed" /\ eng'[d].row.text = remote'[f].text
                       /\ eng'[d].row.synced = remote[f].text
WritesOverKnown == [][WroteOver]_vars

-----------------------------------------------------------------------------
(* Sequences, and recursion along one.                                       *)

\* A set of numbers with something in it has a least.
LEMMA Least ==
  ASSUME NEW S \in SUBSET Nat, S # {}
  PROVE  \E m \in S : \A k \in S : m <= k
  <1>1. PICK m \in S : \A k \in S : ~(<<k, m>> \in OpToRel(<, Nat))
    BY WFMin, NatLessThanWellFounded
  <1>2. \A k \in S : ~(k < m)
    BY <1>1 DEF OpToRel
  <1> QED BY <1>2

\* Induction up to N, for a set in place of a predicate.
LEMMA Steps ==
  ASSUME NEW N \in Nat, NEW S, 0 \in S, \A i \in 1..N : i - 1 \in S => i \in S
  PROVE  \A i \in 0..N : i \in S
  <1> DEFINE Out == {i \in 0..N : i \notin S}
  <1>1. SUFFICES ASSUME Out # {} PROVE FALSE
    OBVIOUS
  <1>2. PICK m \in Out : \A k \in Out : m <= k
    <2>1. Out \in SUBSET Nat
      OBVIOUS
    <2> QED BY <1>1, <2>1, Least
  <1>3. m \in 1..N /\ m - 1 \in 0..N /\ m - 1 \notin Out
    BY <1>2
  <1> QED BY <1>2, <1>3

\* g is a function on 0..N; it begins with c and goes on by d; its i-th value
\* is one of T[i].
LEMMA SeqIn ==
  ASSUME NEW S, NEW q \in Seq(S)
  PROVE  IsSeq(q) /\ Len(q) \in Nat /\ DOMAIN q = 1..Len(q) /\ \A i \in DOMAIN q : q[i] \in S
  <1>1. Len(q) \in Nat /\ DOMAIN q = 1..Len(q) /\ \A i \in DOMAIN q : q[i] \in S
    OBVIOUS
  <1>2. q = [i \in 1..Len(q) |-> q[i]]
    BY <1>1
  <1> DEFINE R == {q[i] : i \in DOMAIN q}
  <1>3. q \in [1..Len(q) -> R]
    BY <1>1, <1>2
  <1>4. q \in Seq(R)
    <2> HIDE DEF R
    <2> QED BY <1>1, <1>3, SeqDef
  <1> QED BY <1>1, <1>4 DEF IsSeq

LEMMA SeqIs ==
  ASSUME NEW q, IsSeq(q)
  PROVE  Len(q) \in Nat /\ DOMAIN q = 1..Len(q)
  BY DEF IsSeq

LEMMA Empty ==
  IsSeq(<<>>) /\ DOMAIN <<>> = {}
  <1>1. <<>> \in Seq({})
    OBVIOUS
  <1>2. DOMAIN <<>> = {}
    OBVIOUS
  <1> QED BY <1>1, <1>2, SeqIn

LEMMA AppendIs ==
  ASSUME NEW q, IsSeq(q), NEW x
  PROVE  /\ IsSeq(Append(q, x)) /\ DOMAIN Append(q, x) = 1..(Len(q) + 1)
         /\ \A i \in DOMAIN q : Append(q, x)[i] = q[i]
         /\ Append(q, x)[Len(q) + 1] = x
  <1> DEFINE S == {q[i] : i \in DOMAIN q} \cup {x}
  <1>1. q \in Seq(S) /\ x \in S
    <2>1. q \in Seq({q[i] : i \in DOMAIN q})
      BY DEF IsSeq
    <2> QED BY <2>1, SeqMonotonic
  <1> HIDE DEF S
  <1>2. Append(q, x) \in Seq(S) /\ DOMAIN q = 1..Len(q)
    BY <1>1
  <1>3. Len(Append(q, x)) = Len(q) + 1 /\ Append(q, x)[Len(q) + 1] = x
        /\ \A i \in 1..Len(q) : Append(q, x)[i] = q[i]
    BY <1>1, AppendProperties
  <1> QED BY <1>2, <1>3, SeqIn

\* What each of two sequences holds is what both behind one another hold.
LEMMA ConcatIs ==
  ASSUME NEW p, NEW q, IsSeq(p), IsSeq(q), NEW r, r = p \o q
  PROVE  /\ IsSeq(r)
         /\ \A i \in DOMAIN r : (\E j \in DOMAIN p : r[i] = p[j]) \/ (\E j \in DOMAIN q : r[i] = q[j])
  <1> DEFINE S == {p[i] : i \in DOMAIN p} \cup {q[i] : i \in DOMAIN q}
  <1>1. p \in Seq(S) /\ q \in Seq(S)
    <2>1. p \in Seq({p[i] : i \in DOMAIN p}) /\ q \in Seq({q[i] : i \in DOMAIN q})
      BY DEF IsSeq
    <2> QED BY <2>1, SeqMonotonic
  <1>2. ASSUME NEW x \in S PROVE (\E j \in DOMAIN p : x = p[j]) \/ (\E j \in DOMAIN q : x = q[j])
    OBVIOUS
  <1> HIDE DEF S
  <1>3. p \o q \in Seq(S)
    BY <1>1, ConcatProperties
  <1>4. IsSeq(p \o q) /\ \A i \in DOMAIN (p \o q) : (p \o q)[i] \in S
    BY <1>3, SeqIn
  <1> QED BY <1>4, <1>2

LEMMA TailIs ==
  ASSUME NEW q, IsSeq(q), q # <<>>
  PROVE  /\ 1 \in DOMAIN q /\ Head(q) = q[1] /\ IsSeq(Tail(q))
         /\ \A i \in DOMAIN Tail(q) : \E j \in DOMAIN q : Tail(q)[i] = q[j]
  <1> DEFINE S == {q[i] : i \in DOMAIN q}
  <1>1. q \in Seq(S)
    BY DEF IsSeq
  <1>2. \A x \in S : \E j \in DOMAIN q : x = q[j]
    OBVIOUS
  <1> HIDE DEF S
  <1>3. Tail(q) \in Seq(S)
    BY <1>1, HeadTailProperties
  <1>4. IsSeq(Tail(q)) /\ \A i \in DOMAIN Tail(q) : Tail(q)[i] \in S
    BY <1>3, SeqIn
  <1>5. 1 \in DOMAIN q /\ Head(q) = q[1]
    BY <1>1
  <1> QED BY <1>4, <1>5, <1>2

\* A function made along a sequence is one.
LEMMA MadeIs ==
  ASSUME NEW n \in Nat, NEW q, q = [i \in 1..n |-> q[i]]
  PROVE  IsSeq(q)
  <1> DEFINE R == {q[i] : i \in DOMAIN q}
  <1>1. q \in [1..n -> R]
    OBVIOUS
  <1>2. q \in Seq(R)
    <2> HIDE DEF R
    <2> QED BY <1>1, SeqDef
  <1> QED BY <1>2 DEF IsSeq

\* What is picked of a sequence is of it.
LEMMA OnlyIn ==
  ASSUME NEW T, NEW q \in Seq(T), NEW S
  PROVE  Only(q, S) \in Seq(T \cap S)
  <1> DEFINE N == Len(q)
             Then(r, i) == IF q[i] \in S THEN Append(r, q[i]) ELSE r
             Is(g, n) == g = [i \in 0..n |-> IF i = 0 THEN <<>> ELSE Then(g[i - 1], i)]
             upTo == CHOOSE g : Is(g, N)
             K == {n \in 0..N : \E g : Is(g, n)}
             In == {n \in 0..N : upTo[n] \in Seq(T \cap S)}
  <1>0. N \in Nat /\ 0 \in 0..N /\ N \in 0..N /\ \A i \in 1..N : q[i] \in T
    OBVIOUS
  <1>1. Only(q, S) = upTo[N]
    BY DEF Only
  <1>2. 0 \in K
    <2>1. Is([i \in 0..0 |-> <<>>], 0)
      OBVIOUS
    <2> HIDE DEF Is
    <2> QED BY <2>1, <1>0
  <1>3. ASSUME NEW n \in 1..N, n - 1 \in K PROVE n \in K
    <2> HIDE DEF Then
    <2>1. PICK h : Is(h, n - 1)
      BY <1>3
    <2> DEFINE g == [i \in 0..n |-> IF i = n THEN Then(h[n - 1], n) ELSE h[i]]
    <2>2. \A i \in 0..(n - 1) : h[i] = IF i = 0 THEN <<>> ELSE Then(h[i - 1], i)
      BY <2>1
    <2>3. \A i \in 0..(n - 1) : g[i] = h[i]
      OBVIOUS
    <2>4. ASSUME NEW i \in 0..n PROVE g[i] = IF i = 0 THEN <<>> ELSE Then(g[i - 1], i)
      <3>1. CASE i = n
        BY <3>1, <2>3
      <3>2. CASE i # n
        BY <3>2, <2>2, <2>3
      <3> QED BY <3>1, <3>2
    <2>5. Is(g, n)
      <3>1. g = [i \in 0..n |-> g[i]]
        OBVIOUS
      <3> HIDE DEF g
      <3> QED BY <3>1, <2>4
    <2> HIDE DEF Is
    <2> QED BY <2>5, <1>0
  <1>4. N \in K
    <2> HIDE DEF K
    <2>1. \A i \in 0..N : i \in K
      BY <1>0, <1>2, <1>3, Steps
    <2> QED BY <2>1, <1>0
  <1>5. Is(upTo, N)
    <2> HIDE DEF Is
    <2> QED BY <1>4
  <1> HIDE DEF upTo, K, Then
  <1>6. upTo[0] = <<>> /\ \A i \in 1..N : upTo[i] = Then(upTo[i - 1], i)
    BY <1>0, <1>5
  <1>7. 0 \in In
    <2>1. upTo[0] \in Seq(T \cap S)
      BY <1>6
    <2> QED BY <2>1, <1>0
  <1>8. ASSUME NEW n \in 1..N, n - 1 \in In PROVE n \in In
    <2>1. upTo[n - 1] \in Seq(T \cap S) /\ upTo[n] = Then(upTo[n - 1], n)
      BY <1>6, <1>8
    <2>2. CASE q[n] \in S
      <3>1. q[n] \in T \cap S
        BY <2>2, <1>0
      <3>2. upTo[n] \in Seq(T \cap S)
        BY <3>1, <2>1, <2>2, AppendProperties DEF Then
      <3> QED BY <3>2, <1>0
    <2>3. CASE q[n] \notin S
      <3>1. upTo[n] \in Seq(T \cap S)
        BY <2>1, <2>3 DEF Then
      <3> QED BY <3>1, <1>0
    <2> QED BY <2>2, <2>3
  <1>9. N \in In
    <2> HIDE DEF In
    <2>1. \A i \in 0..N : i \in In
      BY <1>0, <1>7, <1>8, Steps
    <2> QED BY <2>1, <1>0
  <1> QED BY <1>1, <1>9

\* The numbers of a finite set in order: all of them are of it.
LEMMA InOrderIn ==
  ASSUME NEW S \in SUBSET Nat, IsFiniteSet(S)
  PROVE  /\ Cardinality(S) \in Nat /\ DOMAIN InOrder(S) = 1..Cardinality(S)
         /\ \A i \in DOMAIN InOrder(S) : InOrder(S)[i] \in S
  <1> DEFINE N == Cardinality(S)
             Below(n) == {m \in S : m < n}
             rank == [n \in S |-> Cardinality(Below(n))]
  <1>1. N \in Nat
    BY FS_CardinalityType
  <1>2. ASSUME NEW n \in S PROVE IsFiniteSet(Below(n)) /\ rank[n] \in 0..(N - 1)
    <2>1. Below(n) \in SUBSET S /\ Below(n) # S
      OBVIOUS
    <2>2. IsFiniteSet(Below(n)) /\ Cardinality(Below(n)) <= N /\ Cardinality(Below(n)) # N
      BY <2>1, FS_Subset
    <2>3. Cardinality(Below(n)) \in Nat
      BY <2>2, FS_CardinalityType
    <2> QED BY <2>2, <2>3, <1>1
  <1>3. ASSUME NEW n \in S, NEW m \in S, n < m PROVE rank[n] # rank[m]
    <2>1. Below(n) \in SUBSET Below(m) /\ n \in Below(m) /\ n \notin Below(n)
      <3>1. \A k \in S : k \in Nat
        OBVIOUS
      <3>2. \A k \in S : k < n => k < m
        BY <1>3, <3>1
      <3>3. n \in Below(m) /\ n \notin Below(n)
        BY <1>3, <3>1
      <3> QED BY <3>2, <3>3
    <2>2. IsFiniteSet(Below(m))
      BY <1>2
    <2>3. Cardinality(Below(n)) # Cardinality(Below(m))
      BY <2>1, <2>2, FS_Subset
    <2> QED BY <2>3
  <1>4. ASSUME NEW k \in 0..(N - 1) PROVE \E n \in S : rank[n] = k
    <2> DEFINE T == (0..(N - 1)) \ {k}
    <2>1. SUFFICES ASSUME \A n \in S : rank[n] # k PROVE FALSE
      OBVIOUS
    <2>2. IsFiniteSet(0..(N - 1)) /\ Cardinality(0..(N - 1)) = N
      <3>1. 0 \in Int /\ N - 1 \in Int
        BY <1>1
      <3>2. /\ IsFiniteSet(0..(N - 1))
            /\ Cardinality(0..(N - 1)) = IF 0 > N - 1 THEN 0 ELSE N - 1 - 0 + 1
        BY <3>1, FS_Interval
      <3> QED BY <3>2, <1>1
    <2>3. IsFiniteSet(T) /\ Cardinality(T) = N - 1
      BY <2>2, FS_RemoveElement
    <2>4. rank \in [S -> T]
      BY <1>2, <2>1
    <2>5. PICK x, y \in S : x # y /\ rank[x] = rank[y]
      <3> HIDE DEF rank, T
      <3>1. Cardinality(T) < Cardinality(S)
        BY <2>3, <1>1
      <3> QED BY <2>3, <2>4, <3>1, FS_PigeonHole
    <2> QED BY <2>5, <1>3
  <1>5. ASSUME NEW i \in 1..N PROVE (CHOOSE n \in S : Cardinality({m \in S : m < n}) = i - 1) \in S
    <2>1. i - 1 \in 0..(N - 1)
      BY <1>1
    <2>2. \E n \in S : rank[n] = i - 1
      BY <2>1, <1>4
    <2>3. \E n \in S : Cardinality({m \in S : m < n}) = i - 1
      BY <2>2
    <2> QED BY <2>3
  <1> QED BY <1>1, <1>5 DEF InOrder

\* A note moved aside from p, its name chosen after those of the moves before.
Aside(b, after, decided, p, c) ==
  /\ c.kind = "displace"
  /\ \E r : IsSeq(r) /\ c.path = ConflictPath(p, TakenIn(b, after, decided \o r))

\* The occupants of a path are moved aside, and nothing else is.
LEMMA DisplaceIs ==
  ASSUME NEW b, NEW after, NEW decided, NEW p, NEW keeper
  PROVE  LET moves == DisplaceOccupants(b, after, decided, p, keeper)
         IN  IsSeq(moves) /\ \A i \in DOMAIN moves : Aside(b, after, decided, p, moves[i])
  <1> DEFINE q == InOrder(NotesAt(after, p) \ {keeper})
             N == Len(q)
             Then(moves, n) ==
               Append(moves, DisplaceOf(n, ConflictPath(p, TakenIn(b, after, decided \o moves))))
             Is(g, n) == g = [i \in 0..n |-> IF i = 0 THEN <<>> ELSE Then(g[i - 1], q[i])]
             upTo == CHOOSE g : Is(g, N)
             K == {n \in 0..N : \E g : Is(g, n)}
             Fine(s) == IsSeq(s) /\ \A i \in DOMAIN s : Aside(b, after, decided, p, s[i])
             In == {n \in 0..N : Fine(upTo[n])}
  <1>0. N \in Nat
    <2> DEFINE S == NotesAt(after, p) \ {keeper}
    <2>1. S \in SUBSET NoteIds /\ NoteIds \subseteq Nat /\ IsFiniteSet(NoteIds)
      BY SyncAssumption DEF NotesAt
    <2>2. IsFiniteSet(S) /\ S \in SUBSET Nat
      <3> HIDE DEF S
      <3> QED BY <2>1, FS_Subset
    <2>3. Cardinality(S) \in Nat
      BY <2>2, FS_CardinalityType
    <2>4. IsSeq(q)
      <3> HIDE DEF S
      <3> DEFINE r == InOrder(S)
                 val(i) == CHOOSE n \in S : Cardinality({m \in S : m < n}) = i - 1
      <3>0. r = [i \in 1..Cardinality(S) |-> val(i)]
        BY DEF InOrder
      <3> HIDE DEF val, r
      <3>1. r = [i \in 1..Cardinality(S) |-> r[i]]
        BY <3>0
      <3> HIDE DEF r
      <3>2. IsSeq(r)
        BY <3>1, <2>3, MadeIs
      <3> QED BY <3>2 DEF r, S
    <2> HIDE DEF q
    <2> QED BY <2>4, SeqIs
  <1>1. DisplaceOccupants(b, after, decided, p, keeper) = upTo[N]
    BY DEF DisplaceOccupants
  <1>10. 0 \in 0..N /\ N \in 0..N /\ \A i \in 1..N : i \in 0..N
    BY <1>0
  <1> HIDE DEF N
  <1>2. 0 \in K
    <2>1. Is([i \in 0..0 |-> <<>>], 0)
      OBVIOUS
    <2> HIDE DEF Is
    <2> QED BY <2>1, <1>10
  <1>3. ASSUME NEW n \in 1..N, n - 1 \in K PROVE n \in K
    <2> HIDE DEF Then, q
    <2>1. PICK h : Is(h, n - 1)
      BY <1>3
    <2> DEFINE g == [i \in 0..n |-> IF i = n THEN Then(h[n - 1], q[n]) ELSE h[i]]
    <2>2. \A i \in 0..(n - 1) : h[i] = IF i = 0 THEN <<>> ELSE Then(h[i - 1], q[i])
      BY <2>1
    <2>3. \A i \in 0..(n - 1) : g[i] = h[i]
      OBVIOUS
    <2>4. ASSUME NEW i \in 0..n PROVE g[i] = IF i = 0 THEN <<>> ELSE Then(g[i - 1], q[i])
      <3>1. CASE i = n
        BY <3>1, <2>3
      <3>2. CASE i # n
        BY <3>2, <2>2, <2>3
      <3> QED BY <3>1, <3>2
    <2>5. Is(g, n)
      <3>1. g = [i \in 0..n |-> g[i]]
        OBVIOUS
      <3> HIDE DEF g
      <3> QED BY <3>1, <2>4
    <2> HIDE DEF Is
    <2> QED BY <2>5, <1>10
  <1>4. N \in K
    <2> HIDE DEF K
    <2>1. \A i \in 0..N : i \in K
      BY <1>0, <1>2, <1>3, Steps
    <2> QED BY <2>1, <1>10
  <1>5. Is(upTo, N)
    <2> HIDE DEF Is
    <2> QED BY <1>4
  <1> HIDE DEF upTo, K, Then, q
  <1>6. upTo[0] = <<>> /\ \A i \in 1..N : upTo[i] = Then(upTo[i - 1], q[i])
    BY <1>0, <1>10, <1>5
  <1>7. 0 \in In
    <2>1. Fine(<<>>)
      BY Empty
    <2> HIDE DEF Fine
    <2> QED BY <1>6, <1>10, <2>1
  <1>8. ASSUME NEW n \in 1..N, n - 1 \in In PROVE n \in In
    <2> DEFINE s == upTo[n - 1]
               x == DisplaceOf(q[n], ConflictPath(p, TakenIn(b, after, decided \o s)))
    <2>1. Fine(s) /\ upTo[n] = Append(s, x)
      BY <1>6, <1>8 DEF Then
    <2>2. Aside(b, after, decided, p, x)
      <3>1. x.kind = "displace" /\ x.path = ConflictPath(p, TakenIn(b, after, decided \o s))
        BY DEF DisplaceOf, Change
      <3> HIDE DEF x, s
      <3> QED BY <2>1, <3>1 DEF Aside
    <2>3. Fine(Append(s, x))
      <3> HIDE DEF s, x
      <3>1. DOMAIN s = 1..Len(s) /\ Len(s) \in Nat
        BY <2>1, SeqIs
      <3> QED BY <2>1, <2>2, <3>1, AppendIs
    <2> HIDE DEF Fine
    <2> QED BY <2>1, <2>3, <1>10
  <1>9. N \in In
    <2> HIDE DEF In
    <2>1. \A i \in 0..N : i \in In
      BY <1>0, <1>7, <1>8, Steps
    <2> QED BY <2>1, <1>10
  <1> QED BY <1>1, <1>9

-----------------------------------------------------------------------------
(* The remote: what becomes of it undoes nothing that is held of it.         *)

\* A file gone stays gone, and a text changes with its version.
Grows(w, v) ==
  /\ DOMAIN w \subseteq DOMAIN v
  /\ \A f \in DOMAIN w : v[f] # Gone =>
       /\ w[f] # Gone /\ w[f].version <= v[f].version
       /\ v[f].version = w[f].version => v[f].text = w[f].text

LEMMA KeepsKnown ==
  ASSUME NEW w, NEW v, RemoteTrue(w), RemoteTrue(v), Grows(w, v), NEW f, Known(w, f)
  PROVE  Known(v, f)
  <1>1. f.id \in DOMAIN w /\ f.id \in DOMAIN v /\ f.version \in Nat
    BY DEF Known, Grows
  <1>2. ASSUME v[f.id] # Gone PROVE f.version <= v[f.id].version
    <2>1. /\ w[f.id] # Gone /\ w[f.id].version <= v[f.id].version
          /\ w[f.id].version \in Nat /\ v[f.id].version \in Nat
      BY <1>1, <1>2 DEF Grows, RemoteTrue
    <2>2. f.version <= w[f.id].version
      BY <2>1 DEF Known
    <2> QED BY <2>1, <2>2, <1>1
  <1> QED BY <1>1, <1>2 DEF Known

LEMMA KeepsReads ==
  ASSUME NEW w, NEW v, RemoteTrue(w), RemoteTrue(v), Grows(w, v), NEW f, NEW t, Reads(w, f, t)
  PROVE  Reads(v, f, t)
  <1>1. Known(w, f) /\ Known(v, f)
    BY KeepsKnown DEF Reads
  <1>2. f.id \in DOMAIN w /\ f.version \in Nat
    BY <1>1 DEF Known
  <1>3. ASSUME v[f.id] # Gone, v[f.id].version = f.version PROVE v[f.id].text = t
    <2>1. /\ w[f.id] # Gone /\ w[f.id].version <= v[f.id].version
          /\ w[f.id].version \in Nat /\ v[f.id].version \in Nat
      BY <1>2, <1>3 DEF Grows, RemoteTrue
    <2>2. f.version <= w[f.id].version
      BY <2>1, <1>1 DEF Known
    <2>3. w[f.id].version = f.version
      BY <2>1, <2>2, <1>2, <1>3
    <2> QED BY <2>1, <2>3, <1>2, <1>3 DEF Grows, Reads
  <1> QED BY <1>1, <1>3 DEF Reads

LEMMA KeepsRow ==
  ASSUME NEW w, NEW v, RemoteTrue(w), RemoteTrue(v), Grows(w, v), NEW r, RowTrue(w, r)
  PROVE  RowTrue(v, r)
  BY KeepsReads DEF RowTrue

LEMMA KeepsTable ==
  ASSUME NEW w, NEW v, RemoteTrue(w), RemoteTrue(v), Grows(w, v), NEW t, TableTrue(w, t)
  PROVE  TableTrue(v, t)
  BY KeepsRow DEF TableTrue

LEMMA KeepsChange ==
  ASSUME NEW w, NEW v, RemoteTrue(w), RemoteTrue(v), Grows(w, v), NEW c, ChangeTrue(w, c)
  PROVE  ChangeTrue(v, c)
  BY KeepsReads DEF ChangeTrue

LEMMA KeepsChanges ==
  ASSUME NEW w, NEW v, RemoteTrue(w), RemoteTrue(v), Grows(w, v), NEW q, ChangesTrue(w, q)
  PROVE  ChangesTrue(v, q)
  BY KeepsChange DEF ChangesTrue

LEMMA KeepsHold ==
  ASSUME NEW w, NEW v, RemoteTrue(w), RemoteTrue(v), Grows(w, v), NEW t, NEW e, HoldTrue(w, t, e)
  PROVE  HoldTrue(v, t, e)
  <1>1. Held(v, t, e)
    BY KeepsRow DEF HoldTrue, Held
  <1>2. e.pc = "landed" => Reads(v, e.file, e.row.text)
    BY KeepsReads DEF HoldTrue
  <1>3. e.pc = "rewrite" => Reads(v, e.file, e.row.synced)
    BY KeepsReads DEF HoldTrue
  <1>4. e.pc \in {"met", "weigh"} => Known(v, e.file)
    BY KeepsKnown DEF HoldTrue
  <1>5. e.pc = "weigh" => Reads(v, [id |-> e.file.id, version |-> e.version], e.text)
    BY KeepsReads DEF HoldTrue
  <1> QED BY <1>1, <1>2, <1>3, <1>4, <1>5 DEF HoldTrue

LEMMA KeepsEng ==
  ASSUME NEW w, NEW v, RemoteTrue(w), RemoteTrue(v), Grows(w, v), NEW t, NEW e, EngTrue(w, t, e)
  PROVE  EngTrue(v, t, e)
  <1>1. DecideTrue(w, e) => DecideTrue(v, e)
    BY KeepsKnown, KeepsChanges DEF DecideTrue, EntryTrue
  <1> QED BY <1>1, KeepsChanges, KeepsHold DEF EngTrue

LEMMA GrowsSame ==
  ASSUME NEW w, RemoteTrue(w)
  PROVE  Grows(w, w)
  BY DEF Grows, RemoteTrue

-----------------------------------------------------------------------------
(* What a request makes of the remote.                                       *)

LEMMA FilesNat ==
  ASSUME IInv
  PROVE  Files = 1..Len(remote) /\ Len(remote) \in Nat
  BY SeqIs DEF IInv, RemoteTrue, Files

\* What the feed has to tell stays a list of files.
LEMMA ToldTrue ==
  ASSUME IInv, NEW f, f \in Files', Files \subseteq Files', news' = Told(f)
  PROVE  NewsTrue'
  <1>1. ASSUME NEW d \in Devices PROVE Told(f)[d] \in Seq(Files')
    <2>1. news[d] \in Seq(Files)
      BY DEF IInv, NewsTrue
    <2>2. Only(news[d], Files \ {f}) \in Seq(Files \cap (Files \ {f}))
      BY <2>1, OnlyIn
    <2>3. Only(news[d], Files \ {f}) \in Seq(Files')
      BY <2>2, SeqMonotonic
    <2>4. Append(Only(news[d], Files \ {f}), f) \in Seq(Files')
      BY <2>3, AppendProperties
    <2> QED BY <2>4 DEF Told
  <1>2. Told(f) = [d \in Devices |-> Told(f)[d]]
    BY DEF Told
  <1> QED BY <1>1, <1>2 DEF NewsTrue

\* A file is replaced by what it grows to.
LEMMA SetGrows ==
  ASSUME IInv, NEW f \in Files, NEW file, RemoteSet(f, file),
         file # Gone =>
           /\ file = [path |-> file.path, text |-> file.text, version |-> file.version]
           /\ file.version \in Nat /\ Alive(f) /\ remote[f].version <= file.version
           /\ file.version = remote[f].version => file.text = remote[f].text
  PROVE  /\ RemoteTrue(remote') /\ Grows(remote, remote') /\ NewsTrue'
         /\ Files' = Files /\ remote' = [remote EXCEPT ![f] = file] /\ remote'[f] = file
  <1>1. RemoteTrue(remote) /\ Files = 1..Len(remote) /\ Len(remote) \in Nat
    BY FilesNat DEF IInv
  <1>2. remote' = [remote EXCEPT ![f] = file] /\ news' = Told(f)
    BY DEF RemoteSet
  <1>3. DOMAIN remote' = Files /\ remote'[f] = file /\ \A g \in Files : g # f => remote'[g] = remote[g]
    BY <1>2 DEF Files
  <1>4. IsSeq(remote')
    <2>1. remote' = [g \in 1..Len(remote) |-> remote'[g]]
      BY <1>1, <1>2 DEF Files
    <2> QED BY <2>1, <1>1, MadeIs
  <1>5. RemoteTrue(remote')
    <2>1. ASSUME NEW g \in Files, remote'[g] # Gone
          PROVE  /\ remote'[g] = [path |-> remote'[g].path, text |-> remote'[g].text,
                                  version |-> remote'[g].version]
                 /\ remote'[g].version \in Nat
      <3>1. CASE g = f
        BY <2>1, <3>1, <1>3
      <3>2. CASE g # f
        <4>1. remote'[g] = remote[g]
          BY <3>2, <1>3
        <4> QED BY <2>1, <4>1, <1>1 DEF RemoteTrue, Files
      <3> QED BY <3>1, <3>2
    <2> QED BY <2>1, <1>3, <1>4 DEF RemoteTrue
  <1>6. Grows(remote, remote')
    <2>1. ASSUME NEW g \in Files, remote'[g] # Gone
          PROVE  /\ remote[g] # Gone /\ remote[g].version <= remote'[g].version
                 /\ remote'[g].version = remote[g].version => remote'[g].text = remote[g].text
      <3>1. CASE g = f
        BY <2>1, <3>1, <1>3 DEF Alive
      <3>2. CASE g # f
        <4>1. remote'[g] = remote[g]
          BY <3>2, <1>3
        <4>2. remote[g].version \in Nat
          BY <4>1, <2>1, <1>1 DEF RemoteTrue, Files
        <4> QED BY <2>1, <4>1, <4>2
      <3> QED BY <3>1, <3>2
    <2> QED BY <2>1, <1>3 DEF Grows, Files
  <1>7. Files' = Files
    BY <1>3 DEF Files
  <1>8. NewsTrue'
    BY <1>2, <1>7, ToldTrue
  <1> QED BY <1>2, <1>3, <1>5, <1>6, <1>7, <1>8

LEMMA WriteGrows ==
  ASSUME IInv, NEW f \in Files, Alive(f), NEW text, RemoteWrites(f, text)
  PROVE  /\ RemoteTrue(remote') /\ Grows(remote, remote') /\ NewsTrue' /\ f \in Files'
         /\ remote'[f].text = text /\ remote'[f].version = remote[f].version + 1
         /\ Files' = Files /\ \A g \in Files : g # f => remote'[g] = remote[g]
  <1> DEFINE file == [remote[f] EXCEPT !.text = text, !.version = NewVersion(f)]
  <1>1. /\ remote[f] = [path |-> remote[f].path, text |-> remote[f].text, version |-> remote[f].version]
        /\ remote[f].version \in Nat
    BY DEF IInv, RemoteTrue, Files, Alive
  <1>2. /\ file = [path |-> file.path, text |-> file.text, version |-> file.version]
        /\ file.version = remote[f].version + 1 /\ file.text = text
    <2> DEFINE r == remote[f]
    <2>1. PICK a, b, c : r = [path |-> a, text |-> b, version |-> c]
      BY <1>1
    <2>2. file = [r EXCEPT !.text = text, !.version = r.version + 1]
      BY DEF NewVersion
    <2> HIDE DEF r, file
    <2>3. file = [path |-> a, text |-> text, version |-> c + 1] /\ r.version = c
      BY <2>1, <2>2
    <2> QED BY <2>3 DEF r
  <1>3. RemoteSet(f, file)
    BY DEF RemoteWrites
  <1>4. file.version \in Nat /\ remote[f].version <= file.version /\ file.version # remote[f].version
    <2> HIDE DEF file
    <2> QED BY <1>1, <1>2
  <1> HIDE DEF file
  <1>5. /\ RemoteTrue(remote') /\ Grows(remote, remote') /\ NewsTrue'
        /\ Files' = Files /\ remote' = [remote EXCEPT ![f] = file] /\ remote'[f] = file
    BY <1>2, <1>3, <1>4, SetGrows
  <1> QED BY <1>2, <1>5 DEF Files

LEMMA MoveGrows ==
  ASSUME IInv, NEW f \in Files, Alive(f), NEW p, RemoteMoves(f, p)
  PROVE  /\ RemoteTrue(remote') /\ Grows(remote, remote') /\ NewsTrue' /\ f \in Files'
         /\ Files' = Files /\ \A g \in Files : remote'[g] # Gone => remote'[g].text = remote[g].text
         /\ MovedVersion(f) \in Nat /\ remote'[f].version = MovedVersion(f)
         /\ remote'[f].text = remote[f].text
  <1> DEFINE file == [remote[f] EXCEPT !.path = p, !.version = MovedVersion(f)]
  <1>1. /\ remote[f] = [path |-> remote[f].path, text |-> remote[f].text, version |-> remote[f].version]
        /\ remote[f].version \in Nat
    BY DEF IInv, RemoteTrue, Files, Alive
  <1>2. /\ file = [path |-> file.path, text |-> file.text, version |-> file.version]
        /\ file.version = MovedVersion(f) /\ file.text = remote[f].text
    <2> DEFINE r == remote[f]
    <2>1. PICK a, b, c : r = [path |-> a, text |-> b, version |-> c]
      BY <1>1
    <2>2. file = [r EXCEPT !.path = p, !.version = MovedVersion(f)]
      OBVIOUS
    <2> HIDE DEF r, file
    <2>3. file = [path |-> p, text |-> b, version |-> MovedVersion(f)] /\ r.text = b
      BY <2>1, <2>2
    <2> QED BY <2>3 DEF r
  <1>3. RemoteSet(f, file)
    BY DEF RemoteMoves
  <1>4. MovedVersion(f) \in Nat /\ remote[f].version <= MovedVersion(f)
    BY <1>1 DEF MovedVersion, NewVersion
  <1> HIDE DEF file
  <1>5. /\ RemoteTrue(remote') /\ Grows(remote, remote') /\ NewsTrue'
        /\ Files' = Files /\ remote' = [remote EXCEPT ![f] = file] /\ remote'[f] = file
    BY <1>2, <1>3, <1>4, SetGrows
  <1> QED BY <1>2, <1>4, <1>5 DEF Files

LEMMA GoneGrows ==
  ASSUME IInv, NEW f \in Files, RemoteSet(f, Gone)
  PROVE  /\ RemoteTrue(remote') /\ Grows(remote, remote') /\ NewsTrue'
         /\ \A g \in Files : remote'[g] # Gone => remote'[g] = remote[g]
  <1>1. /\ RemoteTrue(remote') /\ Grows(remote, remote') /\ NewsTrue'
        /\ Files' = Files /\ remote' = [remote EXCEPT ![f] = Gone] /\ remote'[f] = Gone
    BY SetGrows
  <1> QED BY <1>1 DEF Files

LEMMA MakeGrows ==
  ASSUME IInv, NEW p, NEW text, RemoteMakes(p, text)
  PROVE  LET f == Len(remote) + 1
         IN  /\ RemoteTrue(remote') /\ Grows(remote, remote') /\ NewsTrue'
             /\ f \in Files' /\ remote'[f].text = text /\ remote'[f].version = 0
             /\ \A g \in Files : remote'[g] = remote[g]
  <1> DEFINE file == [path |-> p, text |-> text, version |-> 0]
             f == Len(remote) + 1
  <1>1. RemoteTrue(remote) /\ Files = 1..Len(remote) /\ Len(remote) \in Nat
    BY FilesNat DEF IInv
  <1>2. remote' = Append(remote, file) /\ news' = Told(f)
    BY DEF RemoteMakes
  <1>3. /\ IsSeq(remote') /\ DOMAIN remote' = 1..f /\ remote'[f] = file
        /\ \A g \in Files : remote'[g] = remote[g]
    <2> HIDE DEF file
    <2> QED BY <1>1, <1>2, AppendIs DEF RemoteTrue, Files
  <1>4. Files' = 1..f /\ f \in Files' /\ Files \subseteq Files' /\ \A g \in Files' : g = f \/ g \in Files
    BY <1>1, <1>3 DEF Files
  <1>5. RemoteTrue(remote')
    <2>1. ASSUME NEW g \in Files', remote'[g] # Gone
          PROVE  /\ remote'[g] = [path |-> remote'[g].path, text |-> remote'[g].text,
                                  version |-> remote'[g].version]
                 /\ remote'[g].version \in Nat
      <3>1. CASE g = f
        BY <3>1, <1>3
      <3>2. CASE g # f
        <4>1. remote'[g] = remote[g] /\ g \in Files
          BY <3>2, <1>3, <1>4
        <4> QED BY <2>1, <4>1, <1>1 DEF RemoteTrue, Files
      <3> QED BY <3>1, <3>2
    <2> QED BY <2>1, <1>3 DEF RemoteTrue, Files
  <1>6. Grows(remote, remote')
    <2>1. ASSUME NEW g \in Files, remote'[g] # Gone
          PROVE  /\ remote[g] # Gone /\ remote[g].version <= remote'[g].version
                 /\ remote'[g].version = remote[g].version => remote'[g].text = remote[g].text
      <3>1. remote'[g] = remote[g]
        BY <1>3
      <3>2. remote[g].version \in Nat
        BY <3>1, <2>1, <1>1 DEF RemoteTrue, Files
      <3> QED BY <2>1, <3>1, <3>2
    <2> QED BY <2>1, <1>4 DEF Grows, Files
  <1>7. NewsTrue'
    BY <1>2, <1>4, ToldTrue
  <1> QED BY <1>3, <1>4, <1>5, <1>6, <1>7

-----------------------------------------------------------------------------
(* The queue: an op is about a note, whatever is done to the queue.          *)

LEMMA OpIs ==
  ASSUME NEW s, NEW n \in NoteIds, NEW kind, NEW from, NEW to
  PROVE  OpTrue(MoveOp(s, n, from, to)) /\ OpTrue(NoteOp(s, kind, n))
  BY DEF OpTrue, MoveOp, NoteOp

LEMMA WriteOps ==
  ASSUME NEW q, OpsTrue(q), NEW s, NEW n \in NoteIds, NEW row, NEW except
  PROVE  OpsTrue(QueueWrite(q, s, n, row, except))
  BY OpIs DEF QueueWrite, OpsTrue

LEMMA MoveOps ==
  ASSUME NEW q, OpsTrue(q), NEW s, NEW n \in NoteIds, NEW row, NEW from
  PROVE  OpsTrue(QueueMove(q, s, n, row, from))
  <1>1. QueueMove(q, s, n, row, from) = q
        \/ \E O \in SUBSET q : \E a :
             QueueMove(q, s, n, row, from) \in {O, O \cup {MoveOp(s, n, a, row.path)}}
    <2> DEFINE m == Moves(q, n)
               a == IF m = {} THEN from ELSE (CHOOSE o \in m : TRUE).path
    <2>1. \/ QueueMove(q, s, n, row, from) = q
          \/ QueueMove(q, s, n, row, from) = q \ m
          \/ QueueMove(q, s, n, row, from) = (q \ m) \cup {MoveOp(s, n, a, row.path)}
      BY DEF QueueMove
    <2> HIDE DEF m, a
    <2> QED BY <2>1
  <1> QED BY <1>1, OpIs DEF OpsTrue

LEMMA DeleteOps ==
  ASSUME NEW q, OpsTrue(q), NEW s, NEW n \in NoteIds, NEW row
  PROVE  OpsTrue(QueueDelete(q, s, n, row))
  BY OpIs DEF QueueDelete, OpsTrue

LEMMA EditOps ==
  ASSUME NEW q, OpsTrue(q), NEW s, NEW n \in NoteIds, NEW row, NEW from
  PROVE  OpsTrue(QueueEdit(q, s, n, row, from))
  BY WriteOps, MoveOps DEF QueueEdit

LEMMA WithoutOps ==
  ASSUME NEW q, OpsTrue(q), NEW seq
  PROVE  OpsTrue(Without(q, seq))
  BY DEF Without, OpsTrue

\* An op changed in its paths is an op of the same note.
LEMMA PathsOps ==
  ASSUME NEW o, OpTrue(o), NEW p, NEW r
  PROVE  OpTrue([o EXCEPT !.path = p]) /\ OpTrue([o EXCEPT !.path = p, !.target = r])
  <1> DEFINE Ops(x, y) == [seq : {o.seq}, kind : {o.kind}, note : {o.note}, path : {x}, target : {y}]
  <1>1. o \in Ops(o.path, o.target) /\ o.note \in NoteIds
    BY DEF OpTrue
  <1>2. /\ [o EXCEPT !.path = p] \in Ops(p, o.target)
        /\ [o EXCEPT !.path = p, !.target = r] \in Ops(p, r)
    BY <1>1
  <1>3. ASSUME NEW x, NEW y, NEW q \in Ops(x, y) PROVE OpTrue(q)
    BY <1>1, <1>3 DEF OpTrue
  <1> HIDE DEF Ops
  <1> QED BY <1>2, <1>3

LEMMA OriginOps ==
  ASSUME NEW q, OpsTrue(q), NEW n, NEW at
  PROVE  OpsTrue(OriginIsNow(q, n, at))
  <1>1. \A o \in q : OpTrue(o) /\ OpTrue([o EXCEPT !.path = at])
    BY PathsOps DEF OpsTrue
  <1> QED BY <1>1 DEF OriginIsNow, OpsTrue

LEMMA RebaseOps ==
  ASSUME NEW q, OpsTrue(q), NEW n, NEW from, NEW to
  PROVE  OpsTrue(RebaseOwnOps(q, n, from, to))
  <1> DEFINE there(o) == [o EXCEPT !.path = IF @ = from THEN to ELSE @,
                                   !.target = IF @ = from THEN to ELSE @]
  <1>1. ASSUME NEW o, OpTrue(o) PROVE OpTrue(there(o))
    <2> DEFINE p == IF o.path = from THEN to ELSE o.path
               r == IF o.target = from THEN to ELSE o.target
    <2>1. OpTrue([o EXCEPT !.path = p, !.target = r])
      <3> HIDE DEF p, r
      <3> QED BY <1>1, PathsOps
    <2>2. there(o) = [o EXCEPT !.path = p, !.target = r]
      BY <1>1 DEF OpTrue
    <2> HIDE DEF there, p, r
    <2> QED BY <2>1, <2>2
  <1>2. RebaseOwnOps(q, n, from, to) = {IF o.note = n THEN there(o) ELSE o : o \in q}
    BY DEF RebaseOwnOps
  <1> HIDE DEF there
  <1> QED BY <1>1, <1>2 DEF OpsTrue

-----------------------------------------------------------------------------
(* Rows.                                                                     *)

\* The rows there can be with given fields: one.
RowOf(a, b, c, d, f, s) ==
  [path : {a}, text : {b}, dirty : {c}, deleted : {d}, file : {f}, synced : {s}]

LEMMA RowMade ==
  ASSUME NEW w, NEW a, NEW b, NEW c, NEW d, NEW f, NEW s, f # NoFile => Reads(w, f, s),
         NEW r \in RowOf(a, b, c, d, f, s)
  PROVE  RowTrue(w, r) /\ r.synced = s
  BY DEF RowTrue, RowOf

LEMMA RowParts ==
  ASSUME NEW w, NEW r, RowTrue(w, r)
  PROVE  /\ r \in RowOf(r.path, r.text, r.dirty, r.deleted, r.file, r.synced)
         /\ r.file # NoFile => Reads(w, r.file, r.synced)
  BY DEF RowTrue, RowOf

\* What the user does to a row leaves what it is bound to.
LEMMA RowEdited ==
  ASSUME NEW w, NEW r, RowTrue(w, r), NEW p, NEW k
  PROVE  /\ LET x == [r EXCEPT !.text.body = k, !.dirty = TRUE]
            IN  RowTrue(w, x) /\ x.synced = r.synced
         /\ LET x == [r EXCEPT !.path = p, !.dirty = TRUE]
            IN  RowTrue(w, x) /\ x.synced = r.synced
         /\ LET x == [r EXCEPT !.deleted = TRUE, !.dirty = TRUE]
            IN  RowTrue(w, x) /\ x.synced = r.synced
         /\ LET x == [r EXCEPT !.path = p]
            IN  RowTrue(w, x) /\ x.synced = r.synced
         /\ RowTrue(w, [r EXCEPT !.text.id = k])
  <1> DEFINE a == r.path  b == r.text  c == r.dirty  d == r.deleted  f == r.file  s == r.synced
  <1>1. r \in RowOf(a, b, c, d, f, s) /\ (f # NoFile => Reads(w, f, s))
    BY RowParts
  <1> HIDE DEF a, b, c, d, f
  <1>2. [r EXCEPT !.text.body = k, !.dirty = TRUE] \in RowOf(a, [b EXCEPT !.body = k], TRUE, d, f, s)
    BY <1>1 DEF RowOf
  <1>3. [r EXCEPT !.path = p, !.dirty = TRUE] \in RowOf(p, b, TRUE, d, f, s)
    BY <1>1 DEF RowOf
  <1>4. [r EXCEPT !.deleted = TRUE, !.dirty = TRUE] \in RowOf(a, b, TRUE, TRUE, f, s)
    BY <1>1 DEF RowOf
  <1>5. [r EXCEPT !.path = p] \in RowOf(p, b, c, d, f, s)
    BY <1>1 DEF RowOf
  <1>6. [r EXCEPT !.text.id = k] \in RowOf(a, [b EXCEPT !.id = k], c, d, f, s)
    BY <1>1 DEF RowOf
  <1>7. ASSUME NEW a1, NEW b1, NEW c1, NEW d1, NEW x \in RowOf(a1, b1, c1, d1, f, s)
        PROVE  RowTrue(w, x) /\ x.synced = r.synced
    <2>1. s = r.synced
      OBVIOUS
    <2> HIDE DEF s
    <2> QED BY <1>1, <1>7, <2>1 DEF RowTrue, RowOf
  <1> HIDE DEF s
  <1>8. LET x == [r EXCEPT !.text.body = k, !.dirty = TRUE] IN RowTrue(w, x) /\ x.synced = r.synced
    BY <1>2, <1>7
  <1>9. LET x == [r EXCEPT !.path = p, !.dirty = TRUE] IN RowTrue(w, x) /\ x.synced = r.synced
    BY <1>3, <1>7
  <1>10. LET x == [r EXCEPT !.deleted = TRUE, !.dirty = TRUE] IN RowTrue(w, x) /\ x.synced = r.synced
    BY <1>4, <1>7
  <1>11. LET x == [r EXCEPT !.path = p] IN RowTrue(w, x) /\ x.synced = r.synced
    BY <1>5, <1>7
  <1>12. RowTrue(w, [r EXCEPT !.text.id = k])
    BY <1>6, <1>7
  <1> QED BY <1>8, <1>9, <1>10, <1>11, <1>12

\* What the engine does to one binds it to what is read, or to nothing.
LEMMA RowBound ==
  ASSUME NEW w, NEW r, RowTrue(w, r), NEW g, NEW t, Reads(w, g, t), NEW p, NEW k
  PROVE  /\ RowTrue(w, [r EXCEPT !.file = g, !.synced = t])
         /\ RowTrue(w, [r EXCEPT !.path = p, !.file = g, !.synced = t])
         /\ RowTrue(w, [r EXCEPT !.file = g, !.synced = t, !.dirty = @ /\ k])
         /\ t = r.synced => RowTrue(w, [r EXCEPT !.file = g]) /\ RowTrue(w, [[r EXCEPT !.file = g] EXCEPT !.path = p])
  <1> DEFINE a == r.path  b == r.text  c == r.dirty  d == r.deleted  f == r.file  s == r.synced
  <1>1. r \in RowOf(a, b, c, d, f, s)
    BY RowParts
  <1> HIDE DEF a, b, c, d, f
  <1>2. [r EXCEPT !.file = g, !.synced = t] \in RowOf(a, b, c, d, g, t)
    BY <1>1 DEF RowOf
  <1>3. [r EXCEPT !.path = p, !.file = g, !.synced = t] \in RowOf(p, b, c, d, g, t)
    BY <1>1 DEF RowOf
  <1>4. [r EXCEPT !.file = g, !.synced = t, !.dirty = @ /\ k] \in RowOf(a, b, r.dirty /\ k, d, g, t)
    BY <1>1 DEF RowOf
  <1>5. [r EXCEPT !.file = g] \in RowOf(a, b, c, d, g, s)
    BY <1>1 DEF RowOf
  <1>6. [[r EXCEPT !.file = g] EXCEPT !.path = p] \in RowOf(p, b, c, d, g, s)
    BY <1>1 DEF RowOf
  <1>7. RowTrue(w, [r EXCEPT !.file = g, !.synced = t, !.dirty = @ /\ k])
    <2> DEFINE x == [r EXCEPT !.file = g, !.synced = t, !.dirty = @ /\ k]  h == r.dirty /\ k
    <2>1. x \in RowOf(a, b, h, d, g, t)
      BY <1>4
    <2> HIDE DEF x, h
    <2>2. RowTrue(w, x)
      BY <2>1, RowMade
    <2> QED BY <2>2 DEF x
  <1> QED BY <1>2, <1>3, <1>5, <1>6, <1>7, RowMade

LEMMA RowLoosed ==
  ASSUME NEW w, NEW r, RowTrue(w, r)
  PROVE  RowTrue(w, WithoutRemote(r)) /\ RowTrue(w, [WithoutRemote(r) EXCEPT !.dirty = TRUE])
  <1> DEFINE a == r.path  b == r.text  c == r.dirty  d == r.deleted  f == r.file  s == r.synced
  <1>1. r \in RowOf(a, b, c, d, f, s)
    BY RowParts
  <1> HIDE DEF a, b, c, d, f, s
  <1>2. WithoutRemote(r) \in RowOf(a, b, c, d, NoFile, NoSynced)
    BY <1>1 DEF RowOf, WithoutRemote
  <1>3. [WithoutRemote(r) EXCEPT !.dirty = TRUE] \in RowOf(a, b, TRUE, d, NoFile, NoSynced)
    BY <1>2 DEF RowOf
  <1> QED BY <1>2, <1>3, RowMade

LEMMA PutRow ==
  ASSUME NEW w, NEW t, TableTrue(w, t), NEW n, NEW r, r = NoRow \/ RowTrue(w, r)
  PROVE  /\ TableTrue(w, [t EXCEPT ![n] = r])
         /\ n \in NoteIds => [t EXCEPT ![n] = r][n] = r
         /\ \A m \in NoteIds : m # n => [t EXCEPT ![n] = r][m] = t[m]
         /\ n \notin NoteIds => [t EXCEPT ![n] = r] = t
  <1>1. t = [m \in NoteIds |-> t[m]] /\ \A m \in NoteIds : t[m] = NoRow \/ RowTrue(w, t[m])
    BY DEF TableTrue
  <1> DEFINE u == [t EXCEPT ![n] = r]
  <1>2. DOMAIN t = NoteIds
    BY <1>1
  <1>3. /\ u = [m \in NoteIds |-> u[m]]
        /\ n \in NoteIds => u[n] = r
        /\ \A m \in NoteIds : m # n => u[m] = t[m]
    BY <1>2
  <1>4. n \notin NoteIds => u = t
    <2>1. n \notin NoteIds => \A m \in NoteIds : u[m] = t[m]
      BY <1>3
    <2> HIDE DEF u
    <2> QED BY <2>1, <1>1, <1>3
  <1>5. TableTrue(w, u)
    <2> HIDE DEF u
    <2> QED BY <1>1, <1>3 DEF TableTrue
  <1> QED BY <1>3, <1>4, <1>5

-----------------------------------------------------------------------------
(* The store: what is read may be stored.                                    *)

StoreTrue(w, st) ==
  st = [rows |-> st.rows, ops |-> st.ops] /\ TableTrue(w, st.rows) /\ OpsTrue(st.ops)

LEMMA StoreIs ==
  ASSUME NEW w, NEW t, NEW q, TableTrue(w, t), OpsTrue(q)
  PROVE  StoreTrue(w, [rows |-> t, ops |-> q])
  BY DEF StoreTrue

LEMMA StoreRow ==
  ASSUME NEW w, NEW st, StoreTrue(w, st), NEW n \in NoteIds, st.rows[n] # NoRow
  PROVE  RowTrue(w, st.rows[n])
  BY DEF StoreTrue, TableTrue

\* The row under n, whatever it is, is replaced by one that is so.
LEMMA StorePut ==
  ASSUME NEW w, NEW st, StoreTrue(w, st), NEW n, NEW r, n \in NoteIds => r = NoRow \/ RowTrue(w, r),
         NEW q, OpsTrue(q)
  PROVE  StoreTrue(w, [rows |-> [st.rows EXCEPT ![n] = r], ops |-> q])
  <1> DEFINE t == st.rows
  <1>1. TableTrue(w, t)
    BY DEF StoreTrue
  <1>2. TableTrue(w, [t EXCEPT ![n] = r])
    <2>1. CASE n \in NoteIds
      BY <1>1, <2>1, PutRow
    <2>2. CASE n \notin NoteIds
      <3>1. t = [m \in NoteIds |-> t[m]]
        BY <1>1 DEF TableTrue
      <3>2. \A m \in NoteIds : [t EXCEPT ![n] = r][m] = t[m]
        BY <2>2, <3>1
      <3> DEFINE u == [t EXCEPT ![n] = r]
      <3>3. u = [m \in NoteIds |-> u[m]]
        BY <3>1
      <3> HIDE DEF u, t
      <3>4. u = t
        BY <3>1, <3>2, <3>3 DEF u
      <3> QED BY <1>1, <3>4 DEF u
    <2> QED BY <2>1, <2>2
  <1> QED BY <1>2, StoreIs

\* Any change but a conflict, on a store that takes it.
LEMMA SimpleTrue ==
  ASSUME NEW w, NEW st, StoreTrue(w, st), NEW s, NEW c, ChangeTrue(w, c), Takes(st, c),
         c.kind # "conflict"
  PROVE  StoreTrue(w, ApplyChange(st, s, c))
  <1> DEFINE row == st.rows[c.note]
  <1>0. OpsTrue(st.ops) /\ (c.note \in NoteIds /\ row # NoRow => RowTrue(w, row))
    BY StoreRow DEF StoreTrue
  <1>1. CASE c.kind = "upsert"
    <2>1. Reads(w, c.file, c.text)
      BY <1>1 DEF ChangeTrue
    <2>2. RowTrue(w, RowFromFile(row, c))
      BY <2>1 DEF RowTrue, RowFromFile
    <2>3. StoreTrue(w, Upsert(st, c))
      BY <1>0, <2>2, StorePut, OriginOps DEF Upsert
    <2> QED BY <1>1, <2>3 DEF ApplyChange
  <1>2. CASE c.kind = "adopt"
    <2>1. Reads(w, c.file, c.synced) /\ row # NoRow
      BY <1>2 DEF ChangeTrue, Takes
    <2>2. c.note \in NoteIds => RowTrue(w, [row EXCEPT !.file = c.file, !.synced = c.synced])
      BY <1>0, <2>1, RowBound
    <2>3. StoreTrue(w, AdoptVersion(st, c))
      BY <1>0, <2>2, StorePut, OriginOps DEF AdoptVersion
    <2> QED BY <1>2, <2>3 DEF ApplyChange
  <1>3. CASE c.kind = "move"
    <2>1. Reads(w, c.file, c.synced) /\ row # NoRow
      BY <1>3 DEF ChangeTrue, Takes
    <2>2. c.note \in NoteIds =>
            RowTrue(w, [row EXCEPT !.path = c.path, !.file = c.file, !.synced = c.synced])
      BY <1>0, <2>1, RowBound
    <2>3. StoreTrue(w, MoveNote(st, c))
      BY <1>0, <2>2, StorePut, RebaseOps DEF MoveNote
    <2> QED BY <1>3, <2>3 DEF ApplyChange
  <1>4. CASE c.kind = "delete"
    <2>1. StoreTrue(w, DeleteNote(st, c))
      BY <1>0, StorePut DEF DeleteNote
    <2> QED BY <1>4, <2>1 DEF ApplyChange
  <1>5. CASE c.kind = "detach"
    <2>1. row # NoRow /\ c.note \in NoteIds => RowTrue(w, WithoutRemote(row))
      BY <1>0, RowLoosed
    <2>2. StoreTrue(w, DetachNote(st, c))
      BY <1>0, <2>1, StorePut DEF DetachNote
    <2> QED BY <1>5, <2>2 DEF ApplyChange
  <1>6. CASE c.kind = "displace"
    <2>1. row # NoRow /\ c.note \in NoteIds => RowTrue(w, [row EXCEPT !.path = c.path])
      BY <1>0, RowEdited
    <2>2. StoreTrue(w, DisplaceNote(st, c))
      BY <1>0, <2>1, StorePut, RebaseOps DEF DisplaceNote
    <2> QED BY <1>6, <2>2 DEF ApplyChange
  <1>7. CASE c.kind = "reupload"
    <2>1. c.note \in NoteIds
      BY <1>7 DEF ChangeTrue
    <2>2. Live(row) => RowTrue(w, [WithoutRemote(row) EXCEPT !.dirty = TRUE])
      BY <1>0, <2>1, RowLoosed DEF Live
    <2>3. OpsTrue(st.ops \cup {NoteOp(s, "write", c.note)})
      BY <1>0, <2>1, OpIs DEF OpsTrue
    <2>4. StoreTrue(w, ReuploadNote(st, s, c))
      BY <2>2, <2>3, StorePut DEF ReuploadNote
    <2> QED BY <1>7, <2>4 DEF ApplyChange
  <1> QED BY <1>1, <1>2, <1>3, <1>4, <1>5, <1>6, <1>7 DEF ChangeTrue, Kinds

\* A conflict: the note is the file's, and its copy is bound to nothing.
LEMMA ConflictTrue ==
  ASSUME NEW w, NEW st, StoreTrue(w, st), NEW s, NEW c, ChangeTrue(w, c), c.kind = "conflict"
  PROVE  StoreTrue(w, Conflict(st, s, c))
  <1> DEFINE row == st.rows[c.note]
             copy == [path |-> c.copyPath, text |-> row.text, dirty |-> TRUE, deleted |-> FALSE,
                      file |-> NoFile, synced |-> NoSynced]
             kept == OriginIsNow(st.ops \ Writes(st.ops, c.note), c.note, c.path)
             over == [st.rows EXCEPT ![c.note] = RowFromFile(row, c)]
  <1>1. Reads(w, c.file, c.text) /\ c.copy \in NoteIds
    BY DEF ChangeTrue
  <1>2. RowTrue(w, RowFromFile(row, c)) /\ RowTrue(w, copy)
    BY <1>1 DEF RowTrue, RowFromFile
  <1>3. OpsTrue(kept)
    <2>1. OpsTrue(st.ops \ Writes(st.ops, c.note))
      BY DEF StoreTrue, OpsTrue
    <2> QED BY <2>1, OriginOps
  <1>4. OpsTrue(kept \cup {NoteOp(s, "write", c.copy)})
    <2> HIDE DEF kept
    <2> QED BY <1>1, <1>3, OpIs DEF OpsTrue
  <1>5. StoreTrue(w, [rows |-> over, ops |-> kept])
    BY <1>2, <1>3, StorePut
  <1>6. StoreTrue(w, [rows |-> [over EXCEPT ![c.copy] = copy],
                      ops |-> kept \cup {NoteOp(s, "write", c.copy)}])
    <2> DEFINE after == [rows |-> over, ops |-> kept]
    <2>1. StoreTrue(w, after) /\ after.rows = over
      BY <1>5
    <2> HIDE DEF after, over, kept, copy
    <2> QED BY <1>2, <1>4, <2>1, StorePut
  <1> QED BY <1>5, <1>6 DEF Conflict

LEMMA OwnIdTrue ==
  ASSUME NEW w, NEW st, StoreTrue(w, st), NEW c, c.copy \in NoteIds
  PROVE  StoreTrue(w, WithOwnId(st, c))
  <1>1. CASE st.rows[c.copy] # NoRow
    <2> DEFINE r == [st.rows[c.copy] EXCEPT !.text.id = c.copy]
               t == [st.rows EXCEPT ![c.copy] = r]
    <2>1. RowTrue(w, r)
      BY <1>1, StoreRow, RowEdited
    <2>2. StoreTrue(w, [rows |-> t, ops |-> st.ops])
      <3> HIDE DEF r
      <3> QED BY <2>1, StorePut DEF StoreTrue
    <2>3. [st EXCEPT !.rows[c.copy].text.id = c.copy] = [rows |-> t, ops |-> st.ops]
      <3>1. st = [rows |-> st.rows, ops |-> st.ops]
        BY DEF StoreTrue
      <3>2. [st EXCEPT !.rows[c.copy].text.id = c.copy] = [st EXCEPT !.rows = t]
        OBVIOUS
      <3> HIDE DEF t
      <3> QED BY <3>1, <3>2
    <2> QED BY <1>1, <2>2, <2>3 DEF WithOwnId
  <1>2. CASE st.rows[c.copy] = NoRow
    BY <1>2 DEF WithOwnId
  <1> QED BY <1>1, <1>2

LEMMA AppliedTrue ==
  ASSUME NEW w, NEW st, StoreTrue(w, st), NEW s, NEW c, ChangeTrue(w, c), Takes(st, c)
  PROVE  StoreTrue(w, Applied1(st, s, c))
  <1>1. CASE c.kind = "conflict"
    <2>1. StoreTrue(w, ApplyChange(st, s, c))
      BY <1>1, ConflictTrue DEF ApplyChange
    <2>2. c.copy \in NoteIds
      BY <1>1 DEF ChangeTrue
    <2>3. StoreTrue(w, WithOwnId(ApplyChange(st, s, c), c))
      BY <2>1, <2>2, OwnIdTrue
    <2> QED BY <1>1, <2>3 DEF Applied1
  <1>2. CASE c.kind # "conflict"
    <2>1. StoreTrue(w, ApplyChange(st, s, c))
      BY <1>2, SimpleTrue
    <2>2. c.kind \notin {"move-folder", "delete-folder", "ensure-folder"}
      BY DEF ChangeTrue, Kinds
    <2> QED BY <1>2, <2>1, <2>2 DEF Applied1
  <1> QED BY <1>1, <1>2

\* A batch taken whole.
LEMMA BatchTrue ==
  ASSUME NEW w, NEW st, StoreTrue(w, st), NEW s, NEW changes, ChangesTrue(w, changes)
  PROVE  LET done == AppliedAll(st, s, changes) IN done.ok => StoreTrue(w, done.st)
  <1> DEFINE N == Len(changes)
             first == [st |-> st, next |-> s, ok |-> TRUE]
             Is(g, n) == g = [i \in 0..n |-> IF i = 0 THEN first ELSE TakesNext(g[i - 1], changes[i])]
             upTo == CHOOSE g : Is(g, N)
             K == {n \in 0..N : \E g : Is(g, n)}
             Fine(a) == a = [st |-> a.st, next |-> a.next, ok |-> a.ok] /\ (a.ok => StoreTrue(w, a.st))
             In == {n \in 0..N : Fine(upTo[n])}
  <1>0. N \in Nat /\ 0 \in 0..N /\ N \in 0..N /\ \A i \in 1..N : i \in 0..N /\ ChangeTrue(w, changes[i])
    BY SeqIs DEF ChangesTrue
  <1>1. AppliedAll(st, s, changes) = upTo[N]
    BY DEF AppliedAll
  <1> HIDE DEF N
  <1>2. 0 \in K
    <2>1. Is([i \in 0..0 |-> first], 0)
      OBVIOUS
    <2> HIDE DEF Is
    <2> QED BY <2>1, <1>0
  <1>3. ASSUME NEW n \in 1..N, n - 1 \in K PROVE n \in K
    <2> HIDE DEF first
    <2>1. PICK h : Is(h, n - 1)
      BY <1>3
    <2> DEFINE g == [i \in 0..n |-> IF i = n THEN TakesNext(h[n - 1], changes[n]) ELSE h[i]]
    <2>2. \A i \in 0..(n - 1) : h[i] = IF i = 0 THEN first ELSE TakesNext(h[i - 1], changes[i])
      BY <2>1
    <2>0. n \in Nat /\ n # 0
      BY <1>0
    <2>3. \A i \in 0..(n - 1) : g[i] = h[i]
      BY <2>0
    <2>4. ASSUME NEW i \in 0..n PROVE g[i] = IF i = 0 THEN first ELSE TakesNext(g[i - 1], changes[i])
      <3>1. CASE i = n
        BY <2>0, <3>1, <2>3
      <3>2. CASE i # n
        BY <2>0, <3>2, <2>2, <2>3
      <3> QED BY <3>1, <3>2
    <2>5. Is(g, n)
      <3>1. g = [i \in 0..n |-> g[i]]
        OBVIOUS
      <3> HIDE DEF g
      <3> QED BY <3>1, <2>4
    <2> HIDE DEF Is
    <2> QED BY <2>5, <1>0
  <1>4. N \in K
    <2> HIDE DEF K
    <2>1. \A i \in 0..N : i \in K
      BY <1>0, <1>2, <1>3, Steps
    <2> QED BY <2>1, <1>0
  <1>5. Is(upTo, N)
    <2> HIDE DEF Is
    <2> QED BY <1>4
  <1> HIDE DEF upTo, K, first
  <1>6. upTo[0] = first /\ \A i \in 1..N : upTo[i] = TakesNext(upTo[i - 1], changes[i])
    BY <1>0, <1>5
  <1>7. 0 \in In
    <2>1. Fine(first)
      BY DEF first
    <2> HIDE DEF Fine
    <2> QED BY <1>6, <1>0, <2>1
  <1>8. ASSUME NEW n \in 1..N, n - 1 \in In PROVE n \in In
    <2> DEFINE a == upTo[n - 1]  c == changes[n]
    <2>1. Fine(a) /\ ChangeTrue(w, c) /\ upTo[n] = TakesNext(a, c)
      BY <1>0, <1>6, <1>8
    <2> HIDE DEF a, c
    <2>2. CASE a.ok /\ Takes(a.st, c)
      <3>1. StoreTrue(w, Applied1(a.st, a.next, c))
        BY <2>1, <2>2, AppliedTrue
      <3>2. Fine(TakesNext(a, c))
        BY <2>2, <3>1 DEF TakesNext
      <3> HIDE DEF Fine
      <3> QED BY <2>1, <3>2, <1>0
    <2>3. CASE ~(a.ok /\ Takes(a.st, c))
      <3>1. TakesNext(a, c) = [a EXCEPT !.ok = FALSE]
        BY <2>3 DEF TakesNext
      <3> DEFINE b == [a EXCEPT !.ok = FALSE]
      <3>2. b \in [st : {a.st}, next : {a.next}, ok : {FALSE}]
        <4>1. a \in [st : {a.st}, next : {a.next}, ok : {a.ok}]
          BY <2>1
        <4> QED BY <4>1
      <3> HIDE DEF b
      <3>3. Fine(TakesNext(a, c))
        <4>1. Fine(b)
          BY <3>2
        <4> QED BY <3>1, <4>1 DEF b
      <3> HIDE DEF Fine
      <3> QED BY <2>1, <3>3, <1>0
    <2> QED BY <2>2, <2>3
  <1>9. N \in In
    <2> HIDE DEF In
    <2>1. \A i \in 0..N : i \in In
      BY <1>0, <1>7, <1>8, Steps
    <2> QED BY <2>1, <1>0
  <1>10. upTo[N].ok => StoreTrue(w, upTo[N].st)
    BY <1>9
  <1> QED BY <1>1, <1>10

-----------------------------------------------------------------------------
(* What an op achieved.                                                      *)

LEMMA DoneTrue ==
  ASSUME NEW w, NEW st, StoreTrue(w, st), NEW seq
  PROVE  StoreTrue(w, Done(st, seq))
  <1>1. Done(st, seq) = [rows |-> st.rows, ops |-> Without(st.ops, seq)]
    BY DEF Done, StoreTrue
  <1> QED BY <1>1, WithoutOps, StoreIs DEF StoreTrue

LEMMA PushedTrue ==
  ASSUME NEW w, NEW st, StoreTrue(w, st), NEW s, NEW seq, NEW n \in NoteIds, NEW sent, NEW at, NEW file,
         RowTrue(w, st.rows[n]), Reads(w, file, sent)
  PROVE  StoreTrue(w, Pushed(st, s, seq, n, sent, at, file))
  <1> DEFINE same == st.rows[n].text = sent
             pushed == [st.rows[n] EXCEPT !.file = file, !.synced = sent, !.dirty = @ /\ ~same]
             q == IF same THEN st.ops ELSE QueueWrite(st.ops, s, n, pushed, seq)
             r == IF pushed.path = at THEN q ELSE QueueMove(q, s + 1, n, pushed, at)
  <1>1. RowTrue(w, pushed)
    <2> DEFINE k == ~same
    <2> HIDE DEF k
    <2>1. RowTrue(w, [st.rows[n] EXCEPT !.file = file, !.synced = sent, !.dirty = @ /\ k])
      BY RowBound
    <2> QED BY <2>1 DEF k
  <1> HIDE DEF pushed, same
  <1>2. OpsTrue(q)
    BY WriteOps DEF StoreTrue
  <1> HIDE DEF q
  <1>3. OpsTrue(r)
    BY <1>2, MoveOps
  <1> HIDE DEF r
  <1>4. StoreTrue(w, [rows |-> [st.rows EXCEPT ![n] = pushed], ops |-> Without(r, seq)])
    BY <1>1, <1>3, WithoutOps, StorePut
  <1>5. Pushed(st, s, seq, n, sent, at, file)
          = [rows |-> [st.rows EXCEPT ![n] = pushed], ops |-> Without(r, seq)]
    BY DEF Pushed, pushed, same, q, r
  <1> QED BY <1>4, <1>5

LEMMA MovedTrue ==
  ASSUME NEW w, NEW st, StoreTrue(w, st), NEW s, NEW seq, NEW n \in NoteIds, NEW at, NEW file,
         RowTrue(w, st.rows[n]), file # NoFile => Reads(w, file, st.rows[n].synced)
  PROVE  StoreTrue(w, Moved(st, s, seq, n, at, file))
  <1> DEFINE r == st.rows[n]
             bound == [r EXCEPT !.file = file]
             there == [bound EXCEPT !.path = at]
  <1>1. RowTrue(w, bound) /\ RowTrue(w, there)
    <2>1. r \in RowOf(r.path, r.text, r.dirty, r.deleted, r.file, r.synced)
      BY RowParts
    <2>2. bound \in RowOf(r.path, r.text, r.dirty, r.deleted, file, r.synced)
      <3> HIDE DEF r
      <3> QED BY <2>1 DEF RowOf
    <2>3. there \in RowOf(at, r.text, r.dirty, r.deleted, file, r.synced)
      <3> HIDE DEF r, bound
      <3> QED BY <2>2 DEF RowOf
    <2> HIDE DEF bound, there
    <2> QED BY <2>2, <2>3, RowMade
  <1> HIDE DEF bound
  <1>2. OpsTrue(Without(st.ops, seq)) /\ OpsTrue(QueueMove(st.ops, s, n, bound, at))
    BY WithoutOps, MoveOps DEF StoreTrue
  <1>3. /\ StoreTrue(w, [rows |-> [st.rows EXCEPT ![n] = there], ops |-> Without(st.ops, seq)])
        /\ StoreTrue(w, [rows |-> [st.rows EXCEPT ![n] = bound],
                         ops |-> QueueMove(st.ops, s, n, bound, at)])
    <2> HIDE DEF there
    <2> QED BY <1>1, <1>2, StorePut
  <1> QED BY <1>3 DEF Moved, bound

LEMMA PurgedTrue ==
  ASSUME NEW w, NEW st, StoreTrue(w, st), NEW s, NEW seq, NEW n \in NoteIds, RowTrue(w, st.rows[n])
  PROVE  StoreTrue(w, Purged(st, s, seq, n))
  <1> DEFINE restored == [WithoutRemote(st.rows[n]) EXCEPT !.dirty = TRUE]
  <1>1. RowTrue(w, restored)
    BY RowLoosed
  <1> HIDE DEF restored
  <1>2. OpsTrue(Without(st.ops, seq)) /\ OpsTrue(Without(QueueWrite(st.ops, s, n, restored, NoSeq), seq))
    BY WithoutOps, WriteOps DEF StoreTrue
  <1>3. /\ StoreTrue(w, [rows |-> [st.rows EXCEPT ![n] = NoRow], ops |-> Without(st.ops, seq)])
        /\ StoreTrue(w, [rows |-> [st.rows EXCEPT ![n] = restored],
                         ops |-> Without(QueueWrite(st.ops, s, n, restored, NoSeq), seq)])
    BY <1>1, <1>2, StorePut
  <1> QED BY <1>3 DEF Purged, restored

LEMMA ResolvedTrue ==
  ASSUME NEW w, NEW st, StoreTrue(w, st), NEW s, NEW seq, NEW c, ChangeTrue(w, c), c.kind = "conflict"
  PROVE  StoreTrue(w, WithOwnId(ResolveConflict(st, s, seq, c), c))
  <1> DEFINE met == Conflict(st, s, c)
  <1>1. StoreTrue(w, met)
    BY ConflictTrue
  <1> HIDE DEF met
  <1>2. [met EXCEPT !.ops = Without(@, seq)] = [rows |-> met.rows, ops |-> Without(met.ops, seq)]
    BY <1>1 DEF StoreTrue
  <1>3. StoreTrue(w, [met EXCEPT !.ops = Without(@, seq)])
    BY <1>1, <1>2, WithoutOps, StoreIs DEF StoreTrue
  <1>4. StoreTrue(w, ResolveConflict(st, s, seq, c))
    BY <1>3 DEF ResolveConflict, met
  <1>5. c.copy \in NoteIds
    BY DEF ChangeTrue
  <1> HIDE DEF met
  <1> QED BY <1>4, <1>5, OwnIdTrue

\* A note put aside keeps a row that is so, if it has one.
LEMMA AsideTrue ==
  ASSUME NEW w, NEW st, StoreTrue(w, st), NEW c, c.kind = "displace", c.note \in NoteIds,
         RowTrue(w, st.rows[c.note])
  PROVE  /\ LET x == DisplaceNote(DetachNote(st, c), c) IN StoreTrue(w, x) /\ RowTrue(w, x.rows[c.note])
         /\ StoreTrue(w, DisplaceNote(st, c))
  <1> DEFINE row == st.rows[c.note]
  <1>1. ASSUME NEW y, StoreTrue(w, y), RowTrue(w, y.rows[c.note])
        PROVE  LET x == DisplaceNote(y, c) IN StoreTrue(w, x) /\ RowTrue(w, x.rows[c.note])
    <2> DEFINE r == [y.rows[c.note] EXCEPT !.path = c.path]
               q == RebaseOwnOps(y.ops, c.note, y.rows[c.note].path, c.path)
               z == [rows |-> [y.rows EXCEPT ![c.note] = r], ops |-> q]
    <2>1. RowTrue(w, r)
      BY <1>1, RowEdited
    <2>2. OpsTrue(q)
      BY <1>1, RebaseOps DEF StoreTrue
    <2>3. DisplaceNote(y, c) = y \/ DisplaceNote(y, c) = z
      BY DEF DisplaceNote
    <2> HIDE DEF r, q
    <2>4. StoreTrue(w, z)
      BY <1>1, <2>1, <2>2, StorePut
    <2>5. z.rows[c.note] = r
      <3>1. TableTrue(w, y.rows) /\ z.rows = [y.rows EXCEPT ![c.note] = r]
        BY <1>1 DEF StoreTrue
      <3>2. DOMAIN z.rows = NoteIds /\ c.note \in NoteIds
        BY <3>1 DEF TableTrue
      <3> QED BY <3>1, <3>2
    <2> HIDE DEF z
    <2> QED BY <1>1, <2>1, <2>3, <2>4, <2>5
  <1>2. StoreTrue(w, DetachNote(st, c)) /\ RowTrue(w, DetachNote(st, c).rows[c.note])
    <2> DEFINE r == WithoutRemote(row)
               z == [rows |-> [st.rows EXCEPT ![c.note] = r], ops |-> st.ops]
    <2>1. RowTrue(w, r)
      BY RowLoosed
    <2>2. DetachNote(st, c) = st \/ DetachNote(st, c) = z
      BY DEF DetachNote
    <2> HIDE DEF r
    <2>3. StoreTrue(w, z)
      BY <2>1, StorePut DEF StoreTrue
    <2>4. z.rows[c.note] = r
      <3>1. TableTrue(w, st.rows) /\ z.rows = [st.rows EXCEPT ![c.note] = r]
        BY DEF StoreTrue
      <3>2. DOMAIN z.rows = NoteIds /\ c.note \in NoteIds
        BY <3>1 DEF TableTrue
      <3> QED BY <3>1, <3>2
    <2> HIDE DEF z
    <2> QED BY <2>1, <2>2, <2>3, <2>4
  <1> QED BY <1>1, <1>2

-----------------------------------------------------------------------------
(* The decisions: what is decided of an entry is what is read.               *)

LEMMA UpsertIs ==
  ASSUME NEW w, NEW n, NEW e, NEW text, Reads(w, FileOf(e), text)
  PROVE  ChangeTrue(w, UpsertOf(n, e, text))
  <1> DEFINE c == UpsertOf(n, e, text)
  <1>1. c.kind = "upsert" /\ c.file = FileOf(e) /\ c.text = text
    BY DEF UpsertOf, Change
  <1> HIDE DEF c
  <1>2. ChangeTrue(w, c)
    BY <1>1 DEF ChangeTrue, Kinds
  <1> QED BY <1>2 DEF c

LEMMA AdoptIs ==
  ASSUME NEW w, NEW n, NEW e, NEW synced, Reads(w, FileOf(e), synced)
  PROVE  ChangeTrue(w, AdoptOf(n, e, synced)) /\ ChangeTrue(w, MoveOf(n, e, synced))
  <1> DEFINE c == AdoptOf(n, e, synced)  d == MoveOf(n, e, synced)
             Fields == {"kind", "note", "path", "text", "file", "synced", "copy", "copyPath"}
  <1>1. /\ c.kind = "adopt" /\ c.file = FileOf(e) /\ c.synced = synced
        /\ DOMAIN c = Fields
    BY DEF AdoptOf, Change
  <1>2. d = [c EXCEPT !.kind = "move"]
    BY DEF MoveOf
  <1> HIDE DEF c, d
  <1>3. d.kind = "move" /\ d.file = FileOf(e) /\ d.synced = synced
    BY <1>1, <1>2
  <1>4. ChangeTrue(w, c) /\ ChangeTrue(w, d)
    BY <1>1, <1>3 DEF ChangeTrue, Kinds
  <1> QED BY <1>4 DEF c, d

LEMMA ConflictIs ==
  ASSUME NEW w, NEW n, NEW e, NEW text, Reads(w, FileOf(e), text), NEW copy \in NoteIds, NEW p
  PROVE  ChangeTrue(w, ConflictOf(n, e, text, copy, p)) /\ ConflictOf(n, e, text, copy, p).kind = "conflict"
  <1> DEFINE c == UpsertOf(n, e, text)  d == ConflictOf(n, e, text, copy, p)
             Fields == {"kind", "note", "path", "text", "file", "synced", "copy", "copyPath"}
  <1>1. c.file = FileOf(e) /\ c.text = text /\ DOMAIN c = Fields
    BY DEF UpsertOf, Change
  <1>2. d = [c EXCEPT !.kind = "conflict", !.copy = copy, !.copyPath = p]
    BY DEF ConflictOf
  <1> HIDE DEF c, d
  <1>3. d.kind = "conflict" /\ d.file = FileOf(e) /\ d.text = text /\ d.copy = copy
    BY <1>1, <1>2
  <1>4. ChangeTrue(w, d)
    BY <1>3 DEF ChangeTrue, Kinds
  <1> QED BY <1>3, <1>4 DEF d

LEMMA PlainIs ==
  ASSUME NEW w, NEW t, NEW n, NEW p
  PROVE  /\ ChangeTrue(w, ForgetNote(t, n)) /\ (n \in NoteIds => ChangeTrue(w, KeepNote(t, n)))
         /\ LET c == DisplaceOf(n, p) IN c.kind = "displace" /\ c.note = n
  <1>1. ASSUME NEW kind \in {"delete", "detach"} PROVE ChangeTrue(w, Change(kind, n))
    BY DEF ChangeTrue, Kinds, Change
  <1>2. n \in NoteIds => ChangeTrue(w, Change("reupload", n))
    BY DEF ChangeTrue, Kinds, Change
  <1>3. LET c == DisplaceOf(n, p) IN c.kind = "displace" /\ c.note = n
    BY DEF DisplaceOf, Change
  <1> QED BY <1>1, <1>2, <1>3 DEF ForgetNote, KeepNote

LEMMA ChangesAppend ==
  ASSUME NEW w, NEW q, ChangesTrue(w, q), NEW c, ChangeTrue(w, c)
  PROVE  ChangesTrue(w, Append(q, c))
  <1>1. IsSeq(q) /\ DOMAIN q = 1..Len(q) /\ Len(q) \in Nat
    BY SeqIs DEF ChangesTrue
  <1>2. /\ IsSeq(Append(q, c)) /\ DOMAIN Append(q, c) = 1..(Len(q) + 1)
        /\ \A i \in DOMAIN q : Append(q, c)[i] = q[i]
        /\ Append(q, c)[Len(q) + 1] = c
    BY <1>1, AppendIs
  <1>3. ASSUME NEW i \in 1..(Len(q) + 1) PROVE ChangeTrue(w, Append(q, c)[i])
    <2>1. i \in DOMAIN q \/ i = Len(q) + 1
      BY <1>1
    <2> QED BY <2>1, <1>2 DEF ChangesTrue
  <1> QED BY <1>2, <1>3 DEF ChangesTrue

LEMMA ChangesConcat ==
  ASSUME NEW w, NEW p, NEW q, ChangesTrue(w, p), ChangesTrue(w, q)
  PROVE  ChangesTrue(w, p \o q)
  <1> DEFINE r == p \o q
  <1>1. IsSeq(p) /\ IsSeq(q) /\ r = p \o q
    BY DEF ChangesTrue
  <1> HIDE DEF r
  <1>2. ChangesTrue(w, r)
    <2>1. IsSeq(r)
      BY <1>1, ConcatIs
    <2>2. ASSUME NEW i \in DOMAIN r PROVE (\E j \in DOMAIN p : r[i] = p[j]) \/ (\E j \in DOMAIN q : r[i] = q[j])
      BY <1>1, ConcatIs
    <2> QED BY <2>1, <2>2 DEF ChangesTrue
  <1> QED BY <1>2 DEF r

LEMMA ChangesNone ==
  ASSUME NEW w
  PROVE  ChangesTrue(w, <<>>)
  BY Empty DEF ChangesTrue

LEMMA ChangesOne ==
  ASSUME NEW w, NEW c, ChangeTrue(w, c)
  PROVE  ChangesTrue(w, <<c>>)
  <1>1. <<c>> \in Seq({c})
    OBVIOUS
  <1>2. IsSeq(<<c>>) /\ \A i \in DOMAIN <<c>> : <<c>>[i] \in {c}
    BY <1>1, SeqIn
  <1> DEFINE q == <<c>>
  <1>3. IsSeq(q) /\ \A i \in DOMAIN q : q[i] = c
    BY <1>2
  <1> HIDE DEF q
  <1>4. ChangesTrue(w, q)
    BY <1>3 DEF ChangesTrue
  <1> QED BY <1>4 DEF q

LEMMA ChangesDisplace ==
  ASSUME NEW w, NEW b, NEW after, NEW decided, NEW p, NEW keeper
  PROVE  ChangesTrue(w, DisplaceOccupants(b, after, decided, p, keeper))
  <1> DEFINE q == DisplaceOccupants(b, after, decided, p, keeper)
  <1>1. IsSeq(q) /\ \A i \in DOMAIN q : q[i].kind = "displace"
    BY DisplaceIs DEF Aside
  <1> HIDE DEF q
  <1>2. ChangesTrue(w, q)
    BY <1>1 DEF ChangesTrue, ChangeTrue, Kinds
  <1> QED BY <1>2 DEF q

\* The note an entry is about has a row.
LEMMA NoteHasRow ==
  ASSUME NEW b, NEW t, NEW after, NEW w, NEW e
  PROVE  LET n == NoteForEntry(b, t, after, w, e)
         IN  n # NoNote => n \in NoteIds /\ t[n] # NoRow
  <1> DEFINE byId == HoldersOf(t, e.id)  at == NotesAt(t, e.path)
  <1>1. byId # {} => (CHOOSE n \in byId : TRUE) \in byId
    OBVIOUS
  <1>2. \A n \in byId : n \in NoteIds /\ t[n] # NoRow
    BY DEF HoldersOf, Bound
  <1>3. \A n \in at : n \in NoteIds /\ t[n] # NoRow
    BY DEF NotesAt
  <1>4. NoteByPath(t, e.path) = NoNote \/ NoteByPath(t, e.path) \in at
    <2> DEFINE live == {n \in at : Live(t[n])}
    <2>1. live # {} => (CHOOSE n \in live : TRUE) \in at
      OBVIOUS
    <2>2. at # {} => (CHOOSE n \in at : TRUE) \in at
      OBVIOUS
    <2> QED BY <2>1, <2>2 DEF NoteByPath
  <1> HIDE DEF byId, at
  <1>5. LET n == NoteForEntry(b, t, after, w, e)
        IN  n = NoNote \/ n = NoteByPath(t, e.path) \/ (byId # {} /\ n = CHOOSE m \in byId : TRUE)
    BY DEF NoteForEntry, byId
  <1> QED BY <1>1, <1>2, <1>3, <1>4, <1>5

\* What is read now of a file it had is what it has.
LEMMA FileRead ==
  ASSUME NEW w, RemoteTrue(w), NEW e, EntryTrue(w, e), ~e.gone
  PROVE  /\ Reads(w, FileOf(e), w[e.id].text)
         /\ FileOf(e) # NoFile
  <1>1. Known(w, FileOf(e)) /\ FileOf(e).id = e.id
    BY DEF EntryTrue, FileOf
  <1>2. Reads(w, FileOf(e), w[e.id].text)
    BY <1>1 DEF Reads
  <1>3. FileOf(e) # NoFile
    <2>1. FileOf(e) = [id |-> e.id, version |-> e.version]
      BY DEF FileOf
    <2>2. e.id \in Nat /\ e.version \in Nat
      <3>1. DOMAIN w = 1..Len(w)
        BY SeqIs DEF RemoteTrue
      <3>2. FileOf(e).version = e.version
        BY <2>1
      <3> QED BY <1>1, <3>1, <3>2 DEF Known
    <2>3. FileOf(e) \in [id : Nat, version : Nat]
      BY <2>1, <2>2
    <2> QED BY <2>3, SyncAssumption
  <1> QED BY <1>2, <1>3

LEMMA KnownTrue ==
  ASSUME NEW w, RemoteTrue(w), NEW e, EntryTrue(w, e), ~e.gone, NEW b, NEW t, NEW after, NEW decided, NEW n,
         NEW fresh \in NoteIds
  PROVE  ChangeTrue(w, DecideKnown(b, t, after, decided, e, n, w[e.id], fresh))
  <1> DEFINE text == w[e.id].text
  <1>1. Reads(w, FileOf(e), text)
    BY FileRead
  <1>2. ChangeTrue(w, Unchanged(b, after, e, n, text))
    BY <1>1, AdoptIs DEF Unchanged
  <1>3. ChangeTrue(w, UpsertOf(n, e, text))
    BY <1>1, UpsertIs
  <1>4. \A p : ChangeTrue(w, ConflictOf(n, e, text, fresh, p))
    BY <1>1, ConflictIs
  <1> QED BY <1>2, <1>3, <1>4 DEF DecideKnown

LEMMA DecideFileTrue ==
  ASSUME NEW w, RemoteTrue(w), NEW t, TableTrue(w, t), NEW e, EntryTrue(w, e), ~e.gone,
         NEW b, NEW decided, NEW fresh \in NoteIds
  PROVE  ChangesTrue(w, DecideFile(b, t, decided, e, w, fresh))
  <1> DEFINE after == After(t, decided)
             n == NoteForEntry(b, t, after, w, e)
             removed == n # NoNote /\ after[n] = NoRow
             room == DisplaceOccupants(b, after, decided, e.path, n)
             found == w[e.id]
             row == t[n]
             stranger == n # NoNote /\ ~removed /\ IsStranger(row, found.text)
             aside == IF stranger THEN DisplaceOccupants(b, after, decided, e.path, NoNote) ELSE room
             withRoom == decided \o room
             known == n # NoNote /\ ~removed /\ row.file = FileOf(e)
             fitted == IF Renaming(b, n) THEN AdoptOf(n, e, row.synced) ELSE MoveOf(n, e, row.synced)
             made == UpsertOf(IdForNewNote(b, t, After(t, decided \o aside), decided \o aside,
                                           found.text, fresh), e, found.text)
             changed == IF removed THEN UpsertOf(n, e, found.text)
                        ELSE DecideKnown(b, t, After(t, withRoom), withRoom, e, n, found, fresh)
  <1>1. Reads(w, FileOf(e), found.text) /\ FileOf(e) # NoFile
    BY FileRead
  <1>2. ChangesTrue(w, room) /\ ChangesTrue(w, aside)
    BY ChangesDisplace
  <1>3. ChangeTrue(w, made)
    <2> DEFINE m == IdForNewNote(b, t, After(t, decided \o aside), decided \o aside, found.text, fresh)
    <2> HIDE DEF m
    <2>1. ChangeTrue(w, UpsertOf(m, e, found.text))
      BY <1>1, UpsertIs
    <2> QED BY <2>1 DEF m
  <1>4. ChangeTrue(w, changed)
    <2>1. ChangeTrue(w, UpsertOf(n, e, found.text))
      BY <1>1, UpsertIs
    <2>2. ChangeTrue(w, DecideKnown(b, t, After(t, withRoom), withRoom, e, n, found, fresh))
      BY KnownTrue
    <2> HIDE DEF n, withRoom, found
    <2> QED BY <2>1, <2>2
  <1>5. known => ChangeTrue(w, fitted)
    <2>1. SUFFICES ASSUME known PROVE ChangeTrue(w, fitted)
      OBVIOUS
    <2>2. n \in NoteIds /\ t[n] # NoRow
      BY <2>1, NoteHasRow
    <2>3. RowTrue(w, row)
      <3> HIDE DEF n
      <3> QED BY <2>2 DEF TableTrue
    <2>4. Reads(w, FileOf(e), row.synced)
      <3> HIDE DEF n
      <3> QED BY <2>1, <2>3, <1>1 DEF RowTrue
    <2> HIDE DEF n
    <2> QED BY <2>4, AdoptIs
  <1>6. ChangesTrue(w, GoneBeforeRead(t, after, e, n))
    <2> HIDE DEF after, n
    <2>1. ChangeTrue(w, ForgetNote(t, n))
      BY PlainIs
    <2> QED BY <2>1, ChangesOne, ChangesNone DEF GoneBeforeRead
  <1>7. /\ ChangesTrue(w, <<>>)
        /\ known => ChangesTrue(w, Append(room, fitted))
        /\ ChangesTrue(w, Append(aside, made)) /\ ChangesTrue(w, Append(room, changed))
    <2> HIDE DEF room, aside, made, changed, fitted, known
    <2> QED BY <1>2, <1>3, <1>4, <1>5, ChangesAppend, ChangesNone
  <1>8. DecideFile(b, t, decided, e, w, fresh) =
          CASE known -> IF after[n].path = e.path THEN <<>> ELSE Append(room, fitted)
            [] ~known /\ found = Gone -> GoneBeforeRead(t, after, e, n)
            [] OTHER -> IF n = NoNote \/ stranger THEN Append(aside, made) ELSE Append(room, changed)
    BY DEF DecideFile
  <1> HIDE DEF after, n, removed, room, found, row, stranger, aside, withRoom, known, fitted, made, changed
  <1> QED BY <1>6, <1>7, <1>8

LEMMA DecideEntryTrue ==
  ASSUME NEW w, RemoteTrue(w), NEW t, TableTrue(w, t), NEW e, EntryTrue(w, e),
         NEW b, NEW decided, NEW fresh \in NoteIds
  PROVE  ChangesTrue(w, Decide(b, t, decided, e, w, fresh))
  <1>1. CASE e.gone
    <2>1. \A n : ChangeTrue(w, ForgetNote(t, n))
      BY PlainIs
    <2>2. ChangesTrue(w, DecideDeleted(t, decided, e))
      BY <2>1, ChangesOne, ChangesNone DEF DecideDeleted
    <2> QED BY <1>1, <2>2 DEF Decide
  <1>2. CASE ~e.gone
    BY <1>2, DecideFileTrue DEF Decide
  <1> QED BY <1>1, <1>2

LEMMA ReconcileTrue ==
  ASSUME NEW w, NEW t, NEW b, NEW decided, NEW upload
  PROVE  ChangesTrue(w, Reconcile(b, t, decided, upload))
  <1> DEFINE after == After(t, decided)
             Unseen(n) == /\ t[n] # NoRow /\ t[n].file # NoFile
                          /\ \A e \in ToSet(b.entries) : e.id # t[n].file.id
                          /\ n \notin KeptNotes(decided, upload)
                          /\ after[n] # NoRow
             S == {n \in NoteIds : Unseen(n)}
             unseen == InOrder(S)
             Of(n) == IF upload THEN KeepNote(t, n) ELSE ForgetNote(t, n)
             q == [i \in DOMAIN unseen |-> Of(unseen[i])]
  <1>1. Reconcile(b, t, decided, upload) = q
    BY DEF Reconcile
  <1>2. S \in SUBSET NoteIds
    OBVIOUS
  <1> HIDE DEF S, Of
  <1>3. S \in SUBSET Nat /\ IsFiniteSet(S)
    BY <1>2, SyncAssumption, FS_Subset
  <1>4. /\ Cardinality(S) \in Nat /\ DOMAIN unseen = 1..Cardinality(S)
        /\ \A i \in DOMAIN unseen : unseen[i] \in S
    BY <1>3, InOrderIn
  <1> HIDE DEF unseen
  <1>5. \A n \in S : ChangeTrue(w, Of(n))
    BY <1>2, PlainIs DEF Of
  <1>6. IsSeq(q)
    <2>1. q = [i \in 1..Cardinality(S) |-> q[i]]
      BY <1>4
    <2> HIDE DEF q
    <2> QED BY <2>1, <1>4, MadeIs
  <1>7. \A i \in DOMAIN q : ChangeTrue(w, q[i])
    BY <1>4, <1>5
  <1> HIDE DEF q
  <1> QED BY <1>1, <1>6, <1>7 DEF ChangesTrue

-----------------------------------------------------------------------------
(* A step of one device.                                                     *)

LEMMA NewIdIs ==
  ASSUME IdsLeft
  PROVE  NewId \in NoteIds \ UsedIds
  <1> DEFINE S == NoteIds \ UsedIds
  <1>1. S \in SUBSET Nat /\ S # {}
    BY SyncAssumption DEF IdsLeft
  <1> HIDE DEF S
  <1>2. \E n \in S : \A m \in S : n <= m
    BY <1>1, Least
  <1>3. (CHOOSE n \in S : \A m \in S : n <= m) \in S
    BY <1>2
  <1> QED BY <1>3 DEF NewId, S

LEMMA DeviceTrue ==
  ASSUME IInv, NEW d \in Devices
  PROVE  /\ RemoteTrue(remote) /\ TableTrue(remote, rows[d]) /\ OpsTrue(ops[d])
         /\ EngTrue(remote, rows[d], eng[d]) /\ StoreTrue(remote, Store(d))
         /\ Store(d).rows = rows[d] /\ Store(d).ops = ops[d]
  BY DEF IInv, StoresTrue, EnginesTrue, Store, StoreTrue

\* One device's store and engine are put to what is so, and the remote grows.
LEMMA StepTrue ==
  ASSUME IInv, NEW d \in Devices, RemoteTrue(remote'), Grows(remote, remote'), NewsTrue',
         NEW st, StoreSet(d, st), TableTrue(remote', st.rows), OpsTrue(st.ops),
         NEW e, EngineAt(d, e), EngTrue(remote', st.rows, e)
  PROVE  IInv'
  <1>1. /\ rows = [a \in Devices |-> rows[a]] /\ ops = [a \in Devices |-> ops[a]]
        /\ eng = [a \in Devices |-> eng[a]]
        /\ \A a \in Devices : /\ TableTrue(remote, rows[a]) /\ OpsTrue(ops[a])
                              /\ EngTrue(remote, rows[a], eng[a])
    BY DEF IInv, StoresTrue, EnginesTrue
  <1>2. \A a \in Devices : TableTrue(remote', rows[a]) /\ EngTrue(remote', rows[a], eng[a])
    BY <1>1, KeepsTable, KeepsEng DEF IInv
  <1>3. /\ rows' = [rows EXCEPT ![d] = st.rows] /\ ops' = [ops EXCEPT ![d] = st.ops]
        /\ eng' = [eng EXCEPT ![d] = e]
    BY DEF StoreSet, EngineAt
  <1>4. /\ rows' = [a \in Devices |-> rows'[a]] /\ ops' = [a \in Devices |-> ops'[a]]
        /\ eng' = [a \in Devices |-> eng'[a]]
        /\ rows'[d] = st.rows /\ ops'[d] = st.ops /\ eng'[d] = e
        /\ \A a \in Devices : a # d => rows'[a] = rows[a] /\ ops'[a] = ops[a] /\ eng'[a] = eng[a]
    BY <1>1, <1>3
  <1>5. ASSUME NEW a \in Devices
        PROVE  TableTrue(remote', rows'[a]) /\ OpsTrue(ops'[a]) /\ EngTrue(remote', rows'[a], eng'[a])
    <2>1. CASE a = d
      BY <2>1, <1>4
    <2>2. CASE a # d
      BY <2>2, <1>1, <1>2, <1>4
    <2> QED BY <2>1, <2>2
  <1> QED BY <1>4, <1>5 DEF IInv, StoresTrue, EnginesTrue

\* A step that asks the remote for nothing.
LEMMA HereTrue ==
  ASSUME IInv, NEW d \in Devices, RemoteSame, NEW st, StoreTrue(remote, st), StoreSet(d, st),
         NEW e, EngineAt(d, e), EngTrue(remote, st.rows, e)
  PROVE  IInv' /\ WroteOver
  <1>1. remote' = remote /\ news' = news /\ Files' = Files
    BY DEF RemoteSame, Files
  <1>2. RemoteTrue(remote') /\ Grows(remote, remote') /\ NewsTrue'
    BY <1>1, GrowsSame DEF IInv, NewsTrue
  <1>3. TableTrue(remote', st.rows) /\ OpsTrue(st.ops) /\ EngTrue(remote', st.rows, e)
    BY <1>1 DEF StoreTrue
  <1> QED BY <1>1, <1>2, <1>3, StepTrue DEF WroteOver

\* A request: the store stays.
LEMMA AskTrue ==
  ASSUME IInv, NEW d \in Devices, RemoteTrue(remote'), Grows(remote, remote'), NewsTrue', StoreSame,
         NEW e, EngineAt(d, e), EngTrue(remote', rows[d], e)
  PROVE  IInv'
  <1>1. StoreSet(d, Store(d))
    BY DEF StoreSet, StoreSame, Store, IInv, StoresTrue
  <1>2. Store(d).rows = rows[d] /\ TableTrue(remote', rows[d]) /\ OpsTrue(Store(d).ops)
    BY DeviceTrue, KeepsTable
  <1>3. TableTrue(remote', Store(d).rows) /\ EngTrue(remote', Store(d).rows, e)
    BY <1>2
  <1> QED BY <1>1, <1>2, <1>3, StepTrue

\* Neither: the engine goes on by itself.
LEMMA ThinkTrue ==
  ASSUME IInv, NEW d \in Devices, RemoteSame, StoreSame, NEW e, EngineAt(d, e),
         EngTrue(remote, rows[d], e)
  PROVE  IInv' /\ WroteOver
  <1>1. remote' = remote /\ news' = news /\ Files' = Files
    BY DEF RemoteSame, Files
  <1>2. RemoteTrue(remote') /\ Grows(remote, remote') /\ NewsTrue'
    BY <1>1, GrowsSame DEF IInv, NewsTrue
  <1> QED BY <1>1, <1>2, AskTrue DEF WroteOver

\* The engine between two ops, or at rest, holds nothing.
LEMMA RestTrue ==
  ASSUME NEW w, NEW t, NEW d, NEW left
  PROVE  EngTrue(w, t, Idle) /\ EngTrue(w, t, DrainFrom(d, left))
  BY DEF EngTrue, Idle, DrainFrom, Pending

LEMMA FailTrue ==
  ASSUME IInv, NEW d \in Devices, Fail(d)
  PROVE  IInv' /\ WroteOver
  BY RestTrue, ThinkTrue DEF Fail, Goes

LEMMA SettleTrue ==
  ASSUME IInv, NEW d \in Devices, NEW seq, NEW after, StoreTrue(remote, after), Settle(d, seq, after)
  PROVE  IInv' /\ WroteOver
  BY RestTrue, HereTrue DEF Settle

-----------------------------------------------------------------------------
(* The users.                                                                *)

\* A user's act on one note, which leaves what it last synced, or makes it.
LEMMA ActTrue ==
  ASSUME IInv, NEW d \in Devices, NEW n \in NoteIds, NEW row, RowTrue(remote, row), NEW q, OpsTrue(q),
         UserActs(d, [rows[d] EXCEPT ![n] = row], q),
         eng[d].pc \in Pending /\ eng[d].op.note = n => row.synced = rows[d][n].synced
  PROVE  IInv' /\ WroteOver
  <1> DEFINE t == [rows[d] EXCEPT ![n] = row]  st == [rows |-> t, ops |-> q]  e == eng[d]
  <1>1. /\ TableTrue(remote, rows[d]) /\ EngTrue(remote, rows[d], e)
        /\ eng = [a \in Devices |-> eng[a]]
    BY DeviceTrue DEF IInv, EnginesTrue
  <1>2. TableTrue(remote, t) /\ t[n] = row /\ \A m \in NoteIds : m # n => t[m] = rows[d][m]
    BY <1>1, PutRow
  <1>3. StoreTrue(remote, st) /\ StoreSet(d, st) /\ RemoteSame
    BY <1>2, StoreIs DEF UserActs, RemoteSame
  <1>4. EngineAt(d, e)
    BY <1>1 DEF UserActs, EngineAt
  <1> HIDE DEF t
  <1>5. EngTrue(remote, t, e)
    <2>1. e.pc \in Pending => HoldTrue(remote, t, e)
      <3>1. SUFFICES ASSUME e.pc \in Pending PROVE HoldTrue(remote, t, e)
        OBVIOUS
      <3>2. HoldTrue(remote, rows[d], e)
        BY <1>1, <3>1 DEF EngTrue
      <3>3. e.op.note \in NoteIds /\ RowTrue(remote, rows[d][e.op.note])
        BY <3>2 DEF HoldTrue, Held
      <3>4. RowTrue(remote, t[e.op.note]) /\ t[e.op.note].synced = rows[d][e.op.note].synced
        <4>1. CASE e.op.note = n
          BY <3>1, <4>1, <1>2
        <4>2. CASE e.op.note # n
          BY <3>3, <4>2, <1>2
        <4> QED BY <4>1, <4>2
      <3> HIDE DEF e
      <3> QED BY <3>2, <3>4 DEF HoldTrue, Held
    <2> HIDE DEF e
    <2> QED BY <1>1, <2>1 DEF EngTrue
  <1>6. st.rows = t
    OBVIOUS
  <1> HIDE DEF st, e
  <1> QED BY <1>3, <1>4, <1>5, <1>6, HereTrue

LEMMA UserTrue ==
  ASSUME IInv, NEW d \in Devices, UserStep(d)
  PROVE  IInv' /\ WroteOver
  <1>0. OpsTrue(ops[d])
    BY DeviceTrue
  <1>1. ASSUME NEW n \in NoteIds, Live(rows[d][n]) PROVE RowTrue(remote, rows[d][n])
    BY <1>1, DeviceTrue DEF TableTrue, Live
  <1>2. CASE \E n \in NoteIds : Edit(d, n)
    <2>1. PICK n \in NoteIds : Edit(d, n)
      BY <1>2
    <2> DEFINE row == [rows[d][n] EXCEPT !.text.body = body + 1, !.dirty = TRUE]
               q == QueueEdit(ops[d], NextOp(d), n, row, rows[d][n].path)
    <2>2. RowTrue(remote, row) /\ row.synced = rows[d][n].synced
      BY <2>1, <1>1, RowEdited DEF Edit
    <2>3. UserActs(d, [rows[d] EXCEPT ![n] = row], q)
      BY <2>1 DEF Edit, Saves
    <2> HIDE DEF row
    <2>4. OpsTrue(q)
      BY <1>0, EditOps
    <2> HIDE DEF q
    <2> QED BY <2>2, <2>3, <2>4, ActTrue
  <1>3. CASE \E n \in NoteIds, b \in Names : Rename(d, n, <<b>>)
    <2>1. PICK n \in NoteIds, b \in Names : Rename(d, n, <<b>>)
      BY <1>3
    <2> DEFINE p == <<b>>
               row == [rows[d][n] EXCEPT !.path = p, !.dirty = TRUE]
               q == QueueEdit(ops[d], NextOp(d), n, row, rows[d][n].path)
    <2> HIDE DEF p
    <2>2. RowTrue(remote, row) /\ row.synced = rows[d][n].synced
      BY <2>1, <1>1, RowEdited DEF Rename
    <2>3. UserActs(d, [rows[d] EXCEPT ![n] = row], q)
      BY <2>1 DEF Rename, Saves, p
    <2> HIDE DEF row
    <2>4. OpsTrue(q)
      BY <1>0, EditOps
    <2> HIDE DEF q
    <2> QED BY <2>2, <2>3, <2>4, ActTrue
  <1>4. CASE \E n \in NoteIds, b \in Names : Carry(d, n, <<b>>)
    <2>1. PICK n \in NoteIds, b \in Names : Carry(d, n, <<b>>)
      BY <1>4
    <2> DEFINE p == <<b>>
               row == [rows[d][n] EXCEPT !.path = p]
               q == QueueMove(ops[d], NextOp(d), n, row, rows[d][n].path)
    <2> HIDE DEF p
    <2>2. RowTrue(remote, row) /\ row.synced = rows[d][n].synced
      BY <2>1, <1>1, RowEdited DEF Carry
    <2>3. UserActs(d, [rows[d] EXCEPT ![n] = row], q)
      BY <2>1 DEF Carry, p
    <2> HIDE DEF row
    <2>4. OpsTrue(q)
      BY <1>0, MoveOps
    <2> HIDE DEF q
    <2> QED BY <2>2, <2>3, <2>4, ActTrue
  <1>5. CASE \E n \in NoteIds : Delete(d, n)
    <2>1. PICK n \in NoteIds : Delete(d, n)
      BY <1>5
    <2> DEFINE row == [rows[d][n] EXCEPT !.deleted = TRUE, !.dirty = TRUE]
               q == QueueDelete(ops[d], NextOp(d), n, row)
    <2>2. RowTrue(remote, row) /\ row.synced = rows[d][n].synced
      BY <2>1, <1>1, RowEdited DEF Delete
    <2>3. UserActs(d, [rows[d] EXCEPT ![n] = row], q)
      BY <2>1 DEF Delete
    <2> HIDE DEF row
    <2>4. OpsTrue(q)
      BY <1>0, DeleteOps
    <2> HIDE DEF q
    <2> QED BY <2>2, <2>3, <2>4, ActTrue
  <1>6. CASE \E b \in Names : Create(d, <<b>>)
    <2>1. PICK b \in Names : Create(d, <<b>>)
      BY <1>6
    <2> DEFINE n == NewId
               p == <<b>>
               row == [path |-> p, text |-> Text(n, body + 1), dirty |-> TRUE, deleted |-> FALSE,
                       file |-> NoFile, synced |-> NoSynced]
               q == QueueWrite(ops[d], NextOp(d), n, row, NoSeq)
    <2>2. n \in NoteIds /\ n \notin UsedIds
      BY <2>1, NewIdIs DEF Create
    <2>3. RowTrue(remote, row)
      BY DEF RowTrue
    <2>4. UserActs(d, [rows[d] EXCEPT ![n] = row], q)
      BY <2>1 DEF Create
    <2> HIDE DEF row, n
    <2>5. OpsTrue(q)
      BY <1>0, <2>2, WriteOps
    <2>6. eng[d].pc \in Pending => eng[d].op.note # n
      <3>1. SUFFICES ASSUME eng[d].pc \in Pending PROVE eng[d].op.note \in UsedIds
        BY <2>2
      <3>2. HoldTrue(remote, rows[d], eng[d])
        BY <3>1, DeviceTrue DEF EngTrue
      <3>3. eng[d].op.note \in IdsIn(eng[d])
        BY <3>1, <3>2 DEF IdsIn, HoldTrue, Held, Pending
      <3> QED BY <3>3 DEF UsedIds
    <2> HIDE DEF q
    <2> QED BY <2>2, <2>3, <2>4, <2>5, <2>6, ActTrue
  <1> QED BY <1>2, <1>3, <1>4, <1>5, <1>6 DEF UserStep

-----------------------------------------------------------------------------
(* The pull.                                                                 *)

LEMMA EntryIs ==
  ASSUME IInv, NEW f \in Files
  PROVE  /\ EntryTrue(remote, EntryOf(f))
         /\ Alive(f) => FileOf(EntryOf(f)) = [id |-> f, version |-> remote[f].version]
         /\ Alive(f) => Known(remote, FileOf(EntryOf(f))) /\ Reads(remote, FileOf(EntryOf(f)), remote[f].text)
  <1>1. CASE Alive(f)
    <2> DEFINE e == EntryOf(f)  g == FileOf(e)
    <2>1. e.id = f /\ e.version = remote[f].version
      BY <1>1 DEF EntryOf
    <2>2. g = [id |-> f, version |-> remote[f].version]
      BY <2>1 DEF FileOf
    <2>3. remote[f].version \in Nat /\ f \in DOMAIN remote
      BY <1>1 DEF IInv, RemoteTrue, Alive, Files
    <2> HIDE DEF e, g
    <2>4. g.id = f /\ g.version = remote[f].version /\ g = [id |-> g.id, version |-> g.version]
      BY <2>2
    <2>5. Known(remote, g) /\ Reads(remote, g, remote[f].text)
      BY <2>3, <2>4 DEF Known, Reads
    <2> QED BY <2>2, <2>5 DEF EntryTrue, g, e
  <1>2. CASE ~Alive(f)
    BY <1>2 DEF EntryOf, EntryTrue
  <1> QED BY <1>1, <1>2

LEMMA StartTrue ==
  ASSUME IInv, NEW d \in Devices, StartRound(d)
  PROVE  IInv' /\ WroteOver
  <1> DEFINE scan == cursor[d] # "log"
             files == IF scan THEN Only([f \in Files |-> f], {f \in Files : Alive(f)}) ELSE news[d]
             entries == [i \in DOMAIN files |-> EntryOf(files[i])]
             first == [pc |-> "decide", batch |-> BatchOf(entries, ops[d], scan),
                       todo |-> entries, decided |-> <<>>]
  <1>1. files \in Seq(Files)
    <2>1. news[d] \in Seq(Files)
      BY DEF IInv, NewsTrue
    <2>2. [f \in Files |-> f] \in Seq(Files)
      <3>1. Files = 1..Len(remote) /\ Len(remote) \in Nat
        BY FilesNat
      <3>2. [f \in 1..Len(remote) |-> f] \in [1..Len(remote) -> 1..Len(remote)]
        OBVIOUS
      <3> DEFINE N == Len(remote)
      <3> HIDE DEF N
      <3>3. [f \in 1..N |-> f] \in [1..N -> 1..N] /\ N \in Nat
        BY <3>1, <3>2 DEF N
      <3>4. [f \in 1..N |-> f] \in Seq(1..N)
        BY <3>3, SeqDef
      <3> QED BY <3>1, <3>4 DEF N
    <2>3. Only([f \in Files |-> f], {f \in Files : Alive(f)}) \in Seq(Files \cap {f \in Files : Alive(f)})
      BY <2>2, OnlyIn
    <2>4. Only([f \in Files |-> f], {f \in Files : Alive(f)}) \in Seq(Files)
      BY <2>3, SeqMonotonic
    <2> QED BY <2>1, <2>4
  <1> HIDE DEF files
  <1>2. IsSeq(entries) /\ \A i \in DOMAIN entries : EntryTrue(remote, entries[i])
    <2>1. Len(files) \in Nat /\ DOMAIN files = 1..Len(files) /\ \A i \in DOMAIN files : files[i] \in Files
      BY <1>1, SeqIn
    <2>2. entries = [i \in 1..Len(files) |-> entries[i]]
      BY <2>1
    <2>3. \A i \in DOMAIN entries : EntryTrue(remote, entries[i])
      BY <2>1, EntryIs
    <2> HIDE DEF entries
    <2> QED BY <2>1, <2>2, <2>3, MadeIs
  <1> HIDE DEF entries
  <1>3. EngTrue(remote, rows[d], first)
    <2>1. DecideTrue(remote, first)
      BY <1>2, ChangesNone DEF DecideTrue
    <2>2. first.pc = "decide"
      OBVIOUS
    <2> HIDE DEF first
    <2> QED BY <2>1, <2>2 DEF EngTrue, Pending
  <1> HIDE DEF first
  <1>4. \E e : EngineAt(d, e) /\ EngTrue(remote, rows[d], e)
    <2>1. EngineAt(d, first) \/ EngineAt(d, DrainFrom(d, {o.seq : o \in ops[d]}))
      BY DEF StartRound, first, entries, files
    <2> QED BY <2>1, <1>3, RestTrue
  <1>5. remote' = remote /\ Files' = Files /\ StoreSame
    BY DEF StartRound, Files
  <1>6. NewsTrue'
    <2>1. news = [a \in Devices |-> news[a]] /\ \A a \in Devices : news[a] \in Seq(Files)
      BY DEF IInv, NewsTrue
    <2>2. news' = news \/ news' = [news EXCEPT ![d] = <<>>]
      BY DEF StartRound
    <2>3. <<>> \in Seq(Files)
      OBVIOUS
    <2> QED BY <2>1, <2>2, <2>3, <1>5 DEF NewsTrue
  <1>7. RemoteTrue(remote') /\ Grows(remote, remote')
    BY <1>5, GrowsSame DEF IInv
  <1> QED BY <1>4, <1>5, <1>6, <1>7, AskTrue DEF WroteOver

LEMMA DecideStepTrue ==
  ASSUME IInv, NEW d \in Devices, DecideEntry(d)
  PROVE  IInv' /\ WroteOver
  <1> DEFINE e == eng[d]
             more == Decide(e.batch, rows[d], e.decided, Head(e.todo), remote, NewId)
             next == [e EXCEPT !.todo = Tail(@), !.decided = @ \o more]
  <1>1. /\ e.pc = "decide" /\ e.todo # <<>> /\ NewId \in NoteIds
        /\ EngineAt(d, next) /\ StoreSame /\ RemoteSame
    BY NewIdIs DEF DecideEntry
  <1>2. DecideTrue(remote, e) /\ RemoteTrue(remote) /\ TableTrue(remote, rows[d])
    BY <1>1, DeviceTrue DEF EngTrue
  <1>3. /\ IsSeq(Tail(e.todo)) /\ \A i \in DOMAIN Tail(e.todo) : EntryTrue(remote, Tail(e.todo)[i])
        /\ EntryTrue(remote, Head(e.todo))
    <2> DEFINE q == e.todo
    <2>1. IsSeq(q) /\ q # <<>> /\ \A i \in DOMAIN q : EntryTrue(remote, q[i])
      BY <1>1, <1>2 DEF DecideTrue
    <2> HIDE DEF q
    <2>2. /\ 1 \in DOMAIN q /\ Head(q) = q[1] /\ IsSeq(Tail(q))
          /\ \A i \in DOMAIN Tail(q) : \E j \in DOMAIN q : Tail(q)[i] = q[j]
      BY <2>1, TailIs
    <2>3. \A i \in DOMAIN Tail(q) : EntryTrue(remote, Tail(q)[i])
      BY <2>1, <2>2
    <2> QED BY <2>1, <2>2, <2>3 DEF q
  <1>4. ChangesTrue(remote, more)
    BY <1>1, <1>2, <1>3, DecideEntryTrue
  <1> HIDE DEF more
  <1>5. ChangesTrue(remote, e.decided \o more)
    BY <1>2, <1>4, ChangesConcat DEF DecideTrue
  <1>6. next \in [pc : {"decide"}, batch : {e.batch}, todo : {Tail(e.todo)}, decided : {e.decided \o more}]
    <2>1. e \in [pc : {"decide"}, batch : {e.batch}, todo : {e.todo}, decided : {e.decided}]
      BY <1>2 DEF DecideTrue
    <2> DEFINE b == e.batch  q == e.todo  c == e.decided
    <2>2. e \in [pc : {"decide"}, batch : {b}, todo : {q}, decided : {c}] /\ q = e.todo /\ c = e.decided /\ b = e.batch
      BY <2>1
    <2>3. next = [e EXCEPT !.todo = Tail(q), !.decided = c \o more]
      OBVIOUS
    <2> DEFINE x == Tail(q)  y == c \o more
    <2> HIDE DEF x, y, e, next, b, q, c
    <2>4. [e EXCEPT !.todo = x, !.decided = y] \in [pc : {"decide"}, batch : {b}, todo : {x}, decided : {y}]
      BY <2>2
    <2> QED BY <2>2, <2>3, <2>4 DEF x, y
  <1>7. EngTrue(remote, rows[d], next)
    <2> DEFINE x == Tail(e.todo)  y == e.decided \o more
    <2>1. next \in [pc : {"decide"}, batch : {e.batch}, todo : {x}, decided : {y}]
      BY <1>6
    <2>2. /\ IsSeq(x) /\ (\A i \in DOMAIN x : EntryTrue(remote, x[i])) /\ ChangesTrue(remote, y)
      BY <1>3, <1>5
    <2> HIDE DEF next, x, y
    <2>3. DecideTrue(remote, next) /\ next.pc = "decide"
      BY <2>1, <2>2 DEF DecideTrue
    <2> QED BY <2>3 DEF EngTrue, Pending
  <1> HIDE DEF next
  <1> QED BY <1>1, <1>7, ThinkTrue

LEMMA EndDecideTrue ==
  ASSUME IInv, NEW d \in Devices, EndDecide(d)
  PROVE  IInv' /\ WroteOver
  <1> DEFINE e == eng[d]
             last == Reconcile(e.batch, rows[d], e.decided, cursor[d] = "upload")
             all == IF e.batch.scanning THEN e.decided \o last ELSE e.decided
             next == [pc |-> "apply", entries |-> e.batch.entries, decided |-> all]
  <1>1. e.pc = "decide" /\ EngineAt(d, next) /\ StoreSame /\ RemoteSame
    BY DEF EndDecide
  <1>2. ChangesTrue(remote, e.decided)
    BY <1>1, DeviceTrue DEF EngTrue, DecideTrue
  <1>3. ChangesTrue(remote, last)
    BY ReconcileTrue
  <1> HIDE DEF last
  <1>4. ChangesTrue(remote, all)
    BY <1>2, <1>3, ChangesConcat
  <1> HIDE DEF all
  <1>5. next.pc = "apply" /\ next.decided = all
    OBVIOUS
  <1> HIDE DEF next
  <1>6. EngTrue(remote, rows[d], next)
    BY <1>4, <1>5 DEF EngTrue, Pending
  <1> QED BY <1>1, <1>6, ThinkTrue

LEMMA ApplyTrue ==
  ASSUME IInv, NEW d \in Devices, Apply(d)
  PROVE  IInv' /\ WroteOver
  <1> DEFINE e == eng[d]
             done == AppliedAll(Store(d), NextOp(d), e.decided)
  <1>1. e.pc = "apply" /\ remote' = remote /\ Files' = Files
    BY DEF Apply, Files
  <1>2. ChangesTrue(remote, e.decided) /\ StoreTrue(remote, Store(d))
    BY <1>1, DeviceTrue DEF EngTrue
  <1>3. done.ok => StoreTrue(remote, done.st)
    BY <1>2, BatchTrue
  <1>4. RemoteTrue(remote') /\ Grows(remote, remote')
    BY <1>1, GrowsSame DEF IInv
  <1>5. news = [a \in Devices |-> news[a]] /\ \A a \in Devices : news[a] \in Seq(Files)
    BY DEF IInv, NewsTrue
  <1>6. CASE done.ok
    <2> DEFINE heard == Unheard(d, e.entries)
    <2>1. /\ StoreSet(d, done.st) /\ EngineAt(d, DrainFrom(d, {o.seq : o \in done.st.ops}))
          /\ news' = [news EXCEPT ![d] = heard]
      BY <1>6 DEF Apply
    <2>2. heard \in Seq(Files)
      <3> DEFINE S == {f \in Files : \A x \in ToSet(e.entries) : x # EntryOf(f)}
      <3>1. Only(news[d], S) \in Seq(Files \cap S)
        <4> HIDE DEF S
        <4> QED BY <1>5, OnlyIn
      <3>2. Only(news[d], S) \in Seq(Files)
        BY <3>1, SeqMonotonic
      <3> QED BY <3>2 DEF Unheard
    <2> HIDE DEF heard
    <2>3. NewsTrue'
      BY <2>1, <2>2, <1>1, <1>5 DEF NewsTrue
    <2>4. TableTrue(remote', done.st.rows) /\ OpsTrue(done.st.ops)
      BY <1>1, <1>3, <1>6 DEF StoreTrue
    <2> HIDE DEF done, e
    <2> QED BY <1>1, <1>4, <2>1, <2>3, <2>4, RestTrue, StepTrue DEF WroteOver
  <1>7. CASE ~done.ok
    <2>1. EngineAt(d, Idle) /\ StoreSame /\ RemoteSame
      BY <1>7 DEF Apply, RemoteSame
    <2> QED BY <2>1, RestTrue, ThinkTrue
  <1> QED BY <1>6, <1>7

-----------------------------------------------------------------------------
(* The push.                                                                 *)

LEMMA MetIs ==
  ASSUME IInv, NEW p, FilesAt(p) # {}
  PROVE  /\ FileAt(p) \in Files /\ Alive(FileAt(p))
         /\ MetAt(p) = [id |-> FileAt(p), version |-> remote[FileAt(p)].version]
         /\ Known(remote, MetAt(p))
  <1>1. FileAt(p) \in FilesAt(p)
    BY DEF FileAt
  <1>2. FileAt(p) \in Files /\ Alive(FileAt(p))
    BY <1>1 DEF FilesAt
  <1> QED BY <1>2, EntryIs DEF MetAt

LEMMA HeldKept ==
  ASSUME NEW w, NEW v, RemoteTrue(w), RemoteTrue(v), Grows(w, v), NEW t, NEW e, Held(w, t, e)
  PROVE  Held(v, t, e)
  BY KeepsRow DEF Held

LEMMA EngHeld ==
  ASSUME NEW w, NEW t, NEW e, Held(w, t, e)
  PROVE  /\ e.pc = "landed" /\ Reads(w, e.file, e.row.text) => EngTrue(w, t, e)
         /\ e.pc = "met" /\ Known(w, e.file) => EngTrue(w, t, e)
         /\ e.pc = "rewrite" /\ Reads(w, e.file, e.row.synced) => EngTrue(w, t, e)
         /\ e.pc \in {"setaside", "purge"} => EngTrue(w, t, e)
         /\ e.pc \in {"create", "followed"} /\ e.row.file # NoFile => EngTrue(w, t, e)
         /\ e.pc \in {"missing", "follow"} /\ e.row.file # NoFile /\ e.file = e.row.file => EngTrue(w, t, e)
         /\ /\ e.pc = "aside" /\ e.row.file # NoFile /\ e.file = e.row.file
            /\ t[e.op.note].synced = e.row.synced
            => EngTrue(w, t, e)
         /\ /\ e.pc = "moved" /\ e.row.file # NoFile
            /\ e.file = [id |-> e.row.file.id, version |-> e.file.version]
            /\ t[e.op.note].synced = e.row.synced
            => EngTrue(w, t, e)
  BY DEF EngTrue, Pending, HoldTrue, OwnFile

LEMMA HeldIs ==
  ASSUME IInv, NEW d \in Devices, eng[d].pc \in Pending
  PROVE  HoldTrue(remote, rows[d], eng[d]) /\ Held(remote, rows[d], eng[d])
  BY DeviceTrue DEF EngTrue, HoldTrue

\* An op taken up: what is held is what was read of its row.
LEMMA SendingHeld ==
  ASSUME IInv, NEW d \in Devices, NEW op \in ops[d], rows[d][op.note] # NoRow
  PROVE  LET row == rows[d][op.note]  e == Holding(d, op, row)
         IN  /\ Held(remote, rows[d], e) /\ RowTrue(remote, row)
             /\ e.op = op /\ e.row = row /\ e.file = row.file
  <1> DEFINE row == rows[d][op.note]  e == Holding(d, op, row)
  <1>1. op.note \in NoteIds /\ RowTrue(remote, row)
    <2>1. op.note \in NoteIds
      BY DeviceTrue DEF OpsTrue, OpTrue
    <2> QED BY <2>1, DeviceTrue DEF TableTrue
  <1>2. /\ {"pc", "left", "op", "row", "file", "at", "taken"} \subseteq DOMAIN e
        /\ e.op = op /\ e.row = row /\ e.file = row.file
    BY DEF Holding
  <1> HIDE DEF e
  <1>3. Held(remote, rows[d], e)
    BY <1>1, <1>2 DEF Held
  <1> QED BY <1>1, <1>2, <1>3 DEF e

\* A text put up is the text that is there, and over one the note has synced.
LEMMA LandsTrue ==
  ASSUME IInv, NEW d \in Devices, NEW e, Held(remote, rows[d], e), NEW p, NEW held,
         held # NoFile => Reads(remote, held, e.row.synced), Lands(d, e, p, held)
  PROVE  IInv' /\ WroteOver
  <1>0. eng = [a \in Devices |-> eng[a]]
    BY DEF IInv, EnginesTrue
  <1>1. CASE RemoteMakes(p, e.row.text)
             /\ Goes(d, [e EXCEPT !.pc = "landed", !.at = p, !.file = [id |-> Len(remote) + 1, version |-> 0]])
    <2> DEFINE f == Len(remote) + 1
               g == [id |-> f, version |-> 0]
               next == [e EXCEPT !.pc = "landed", !.at = p, !.file = g]
    <2>1. /\ RemoteTrue(remote') /\ Grows(remote, remote') /\ NewsTrue'
          /\ f \in Files' /\ remote'[f].text = e.row.text /\ remote'[f].version = 0
          /\ \A h \in Files : remote'[h] = remote[h]
      BY <1>1, MakeGrows
    <2>2. Reads(remote', g, e.row.text)
      BY <2>1 DEF Reads, Known, Files
    <2>3. Held(remote', rows[d], e)
      BY <2>1, HeldKept DEF IInv
    <2> HIDE DEF g
    <2>4. Held(remote', rows[d], next) /\ next.pc = "landed" /\ next.file = g /\ next.row = e.row
      BY <2>3 DEF Held
    <2>5. EngineAt(d, next) /\ StoreSame
      BY <1>1 DEF Goes, g
    <2> HIDE DEF next
    <2>6. EngTrue(remote', rows[d], next)
      BY <2>2, <2>4, EngHeld
    <2> QED BY <2>1, <2>5, <2>6, AskTrue DEF WroteOver
  <1>2. CASE /\ held # NoFile /\ FilesAt(p) # {} /\ MetAt(p) = held
             /\ RemoteWrites(held.id, e.row.text)
             /\ Goes(d, [e EXCEPT !.pc = "landed", !.at = p, !.file = [held EXCEPT !.version = @ + 1]])
    <2> DEFINE f == FileAt(p)  v == remote[f].version
               g == [held EXCEPT !.version = @ + 1]
               next == [e EXCEPT !.pc = "landed", !.at = p, !.file = g]
    <2>1. f \in Files /\ Alive(f) /\ held = [id |-> f, version |-> v] /\ Known(remote, held)
      BY <1>2, MetIs
    <2>2. v \in Nat /\ held.id = f /\ held.version = v
      BY <2>1 DEF Known
    <2>3. g = [id |-> f, version |-> v + 1]
      <3> HIDE DEF f, v
      <3> QED BY <2>1
    <2>4. /\ RemoteTrue(remote') /\ Grows(remote, remote') /\ NewsTrue' /\ f \in Files'
          /\ remote'[f].text = e.row.text /\ remote'[f].version = v + 1
          /\ \A h \in Files : h # f => remote'[h] = remote[h]
      BY <1>2, <2>1, <2>2, WriteGrows
    <2> HIDE DEF f, v
    <2>5. Reads(remote', g, e.row.text)
      <3>1. g.id = f /\ g.version = v + 1 /\ g = [id |-> g.id, version |-> g.version]
        BY <2>3
      <3> HIDE DEF g
      <3> QED BY <3>1, <2>2, <2>4 DEF Reads, Known, Files
    <2>6. Held(remote', rows[d], e)
      BY <2>4, HeldKept DEF IInv
    <2> HIDE DEF g
    <2>7. Held(remote', rows[d], next) /\ next.pc = "landed" /\ next.file = g /\ next.row = e.row
      BY <2>6 DEF Held
    <2>8. EngineAt(d, next) /\ StoreSame
      BY <1>2 DEF Goes, g
    <2> HIDE DEF next
    <2>9. EngTrue(remote', rows[d], next)
      BY <2>5, <2>7, EngHeld
    <2>10. remote[f].text = e.row.synced
      BY <1>2, <2>1, <2>2 DEF Reads, Alive, v
    <2>11. eng'[d] = next
      BY <1>0, <2>8 DEF EngineAt
    <2>12. WroteOver
      BY <2>4, <2>7, <2>10, <2>11 DEF WroteOver
    <2> QED BY <2>4, <2>8, <2>9, <2>12, AskTrue
  <1> QED BY <1>1, <1>2 DEF Lands

LEMMA MeetsTrue ==
  ASSUME IInv, NEW d \in Devices, NEW e, Held(remote, rows[d], e), NEW p, FilesAt(p) # {},
         Goes(d, [e EXCEPT !.pc = "met", !.file = MetAt(p), !.at = p]), RemoteSame
  PROVE  IInv' /\ WroteOver
  <1> DEFINE f == MetAt(p)
             next == [e EXCEPT !.pc = "met", !.file = f, !.at = p]
  <1>1. Known(remote, f)
    BY MetIs
  <1> HIDE DEF f
  <1>2. Held(remote, rows[d], next) /\ next.pc = "met" /\ next.file = f
    BY DEF Held
  <1>3. EngineAt(d, next) /\ StoreSame
    BY DEF Goes, f
  <1> HIDE DEF next
  <1>4. EngTrue(remote, rows[d], next)
    BY <1>1, <1>2, EngHeld
  <1> QED BY <1>3, <1>4, ThinkTrue

\* The engine turns to its next request, with nothing else changed.
LEMMA TurnTrue ==
  ASSUME IInv, NEW d \in Devices, NEW e, Held(remote, rows[d], e), e.row.file # NoFile, NEW pc,
         Goes(d, [e EXCEPT !.pc = pc]), RemoteSame,
         \/ pc = "create"
         \/ pc \in {"missing", "follow"} /\ e.file = e.row.file
         \/ pc = "aside" /\ e.file = e.row.file /\ rows[d][e.op.note].synced = e.row.synced
  PROVE  IInv' /\ WroteOver
  <1> DEFINE next == [e EXCEPT !.pc = pc]
  <1>1. /\ Held(remote, rows[d], next) /\ next.pc = pc /\ next.file = e.file /\ next.row = e.row
        /\ next.op = e.op
    BY DEF Held
  <1>2. EngineAt(d, next) /\ StoreSame
    BY DEF Goes
  <1> HIDE DEF next
  <1>3. EngTrue(remote, rows[d], next)
    BY <1>1, EngHeld
  <1> QED BY <1>2, <1>3, ThinkTrue

LEMMA MeetTrue ==
  ASSUME IInv, NEW d \in Devices, NEW e, Held(remote, rows[d], e), NEW p, Meets(d, e, p)
  PROVE  IInv' /\ WroteOver
  BY MeetsTrue DEF Meets, Refused

\* The file a row that is so is bound to.
LEMMA FileIs ==
  ASSUME IInv, NEW r, RowTrue(remote, r), r.file # NoFile
  PROVE  /\ r.file = [id |-> r.file.id, version |-> r.file.version]
         /\ r.file.id \in Files /\ Reads(remote, r.file, r.synced)
  BY DEF RowTrue, Reads, Known, Files

LEMMA PassTrue ==
  ASSUME IInv, NEW d \in Devices, PassOver(d)
  PROVE  IInv' /\ WroteOver
  <1>1. PICK s : Settle(d, s, Store(d))
    BY DEF PassOver
  <1> QED BY <1>1, DeviceTrue, SettleTrue

LEMMA NothingTrue ==
  ASSUME IInv, NEW d \in Devices, NEW op \in ops[d], SendNothing(d, op)
  PROVE  IInv' /\ WroteOver
  <1>1. StoreTrue(remote, Store(d)) /\ op.note \in NoteIds
    BY DeviceTrue DEF OpsTrue, OpTrue
  <1>2. CASE Settle(d, op.seq, Done(Store(d), op.seq))
    BY <1>1, <1>2, DoneTrue, SettleTrue
  <1>3. CASE rows[d][op.note] # NoRow /\ Settle(d, op.seq, Purged(Store(d), NextOp(d), op.seq, op.note))
    <2>1. RowTrue(remote, Store(d).rows[op.note])
      BY <1>1, <1>3, StoreRow, DeviceTrue
    <2>2. StoreTrue(remote, Purged(Store(d), NextOp(d), op.seq, op.note))
      BY <1>1, <2>1, PurgedTrue
    <2> QED BY <1>3, <2>2, SettleTrue
  <1> QED BY <1>2, <1>3 DEF SendNothing

LEMMA WriteTrue ==
  ASSUME IInv, NEW d \in Devices, NEW op \in ops[d], SendWrite(d, op)
  PROVE  IInv' /\ WroteOver
  <1> DEFINE row == rows[d][op.note]  e == Holding(d, op, row)
  <1>1. rows[d][op.note] # NoRow
    BY DEF SendWrite, Sending
  <1>2. /\ Held(remote, rows[d], e) /\ RowTrue(remote, row)
        /\ e.op = op /\ e.row = row /\ e.file = row.file
    BY <1>1, SendingHeld
  <1>3. \/ Lands(d, e, row.path, row.file) \/ Meets(d, e, row.path)
        \/ Missing(row.path, row.file) /\ Goes(d, [e EXCEPT !.pc = "missing"]) /\ RemoteSame
    BY DEF SendWrite
  <1> HIDE DEF e, row
  <1>4. CASE Lands(d, e, row.path, row.file)
    <2>1. row.file # NoFile => Reads(remote, row.file, e.row.synced)
      BY <1>2, FileIs
    <2> QED BY <1>2, <1>4, <2>1, LandsTrue
  <1>5. CASE Meets(d, e, row.path)
    BY <1>2, <1>5, MeetTrue
  <1>6. CASE Missing(row.path, row.file) /\ Goes(d, [e EXCEPT !.pc = "missing"]) /\ RemoteSame
    <2>1. e.row.file # NoFile /\ e.file = e.row.file
      BY <1>2, <1>6 DEF Missing
    <2> QED BY <1>2, <1>6, <2>1, TurnTrue
  <1> QED BY <1>3, <1>4, <1>5, <1>6

LEMMA LookTrue ==
  ASSUME IInv, NEW d \in Devices, LookForOwn(d)
  PROVE  IInv' /\ WroteOver
  <1> DEFINE e == eng[d]
  <1>1. /\ Held(remote, rows[d], e) /\ e.row.file # NoFile /\ e.file = e.row.file
    BY HeldIs DEF LookForOwn, At, Pending, HoldTrue, OwnFile
  <1>2. \/ Goes(d, [e EXCEPT !.pc = "create"]) /\ RemoteSame
        \/ Goes(d, [e EXCEPT !.pc = "follow"]) /\ RemoteSame
        \/ Fail(d)
    BY DEF LookForOwn
  <1> HIDE DEF e
  <1>3. CASE Goes(d, [e EXCEPT !.pc = "create"]) /\ RemoteSame
    BY <1>1, <1>3, TurnTrue
  <1>4. CASE Goes(d, [e EXCEPT !.pc = "follow"]) /\ RemoteSame
    BY <1>1, <1>4, TurnTrue
  <1> QED BY <1>2, <1>3, <1>4, FailTrue

LEMMA AgainTrue ==
  ASSUME IInv, NEW d \in Devices, CreateAgain(d)
  PROVE  IInv' /\ WroteOver
  <1> DEFINE e == [eng[d] EXCEPT !.file = NoFile]
  <1>1. Held(remote, rows[d], e)
    <2>1. Held(remote, rows[d], eng[d])
      BY HeldIs DEF CreateAgain, At, Pending
    <2> QED BY <2>1 DEF Held
  <1>2. Lands(d, e, e.row.path, NoFile) \/ Meets(d, e, e.row.path)
    BY DEF CreateAgain
  <1> HIDE DEF e
  <1> QED BY <1>1, <1>2, LandsTrue, MeetTrue

\* What a move is told of its file: its text is what it was.
LEMMA MovesTrue ==
  ASSUME IInv, NEW d \in Devices, NEW f \in Files, Alive(f), NEW p, RemoteMoves(f, p), StoreSame,
         NEW e, EngineAt(d, e), EngTrue(remote', rows[d], e)
  PROVE  IInv' /\ WroteOver
  <1>1. /\ RemoteTrue(remote') /\ Grows(remote, remote') /\ NewsTrue'
        /\ \A g \in Files : remote'[g] # Gone => remote'[g].text = remote[g].text
    BY MoveGrows
  <1> QED BY <1>1, AskTrue DEF WroteOver

LEMMA FollowTrue ==
  ASSUME IInv, NEW d \in Devices, Follow(d)
  PROVE  IInv' /\ WroteOver
  <1> DEFINE e == eng[d]  f == e.row.file.id
             pc == IF MovedVersion(f) = e.row.file.version THEN "rewrite" ELSE "followed"
             next == [e EXCEPT !.pc = pc]
  <1>1. Held(remote, rows[d], e) /\ e.row.file # NoFile /\ e.file = e.row.file
    BY HeldIs DEF Follow, At, Pending, HoldTrue, OwnFile
  <1>2. f \in Files /\ Reads(remote, e.file, e.row.synced)
    BY <1>1, FileIs DEF Held
  <1>3. CASE Fail(d)
    BY <1>3, FailTrue
  <1>4. CASE /\ Blocked(f, e.row.path) /\ RemoteSame
             /\ Goes(d, [e EXCEPT !.pc = "met", !.file = MetAt(e.row.path), !.at = e.row.path])
    <2>1. FilesAt(e.row.path) # {}
      BY <1>4 DEF Blocked
    <2> HIDE DEF e
    <2> QED BY <1>1, <1>4, <2>1, MeetsTrue
  <1>5. CASE Alive(f) /\ RemoteMoves(f, e.row.path) /\ Goes(d, next)
    <2>1. RemoteTrue(remote') /\ Grows(remote, remote')
      BY <1>2, <1>5, MoveGrows
    <2>2. Reads(remote', e.file, e.row.synced) /\ Held(remote', rows[d], e)
      BY <1>1, <1>2, <2>1, KeepsReads, HeldKept DEF IInv
    <2> HIDE DEF pc
    <2>3. /\ Held(remote', rows[d], next) /\ next.pc = pc /\ next.file = e.file /\ next.row = e.row
      BY <2>2 DEF Held
    <2>4. pc \in {"rewrite", "followed"}
      BY DEF pc
    <2>5. EngineAt(d, next) /\ StoreSame
      BY <1>5 DEF Goes
    <2> HIDE DEF next, e
    <2>6. EngTrue(remote', rows[d], next)
      BY <1>1, <2>2, <2>3, <2>4, EngHeld
    <2> QED BY <1>2, <1>5, <2>5, <2>6, MovesTrue
  <1> QED BY <1>3, <1>4, <1>5 DEF Follow

LEMMA AskVersionTrue ==
  ASSUME IInv, NEW d \in Devices, AskVersion(d)
  PROVE  IInv' /\ WroteOver
  <1> DEFINE e == eng[d]  f == e.row.file.id  g == FileOf(EntryOf(f))
             next == [e EXCEPT !.pc = "rewrite", !.file = g]
  <1>1. Held(remote, rows[d], e) /\ e.row.file # NoFile
    BY HeldIs DEF AskVersion, At, Pending, HoldTrue, OwnFile
  <1>2. f \in Files
    BY <1>1, FileIs DEF Held
  <1>3. CASE Alive(f) /\ remote[f].text = e.row.synced /\ Goes(d, next) /\ RemoteSame
    <2>1. Reads(remote, g, e.row.synced)
      BY <1>2, <1>3, EntryIs
    <2> HIDE DEF g
    <2>2. Held(remote, rows[d], next) /\ next.pc = "rewrite" /\ next.file = g /\ next.row = e.row
      BY <1>1 DEF Held
    <2>3. EngineAt(d, next) /\ StoreSame
      BY <1>3 DEF Goes
    <2> HIDE DEF next
    <2>4. EngTrue(remote, rows[d], next)
      BY <2>1, <2>2, EngHeld
    <2> QED BY <1>3, <2>3, <2>4, ThinkTrue
  <1> QED BY <1>3, FailTrue DEF AskVersion

LEMMA RewriteTrue ==
  ASSUME IInv, NEW d \in Devices, Rewrite(d)
  PROVE  IInv' /\ WroteOver
  <1> DEFINE e == eng[d]
  <1>1. Held(remote, rows[d], e) /\ Reads(remote, e.file, e.row.synced)
    BY HeldIs DEF Rewrite, At, Pending, HoldTrue
  <1>2. Lands(d, e, e.row.path, e.file) \/ Meets(d, e, e.row.path) \/ Fail(d)
    BY DEF Rewrite
  <1> HIDE DEF e
  <1> QED BY <1>1, <1>2, LandsTrue, MeetTrue, FailTrue

LEMMA RecordPushTrue ==
  ASSUME IInv, NEW d \in Devices, RecordPush(d)
  PROVE  IInv' /\ WroteOver
  <1> DEFINE e == eng[d]
             after == Pushed(Store(d), NextOp(d), e.op.seq, e.op.note, e.row.text, e.at, e.file)
  <1>1. Held(remote, rows[d], e) /\ Reads(remote, e.file, e.row.text)
    BY HeldIs DEF RecordPush, At, Pending, HoldTrue
  <1>2. e.op.note \in NoteIds /\ RowTrue(remote, Store(d).rows[e.op.note])
    BY <1>1, DeviceTrue DEF Held
  <1>3. StoreTrue(remote, after)
    BY <1>1, <1>2, PushedTrue, DeviceTrue
  <1>4. Settle(d, e.op.seq, after)
    BY DEF RecordPush
  <1> HIDE DEF after
  <1> QED BY <1>3, <1>4, SettleTrue

\* A file moved for an op: where it is now, its version is the row's or is asked.
LEMMA MovedHeld ==
  ASSUME IInv, NEW d \in Devices, NEW e, Held(remote, rows[d], e), e.row.file # NoFile,
         e.file = e.row.file, rows[d][e.op.note].synced = e.row.synced,
         Alive(e.row.file.id), NEW p, RemoteMoves(e.row.file.id, p), NEW v,
         Goes(d, [e EXCEPT !.pc = "moved", !.at = p, !.file.version = v])
  PROVE  IInv' /\ WroteOver
  <1> DEFINE f == e.row.file.id
             next == [e EXCEPT !.pc = "moved", !.at = p, !.file.version = v]
             g == [e.file EXCEPT !.version = v]
  <1>1. f \in Files /\ e.file = [id |-> f, version |-> e.row.file.version]
    BY FileIs DEF Held
  <1>2. RemoteTrue(remote') /\ Grows(remote, remote')
    BY <1>1, MoveGrows
  <1>3. Held(remote', rows[d], e)
    BY <1>2, HeldKept DEF IInv
  <1>4. /\ Held(remote', rows[d], next) /\ next.pc = "moved" /\ next.file = g /\ next.row = e.row
        /\ next.op = e.op
    BY <1>3 DEF Held
  <1>5. g = [id |-> f, version |-> v]
    <2> DEFINE u == e.row.file.version
    <2> HIDE DEF f, u
    <2>1. e.file = [id |-> f, version |-> u]
      BY <1>1 DEF u
    <2> QED BY <2>1
  <1>6. next.file = [id |-> next.row.file.id, version |-> next.file.version]
    <2>1. g.version = v
      BY <1>5
    <2> HIDE DEF g
    <2> QED BY <1>4, <1>5, <2>1
  <1>7. EngineAt(d, next) /\ StoreSame
    BY DEF Goes
  <1> HIDE DEF next, g
  <1>8. EngTrue(remote', rows[d], next)
    BY <1>4, <1>6, EngHeld
  <1> QED BY <1>1, <1>7, <1>8, MovesTrue

LEMMA MoveTrue ==
  ASSUME IInv, NEW d \in Devices, NEW op \in ops[d], SendMove(d, op)
  PROVE  IInv' /\ WroteOver
  <1> DEFINE row == rows[d][op.note]  e == Holding(d, op, row)  f == row.file.id
  <1>1. rows[d][op.note] # NoRow /\ row.file # NoFile /\ Alive(f)
    BY DEF SendMove, Sending
  <1>2. /\ Held(remote, rows[d], e) /\ e.op = op /\ e.row = row /\ e.file = row.file
    BY <1>1, SendingHeld
  <1>3. \/ Goes(d, [e EXCEPT !.pc = "aside"]) /\ RemoteSame
        \/ /\ RemoteMoves(f, op.target)
           /\ Goes(d, [e EXCEPT !.pc = "moved", !.at = op.target, !.file.version = MovedVersion(f)])
    BY DEF SendMove
  <1>4. rows[d][e.op.note].synced = e.row.synced /\ e.row.file # NoFile /\ e.file = e.row.file
        /\ e.row.file.id = f
    BY <1>1, <1>2
  <1> HIDE DEF e, row, f
  <1>5. CASE Goes(d, [e EXCEPT !.pc = "aside"]) /\ RemoteSame
    BY <1>2, <1>4, <1>5, TurnTrue
  <1>6. CASE /\ RemoteMoves(f, op.target)
             /\ Goes(d, [e EXCEPT !.pc = "moved", !.at = op.target, !.file.version = MovedVersion(f)])
    <2> DEFINE v == MovedVersion(f)
    <2>1. Goes(d, [e EXCEPT !.pc = "moved", !.at = op.target, !.file.version = v])
      BY <1>6
    <2> HIDE DEF v
    <2> QED BY <1>1, <1>2, <1>4, <1>6, <2>1, MovedHeld
  <1> QED BY <1>3, <1>5, <1>6

LEMMA MoveAsideTrue ==
  ASSUME IInv, NEW d \in Devices, MoveAside(d)
  PROVE  IInv' /\ WroteOver
  <1> DEFINE e == eng[d]  f == e.row.file.id
             p == ConflictPath(e.op.target, {remote[g].path : g \in {h \in Files \ {f} : Alive(h)}})
             v == MovedVersion(f)
  <1>1. /\ Held(remote, rows[d], e) /\ e.row.file # NoFile /\ e.file = e.row.file
        /\ rows[d][e.op.note].synced = e.row.synced
    BY HeldIs DEF MoveAside, At, Pending, HoldTrue, OwnFile
  <1>2. CASE ~Alive(f)
    BY <1>2, FailTrue DEF MoveAside
  <1>3. CASE Alive(f)
    <2>1. RemoteMoves(f, p) /\ Goes(d, [e EXCEPT !.pc = "moved", !.at = p, !.file.version = v])
      BY <1>3 DEF MoveAside
    <2> HIDE DEF p, v, e
    <2> QED BY <1>1, <1>3, <2>1, MovedHeld
  <1> QED BY <1>2, <1>3

LEMMA RecordMoveTrue ==
  ASSUME IInv, NEW d \in Devices, RecordMove(d)
  PROVE  IInv' /\ WroteOver
  <1> DEFINE e == eng[d]  g == MovedFile(e)
             after == Moved(Store(d), NextOp(d), e.op.seq, e.op.note, e.at, g)
  <1>1. /\ Held(remote, rows[d], e) /\ e.row.file # NoFile
        /\ e.file = [id |-> e.row.file.id, version |-> e.file.version]
        /\ rows[d][e.op.note].synced = e.row.synced
    BY HeldIs DEF RecordMove, At, Pending, HoldTrue, OwnFile
  <1>2. /\ e.row.file = [id |-> e.row.file.id, version |-> e.row.file.version]
        /\ e.row.file.id \in Files /\ Reads(remote, e.row.file, e.row.synced)
    BY <1>1, FileIs DEF Held
  <1>3. e.file.id = e.row.file.id
    <2> DEFINE a == e.row.file.id  b == e.file.version
    <2>1. e.file = [id |-> a, version |-> b]
      BY <1>1
    <2> HIDE DEF a, b
    <2>2. e.file.id = a
      BY <2>1
    <2> QED BY <2>2 DEF a
  <1>4. Reads(remote, g, e.row.synced)
    <2>1. CASE e.file.version = e.row.file.version
      <3>1. e.file = e.row.file
        BY <1>1, <1>2, <2>1
      <3> HIDE DEF e
      <3> QED BY <2>1, <3>1, <1>2 DEF MovedFile
    <2>2. CASE e.file.version # e.row.file.version /\ Alive(e.file.id) /\ remote[e.file.id].text = e.row.synced
      <3>1. Reads(remote, FileOf(EntryOf(e.file.id)), e.row.synced)
        BY <1>2, <1>3, <2>2, EntryIs
      <3> QED BY <2>2, <3>1 DEF MovedFile
    <2>3. CASE /\ e.file.version # e.row.file.version
               /\ ~(Alive(e.file.id) /\ remote[e.file.id].text = e.row.synced)
      BY <1>2, <2>3 DEF MovedFile
    <2> QED BY <2>1, <2>2, <2>3
  <1> HIDE DEF g
  <1>5. /\ e.op.note \in NoteIds /\ RowTrue(remote, Store(d).rows[e.op.note])
        /\ Reads(remote, g, Store(d).rows[e.op.note].synced)
    BY <1>1, <1>4, DeviceTrue DEF Held
  <1>6. StoreTrue(remote, after)
    BY <1>5, MovedTrue, DeviceTrue
  <1>7. Settle(d, e.op.seq, after)
    BY DEF RecordMove, g
  <1> HIDE DEF after
  <1> QED BY <1>6, <1>7, SettleTrue

LEMMA SendDeleteTrue ==
  ASSUME IInv, NEW d \in Devices, NEW op \in ops[d], SendDelete(d, op)
  PROVE  IInv' /\ WroteOver
  <1> DEFINE row == rows[d][op.note]  e == Holding(d, op, row)  f == row.file.id
             next == [e EXCEPT !.pc = "purge"]
  <1>1. rows[d][op.note] # NoRow /\ row.file # NoFile /\ EngineAt(d, next) /\ StoreSame
    BY DEF SendDelete, Sending
  <1>2. Held(remote, rows[d], e) /\ RowTrue(remote, row)
    BY <1>1, SendingHeld
  <1>3. f \in Files
    BY <1>1, <1>2, FileIs
  <1>4. CASE RemoteSame
    <2>1. Held(remote, rows[d], next) /\ next.pc = "purge"
      BY <1>2 DEF Held
    <2> HIDE DEF next
    <2>2. EngTrue(remote, rows[d], next)
      BY <2>1, EngHeld
    <2> QED BY <1>1, <1>4, <2>2, ThinkTrue
  <1>5. CASE RemoteSet(f, Gone)
    <2>1. /\ RemoteTrue(remote') /\ Grows(remote, remote') /\ NewsTrue'
          /\ \A g \in Files : remote'[g] # Gone => remote'[g] = remote[g]
      BY <1>3, <1>5, GoneGrows
    <2>2. Held(remote', rows[d], e)
      BY <1>2, <2>1, HeldKept DEF IInv
    <2>3. Held(remote', rows[d], next) /\ next.pc = "purge"
      BY <2>2 DEF Held
    <2> HIDE DEF next
    <2>4. EngTrue(remote', rows[d], next)
      BY <2>3, EngHeld
    <2> QED BY <1>1, <2>1, <2>4, AskTrue DEF WroteOver
  <1> QED BY <1>4, <1>5 DEF SendDelete

LEMMA RecordPurgeTrue ==
  ASSUME IInv, NEW d \in Devices, RecordPurge(d)
  PROVE  IInv' /\ WroteOver
  <1> DEFINE e == eng[d]
             after == Purged(Store(d), NextOp(d), e.op.seq, e.op.note)
  <1>1. Held(remote, rows[d], e)
    BY HeldIs DEF RecordPurge, At, Pending
  <1>2. e.op.note \in NoteIds /\ RowTrue(remote, Store(d).rows[e.op.note])
    BY <1>1, DeviceTrue DEF Held
  <1>3. StoreTrue(remote, after)
    BY <1>2, PurgedTrue, DeviceTrue
  <1>4. Settle(d, e.op.seq, after)
    BY DEF RecordPurge
  <1> HIDE DEF after
  <1> QED BY <1>3, <1>4, SettleTrue

-----------------------------------------------------------------------------
(* A write that met another file.                                            *)

\* What was read of the file in the way.
LEMMA WeighIs ==
  ASSUME IInv, NEW d \in Devices, At(d, "weigh")
  PROVE  LET e == eng[d]  read == [e.file EXCEPT !.version = e.version]
         IN  /\ Held(remote, rows[d], e) /\ Known(remote, e.file)
             /\ Reads(remote, e.file, e.text)
             /\ Reads(remote, read, e.text)
  <1> DEFINE e == eng[d]  f == e.file.id  v == e.file.version  u == e.version
             read == [e.file EXCEPT !.version = u]
  <1>1. /\ Held(remote, rows[d], e) /\ Known(remote, e.file) /\ v <= u
        /\ Reads(remote, [id |-> f, version |-> u], e.text)
    BY HeldIs DEF At, Pending, HoldTrue
  <1>2. e.file = [id |-> f, version |-> v] /\ f \in Files /\ v \in Nat
    BY <1>1 DEF Known, Files
  <1>3. u \in Nat /\ (Alive(f) => u <= remote[f].version)
        /\ (Alive(f) /\ remote[f].version = u => remote[f].text = e.text)
    BY <1>1 DEF Reads, Known, Alive
  <1>4. Alive(f) => v <= remote[f].version /\ remote[f].version \in Nat
    BY <1>1, <1>2 DEF Known, Alive, IInv, RemoteTrue, Files
  <1>5. Reads(remote, e.file, e.text)
    BY <1>1, <1>3, <1>4, <1>2 DEF Reads, Alive
  <1>6. read = [id |-> f, version |-> u]
    <2> HIDE DEF f, u, v
    <2>1. e.file = [id |-> f, version |-> v]
      BY <1>2
    <2> QED BY <2>1
  <1> QED BY <1>1, <1>5, <1>6

LEMMA WeighTrue ==
  ASSUME IInv, NEW d \in Devices, Meet(d)
  PROVE  IInv' /\ WroteOver
  <1> DEFINE e == eng[d]  f == e.file.id  v == remote[f].version  text == remote[f].text
             row == rows[d][e.op.note]
             next == [pc |-> "weigh", left |-> e.left, op |-> e.op, row |-> row, file |-> e.file,
                      at |-> e.at, taken |-> {}, text |-> text, version |-> v]
  <1>1. Held(remote, rows[d], e) /\ Known(remote, e.file)
    BY HeldIs DEF Meet, At, Pending, HoldTrue
  <1>2. CASE ~Alive(f)
    BY <1>2, FailTrue DEF Meet
  <1>3. CASE Alive(f)
    <2>1. EngineAt(d, next) /\ StoreSame /\ RemoteSame
      BY <1>3 DEF Meet
    <2>2. f \in Files /\ e.file.version <= v /\ v \in Nat
      BY <1>1, <1>3 DEF Known, Alive, IInv, RemoteTrue, Files
    <2>3. Reads(remote, [id |-> f, version |-> v], text)
      BY <2>2 DEF Reads, Known, Files
    <2>4. e.op.note \in NoteIds /\ RowTrue(remote, row)
      BY <1>1 DEF Held
    <2>5. EngTrue(remote, rows[d], next)
      <3> HIDE DEF v, text, e, f
      <3>1. /\ {"pc", "left", "op", "row", "file", "at", "taken", "text", "version"} \subseteq DOMAIN next
            /\ next.pc = "weigh" /\ next.op = e.op /\ next.row = row /\ next.file = e.file
            /\ next.version = v /\ next.text = text
        OBVIOUS
      <3> HIDE DEF next
      <3>2. Held(remote, rows[d], next)
        BY <2>4, <3>1 DEF Held
      <3> QED BY <1>1, <2>2, <2>3, <3>1, <3>2 DEF EngTrue, Pending, HoldTrue, OwnFile, f
    <2> HIDE DEF next
    <2> QED BY <2>1, <2>5, ThinkTrue
  <1> QED BY <1>2, <1>3

LEMMA OverTrue ==
  ASSUME IInv, NEW d \in Devices, PushOver(d)
  PROVE  IInv' /\ WroteOver
  <1> DEFINE e == eng[d]  read == [e.file EXCEPT !.version = e.version]
  <1>1. /\ Held(remote, rows[d], e) /\ Reads(remote, read, e.row.synced)
    <2>1. At(d, "weigh") /\ e.text = e.row.synced
      BY DEF PushOver, OwnUnchanged
    <2> QED BY <2>1, WeighIs
  <1>2. Lands(d, e, e.row.path, read) \/ Fail(d)
    BY DEF PushOver
  <1> HIDE DEF e, read
  <1> QED BY <1>1, <1>2, LandsTrue, FailTrue

LEMMA SameTrue ==
  ASSUME IInv, NEW d \in Devices, SameBytes(d)
  PROVE  IInv' /\ WroteOver
  <1> DEFINE e == eng[d]
             after == Pushed(Store(d), NextOp(d), e.op.seq, e.op.note, e.row.text, e.at, e.file)
  <1>1. Held(remote, rows[d], e) /\ Reads(remote, e.file, e.row.text)
    <2>1. At(d, "weigh") /\ e.text = e.row.text
      BY DEF SameBytes
    <2> QED BY <2>1, WeighIs
  <1>2. e.op.note \in NoteIds /\ RowTrue(remote, Store(d).rows[e.op.note])
    BY <1>1, DeviceTrue DEF Held
  <1>3. StoreTrue(remote, after)
    BY <1>1, <1>2, PushedTrue, DeviceTrue
  <1>4. Settle(d, e.op.seq, after)
    BY DEF SameBytes
  <1> HIDE DEF after
  <1> QED BY <1>3, <1>4, SettleTrue

\* A name taken for the note: its row is put there, bound to nothing.
LEMMA NameTrue ==
  ASSUME IInv, NEW d \in Devices, eng[d].pc \in Pending, NEW taken, TakeName(d, taken)
  PROVE  IInv' /\ WroteOver
  <1> DEFINE e == eng[d]  n == e.op.note
             p == ConflictPath(e.row.path, PathsOf(rows[d]) \cup taken)
             c == DisplaceOf(n, p)
             x == DisplaceNote(DetachNote(Store(d), c), c)
             t == taken \cup {p}
             next == [e EXCEPT !.pc = "setaside", !.at = p, !.taken = t]
  <1>1. Held(remote, rows[d], e) /\ n \in NoteIds /\ RowTrue(remote, Store(d).rows[n])
    BY HeldIs, DeviceTrue DEF Held
  <1>2. StoreSet(d, x) /\ EngineAt(d, next) /\ RemoteSame
    BY DEF TakeName
  <1>3. c.kind = "displace" /\ c.note = n
    BY PlainIs
  <1> HIDE DEF c
  <1>4. StoreTrue(remote, x) /\ RowTrue(remote, x.rows[n])
    BY <1>1, <1>3, AsideTrue, DeviceTrue
  <1> HIDE DEF x, p, t
  <1>5. Held(remote, x.rows, next) /\ next.pc = "setaside"
    BY <1>1, <1>4 DEF Held
  <1> HIDE DEF next
  <1>6. EngTrue(remote, x.rows, next)
    BY <1>5, EngHeld
  <1> QED BY <1>2, <1>4, <1>6, HereTrue

LEMMA AsideUpTrue ==
  ASSUME IInv, NEW d \in Devices, CreateAside(d)
  PROVE  IInv' /\ WroteOver
  <1> DEFINE e == [eng[d] EXCEPT !.file = NoFile]
  <1>1. eng[d].pc \in Pending /\ Held(remote, rows[d], eng[d])
    BY HeldIs DEF CreateAside, At, Pending
  <1>2. Held(remote, rows[d], e)
    BY <1>1 DEF Held
  <1>3. Lands(d, e, e.at, NoFile) \/ TakeName(d, e.taken)
    BY DEF CreateAside
  <1> HIDE DEF e
  <1> QED BY <1>1, <1>2, <1>3, LandsTrue, NameTrue

LEMMA StepAsideTrue ==
  ASSUME IInv, NEW d \in Devices, StepAside(d)
  PROVE  IInv' /\ WroteOver
  <1> DEFINE e == eng[d]  n == e.op.note
             there == {remote[f].path : f \in {g \in Files : Alive(g)}}
             p == ConflictPath(e.row.path, PathsOf(rows[d]) \cup there)
             c == DisplaceOf(n, p)
             x == DisplaceNote(Store(d), c)
  <1>1. n \in NoteIds /\ RowTrue(remote, Store(d).rows[n])
    BY HeldIs, DeviceTrue DEF Held, StepAside, Clashes, At, Pending
  <1>2. StoreSet(d, x) /\ EngineAt(d, Idle) /\ RemoteSame
    BY DEF StepAside
  <1>3. c.kind = "displace" /\ c.note = n
    BY PlainIs
  <1> HIDE DEF c
  <1>4. StoreTrue(remote, x)
    BY <1>1, <1>3, AsideTrue, DeviceTrue
  <1> HIDE DEF x
  <1>5. EngTrue(remote, x.rows, Idle)
    BY RestTrue
  <1> QED BY <1>2, <1>4, <1>5, HereTrue

LEMMA ResolveStepTrue ==
  ASSUME IInv, NEW d \in Devices, Resolve(d)
  PROVE  IInv' /\ WroteOver
  <1> DEFINE e == eng[d]
             met == [id |-> e.file.id, path |-> e.at, version |-> e.file.version]
             p == ConflictPath(e.at, PathsOf(rows[d]))
             c == ConflictOf(e.op.note, met, e.text, NewId, p)
             after == WithOwnId(ResolveConflict(Store(d), NextOp(d), e.op.seq, c), c)
  <1>1. At(d, "weigh") /\ NewId \in NoteIds /\ Settle(d, e.op.seq, after)
    BY NewIdIs DEF Resolve, Clashes
  <1>2. Known(remote, e.file) /\ Reads(remote, e.file, e.text)
    BY <1>1, WeighIs
  <1>3. FileOf(met) = e.file
    BY <1>2 DEF Known, FileOf
  <1> HIDE DEF met, p
  <1>4. ChangeTrue(remote, c) /\ c.kind = "conflict"
    BY <1>1, <1>2, <1>3, ConflictIs
  <1> HIDE DEF c
  <1>5. StoreTrue(remote, after)
    BY <1>4, ResolvedTrue, DeviceTrue
  <1> HIDE DEF after
  <1> QED BY <1>1, <1>5, SettleTrue

LEMMA ConflictedTrue ==
  ASSUME IInv, NEW d \in Devices, Conflicted(d)
  PROVE  IInv' /\ WroteOver
  <1>1. CASE SetAside(d)
    <2>1. eng[d].pc \in Pending /\ TakeName(d, {})
      BY <1>1 DEF SetAside, Clashes, At, Pending
    <2> QED BY <2>1, NameTrue
  <1> QED BY <1>1, WeighTrue, OverTrue, SameTrue, AsideUpTrue, StepAsideTrue, ResolveStepTrue DEF Conflicted

-----------------------------------------------------------------------------
(* The whole.                                                                *)

LEMMA PullTrue ==
  ASSUME IInv, NEW d \in Devices, Pull(d)
  PROVE  IInv' /\ WroteOver
  BY StartTrue, DecideStepTrue, EndDecideTrue, ApplyTrue DEF Pull

LEMMA PushTrue ==
  ASSUME IInv, NEW d \in Devices, Push(d)
  PROVE  IInv' /\ WroteOver
  <1>1. CASE \E op \in ops[d] : SendNothing(d, op) \/ SendWrite(d, op) \/ SendMove(d, op) \/ SendDelete(d, op)
    BY <1>1, NothingTrue, WriteTrue, MoveTrue, SendDeleteTrue
  <1> QED BY <1>1, PassTrue, LookTrue, AgainTrue, FollowTrue, AskVersionTrue, RewriteTrue, MoveAsideTrue,
             RecordPushTrue, RecordMoveTrue, RecordPurgeTrue DEF Push

LEMMA FaultTrue ==
  ASSUME IInv, NEW d \in Devices,
         Interrupted(d) \/ FeedLags(d) \/ \E how \in Deaths : CursorDies(d, how)
  PROVE  IInv' /\ WroteOver
  <1>1. CASE Interrupted(d)
    BY <1>1, RestTrue, ThinkTrue DEF Interrupted
  <1>2. CASE FeedLags(d)
    BY <1>2, RestTrue, ThinkTrue DEF FeedLags
  <1>3. CASE \E how \in Deaths : CursorDies(d, how)
    <2>1. UNCHANGED <<remote, news, rows, ops, eng>>
      BY <1>3 DEF CursorDies, StoreSame, RemoteSame
    <2> QED BY <2>1 DEF IInv, NewsTrue, StoresTrue, EnginesTrue, WroteOver, Files
  <1> QED BY <1>1, <1>2, <1>3

LEMMA StepsTrue ==
  ASSUME IInv, [Next]_vars
  PROVE  IInv' /\ WroteOver
  <1>1. CASE UNCHANGED vars
    BY <1>1 DEF vars, IInv, NewsTrue, StoresTrue, EnginesTrue, WroteOver, Files
  <1>2. CASE Next
    <2>1. PICK d \in Devices :
            \/ UserStep(d) \/ Pull(d) \/ Push(d) \/ Conflicted(d)
            \/ Interrupted(d) \/ FeedLags(d) \/ \E how \in Deaths : CursorDies(d, how)
      BY <1>2 DEF Next, EngineStep
    <2> QED BY <2>1, UserTrue, PullTrue, PushTrue, ConflictedTrue, FaultTrue
  <1> QED BY <1>1, <1>2

\* At first every device has the files there are, as they are.
LEMMA FirstTrue ==
  ASSUME Init
  PROVE  IInv
  <1> DEFINE file(n) == [path |-> <<n>>, text |-> Text(n, n), version |-> 0]
             row(n) == [path |-> <<n>>, text |-> Text(n, n), dirty |-> FALSE, deleted |-> FALSE,
                        file |-> [id |-> n, version |-> 0], synced |-> Text(n, n)]
             N == Cardinality(Start)
  <1>1. Start = 1..N /\ N \in Nat /\ Start \subseteq NoteIds
    BY SyncAssumption, FS_CardinalityType, FS_Subset
  <1>2. remote = [n \in 1..N |-> file(n)] /\ Files = Start
    BY <1>1 DEF Init, Files
  <1>3. RemoteTrue(remote)
    <2> DEFINE S == {file(n) : n \in 1..N}
    <2>1. remote \in Seq(S)
      <3>1. remote \in [1..N -> S]
        BY <1>2
      <3> QED BY <1>1, <3>1, SeqDef
    <2>2. IsSeq(remote)
      <3> HIDE DEF S
      <3> QED BY <2>1, SeqIn
    <2>3. \A f \in DOMAIN remote : remote[f] = file(f)
      BY <1>2
    <2> QED BY <2>2, <2>3 DEF RemoteTrue
  <1>4. NewsTrue
    BY DEF Init, NewsTrue
  <1>5. ASSUME NEW n \in Start PROVE RowTrue(remote, row(n))
    <2>1. remote[n] = file(n) /\ n \in DOMAIN remote
      BY <1>1, <1>2
    <2>2. Reads(remote, [id |-> n, version |-> 0], Text(n, n))
      BY <2>1 DEF Reads, Known
    <2> QED BY <2>2 DEF RowTrue
  <1>6. ASSUME NEW d \in Devices PROVE TableTrue(remote, rows[d])
    <2>1. rows[d] = [n \in NoteIds |-> IF n \in Start THEN row(n) ELSE NoRow]
      BY DEF Init
    <2> HIDE DEF row
    <2> QED BY <2>1, <1>5 DEF TableTrue
  <1>7. StoresTrue
    BY <1>6 DEF StoresTrue, Init, OpsTrue
  <1>8. EnginesTrue
    BY RestTrue DEF EnginesTrue, Init
  <1> QED BY <1>3, <1>4, <1>7, <1>8 DEF IInv

LEMMA Inductive ==
  Spec => []IInv
  <1>1. Init => IInv
    BY FirstTrue
  <1>2. IInv /\ [Next]_vars => IInv'
    BY StepsTrue
  <1> QED BY <1>1, <1>2, PTL DEF Spec

\* On every device a row that holds the version a file has now last synced the
\* very text the file has (the pull skips it, pull/run.ts, and a push writes over
\* it unasked, push/notes.ts).
THEOREM HoldersInStep ==
  Spec => []InStep
  <1>1. IInv => InStep
    <2>1. SUFFICES ASSUME IInv, NEW d \in Devices, NEW n \in NoteIds, NEW f \in Files, Bound(rows[d][n], f),
                          Alive(f), rows[d][n].file.version = remote[f].version
                   PROVE  rows[d][n].synced = remote[f].text
      BY DEF InStep
    <2>2. RowTrue(remote, rows[d][n]) /\ rows[d][n].file # NoFile /\ rows[d][n].file.id = f
      BY <2>1 DEF IInv, StoresTrue, TableTrue, Bound
    <2> QED BY <2>1, <2>2 DEF RowTrue, Reads, Alive
  <1> QED BY <1>1, Inductive, PTL

\* A request changes the text of a file only where that text is the one the note
\* it sends last synced: an edit nobody here has read is never written over
\* (resolvePushConflict, push/conflicts.ts).
THEOREM WritesOverWhatIsKnown ==
  Spec => WritesOverKnown
  <1>1. IInv /\ [Next]_vars => [WroteOver]_vars
    BY StepsTrue
  <1> QED BY <1>1, Inductive, PTL DEF Spec, WritesOverKnown
=============================================================================

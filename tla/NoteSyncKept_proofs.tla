--------------------------- MODULE NoteSyncKept_proofs ---------------------------
(* That nothing a user typed is lost (NoteSync.NoEditLost), for any devices, *)
(* notes, users' acts and faults.                                            *)
(*                                                                           *)
(* Three things can take a text away.  A request writes over it: then it is  *)
(* the text its note last synced, and a note's text comes of the one it last *)
(* synced or that one is spent (BasedOn).  A pull puts a file's text in its  *)
(* place: the store refuses where the note is unsent, and what is sent and   *)
(* not edited since is on the remote (RowFine).  A change binds a note to a  *)
(* text it was not weighed against: not so, because no note is given a new   *)
(* text and then bound to another file in one batch (Orderly), which takes   *)
(* that no two entries are of one file or at one path.                       *)
EXTENDS NoteSync_proofs

-----------------------------------------------------------------------------
(* The texts.                                                                *)

\* No longer wanted, or in a file.
Safe(w, sp, b) == b \in sp \/ \E f \in DOMAIN w : w[f] # Gone /\ w[f].text.body = b

\* t was s, or came of it with s replaced.
BasedOn(sp, t, s) == t.body = s.body \/ s.body \in sp

SyncFine(sp, r) == r.synced # NoSynced => r.synced \in Texts /\ BasedOn(sp, r.text, r.synced)
RowFine(w, sp, r) ==
  /\ r \in NoteRows
  /\ r.file # NoFile => r.synced # NoSynced
  /\ SyncFine(sp, r)
  /\ Live(r) /\ ~r.dirty => Safe(w, sp, r.text.body)
TableFine(w, sp, t) == \A n \in NoteIds : t[n] = NoRow \/ RowFine(w, sp, t[n])
OpsFine(q) == IsFiniteSet(q) /\ \A o \in q : o.kind = "move" => o.target \in Paths

-----------------------------------------------------------------------------
(* What is decided, against the device's table.                              *)

\* Gives its note a text; binds a note that keeps its own.
Puts(c) == c.kind \in {"upsert", "conflict"}
Binds(c) == c.kind \in {"adopt", "move"}

ChangeFine(w, sp, t, c) ==
  /\ Puts(c) => c.note \in NoteIds /\ c.path \in Paths /\ c.text \in Texts /\ Safe(w, sp, c.text.body)
  /\ c.kind = "conflict" => c.copyPath \in Paths /\ t[c.copy] = NoRow /\ t[c.note] # NoRow
  /\ Binds(c) => /\ c.note \in NoteIds /\ t[c.note] # NoRow /\ c.synced \in Texts
                 /\ BasedOn(sp, t[c.note].text, c.synced)
  /\ c.kind \in {"move", "displace"} => c.path \in Paths
Orderly(q) == \A i, j \in DOMAIN q : i < j /\ Puts(q[i]) /\ Binds(q[j]) => q[i].note # q[j].note
ChangesFine(w, sp, t, q) == Orderly(q) /\ \A i \in DOMAIN q : ChangeFine(w, sp, t, q[i])

\* The entries still to decide: of different files, at different paths.
TodoFine(b, q) ==
  /\ IsFiniteSet(ClaimedPaths(b))
  /\ \A i \in DOMAIN q : ~q[i].gone => q[i] \in LiveIn(b) /\ q[i].path \in Paths
  /\ \A i, j \in DOMAIN q : i # j => q[i].id # q[j].id
  /\ \A i, j \in DOMAIN q : i # j /\ ~q[i].gone /\ ~q[j].gone => q[i].path # q[j].path

\* Nothing decided is about an entry still to decide: its path, its note.
Places(c) == Puts(c) \/ c.kind \in {"move", "displace"}
Leaves(t, e, c) ==
  ~e.gone =>
    /\ Places(c) => c.path # e.path
    /\ Puts(c) \/ c.kind = "delete" => ~(c.note \in NoteIds /\ Bound(t[c.note], e.id))
Apart(t, q, todo) == \A i \in DOMAIN q, j \in DOMAIN todo : Leaves(t, todo[j], q[i])

DecideFine(w, sp, t, e) ==
  ChangesFine(w, sp, t, e.decided) /\ TodoFine(e.batch, e.todo) /\ Apart(t, e.decided, e.todo)

-----------------------------------------------------------------------------
(* What is under way, and the whole.                                         *)

HoldFine(w, sp, t, e) ==
  /\ e.row \in NoteRows /\ SyncFine(sp, e.row) /\ (e.row.file # NoFile => e.row.synced # NoSynced)
  /\ t[e.op.note] # NoRow /\ BasedOn(sp, t[e.op.note].text, e.row.text)
  /\ e.at \in Paths /\ IsFiniteSet(e.taken) /\ (e.op.kind = "move" => e.op.target \in Paths)
  /\ e.pc \in {"aside", "moved"} => e.op.kind = "move"
  /\ e.pc = "landed" => Safe(w, sp, e.row.text.body)
  /\ e.pc = "weigh" => e.text \in Texts /\ Safe(w, sp, e.text.body)
EngFine(w, sp, t, e) ==
  /\ e.pc = "decide" => DecideFine(w, sp, t, e)
  /\ e.pc = "apply" => ChangesFine(w, sp, t, e.decided)
  /\ e.pc \in {"decide", "apply"} => "row" \notin DOMAIN e
  /\ e.pc \in Pending => HoldFine(w, sp, t, e)

Once(q) == \A i, j \in DOMAIN q : q[i] = q[j] => i = j
RemoteFine(w) ==
  /\ \A f \in DOMAIN w : w[f] # Gone => w[f] \in RemoteFiles
  /\ \A f, g \in DOMAIN w : w[f] # Gone /\ w[g] # Gone /\ f # g => w[f].path # w[g].path
NewsOnce == \A d \in Devices : Once(news[d])
DeviceFine(w, sp, d) ==
  TableFine(w, sp, rows[d]) /\ OpsFine(ops[d]) /\ EngFine(w, sp, rows[d], eng[d])
KInv ==
  /\ RemoteFine(remote) /\ NewsOnce /\ body \in Nat
  /\ \A d \in Devices : DeviceFine(remote, spent, d)
  /\ NoEditLost

-----------------------------------------------------------------------------
(* What is kept as texts come, move and are replaced.                        *)

\* Every text in a file is still in it, or spent.
Kept(w, sp, v, sq) ==
  /\ sp \subseteq sq
  /\ \A f \in DOMAIN w : w[f] # Gone =>
       \/ w[f].text.body \in sq
       \/ f \in DOMAIN v /\ v[f] # Gone /\ v[f].text.body = w[f].text.body

LEMMA KeptSafe ==
  ASSUME NEW w, NEW sp, NEW v, NEW sq, Kept(w, sp, v, sq), NEW b, Safe(w, sp, b)
  PROVE  Safe(v, sq, b)
  BY DEF Kept, Safe

LEMMA KeptRow ==
  ASSUME NEW w, NEW sp, NEW v, NEW sq, Kept(w, sp, v, sq), NEW r, RowFine(w, sp, r)
  PROVE  RowFine(v, sq, r)
  BY KeptSafe DEF Kept, RowFine, SyncFine, BasedOn

LEMMA KeptTable ==
  ASSUME NEW w, NEW sp, NEW v, NEW sq, Kept(w, sp, v, sq), NEW t, TableFine(w, sp, t)
  PROVE  TableFine(v, sq, t)
  BY KeptRow DEF TableFine

LEMMA KeptChanges ==
  ASSUME NEW w, NEW sp, NEW v, NEW sq, Kept(w, sp, v, sq), NEW t, NEW q, ChangesFine(w, sp, t, q)
  PROVE  ChangesFine(v, sq, t, q)
  <1>1. ASSUME NEW c, ChangeFine(w, sp, t, c) PROVE ChangeFine(v, sq, t, c)
    <2>1. Puts(c) => Safe(v, sq, c.text.body)
      BY <1>1, KeptSafe DEF ChangeFine
    <2>2. Binds(c) => BasedOn(sq, t[c.note].text, c.synced)
      BY <1>1 DEF ChangeFine, BasedOn, Kept
    <2> QED BY <1>1, <2>1, <2>2 DEF ChangeFine
  <1> QED BY <1>1 DEF ChangesFine

LEMMA KeptHold ==
  ASSUME NEW w, NEW sp, NEW v, NEW sq, Kept(w, sp, v, sq), NEW t, NEW e, HoldFine(w, sp, t, e)
  PROVE  HoldFine(v, sq, t, e)
  <1>1. SyncFine(sq, e.row)
    BY DEF HoldFine, SyncFine, BasedOn, Kept
  <1>2. BasedOn(sq, t[e.op.note].text, e.row.text)
    BY DEF HoldFine, BasedOn, Kept
  <1>3. e.pc = "landed" => Safe(v, sq, e.row.text.body)
    BY KeptSafe DEF HoldFine
  <1>4. e.pc = "weigh" => Safe(v, sq, e.text.body)
    BY KeptSafe DEF HoldFine
  <1> QED BY <1>1, <1>2, <1>3, <1>4 DEF HoldFine

LEMMA KeptEng ==
  ASSUME NEW w, NEW sp, NEW v, NEW sq, Kept(w, sp, v, sq), NEW t, NEW e, EngFine(w, sp, t, e)
  PROVE  EngFine(v, sq, t, e)
  <1>1. e.pc = "decide" => DecideFine(v, sq, t, e)
    BY KeptChanges DEF EngFine, DecideFine
  <1>2. e.pc = "apply" => ChangesFine(v, sq, t, e.decided)
    BY KeptChanges DEF EngFine
  <1>3. e.pc \in Pending => HoldFine(v, sq, t, e)
    BY KeptHold DEF EngFine
  <1>4. e.pc \in {"decide", "apply"} => "row" \notin DOMAIN e
    BY DEF EngFine
  <1> QED BY <1>1, <1>2, <1>3, <1>4 DEF EngFine

LEMMA KeptSame ==
  ASSUME NEW w, NEW sp, NEW sq, sp \subseteq sq
  PROVE  Kept(w, sp, w, sq)
  BY DEF Kept

-----------------------------------------------------------------------------
(* A step of one device.                                                     *)

\* What a live row of t has is safe, or in a live row of u.
Carried(w, sp, t, u) ==
  \A n \in NoteIds : Live(t[n]) =>
    Safe(w, sp, t[n].text.body) \/ \E m \in NoteIds : Live(u[m]) /\ u[m].text.body = t[n].text.body

LEMMA CarriedSame ==
  ASSUME NEW w, NEW sp, NEW t
  PROVE  Carried(w, sp, t, t)
  BY DEF Carried

LEMMA CarriedOn ==
  ASSUME NEW w, NEW sp, NEW t, NEW u, NEW x, Carried(w, sp, t, u), Carried(w, sp, u, x)
  PROVE  Carried(w, sp, t, x)
  BY DEF Carried

\* A row replaced by one that lives where it did, with its text, carries it.
LEMMA CarriedPut ==
  ASSUME NEW w, NEW sp, NEW t, NEW u,
         \A n \in NoteIds : Live(t[n]) =>
           Safe(w, sp, t[n].text.body) \/ (Live(u[n]) /\ u[n].text.body = t[n].text.body)
  PROVE  Carried(w, sp, t, u)
  BY DEF Carried

\* What the user has just typed, if anything, is in a row.
Typed(t) == body' = body \/ (body' = body + 1 /\ \E m \in NoteIds : Live(t[m]) /\ t[m].text.body = body')

LEMMA StepKept ==
  ASSUME IInv, KInv, NEW d \in Devices, NEW st, StoreSet(d, st), NEW e, EngineAt(d, e),
         RemoteFine(remote'), NewsOnce', body' \in Nat, Kept(remote, spent, remote', spent'),
         TableFine(remote', spent', st.rows), OpsFine(st.ops), EngFine(remote', spent', st.rows, e),
         Carried(remote', spent', rows[d], st.rows), Typed(st.rows)
  PROVE  KInv'
  <1>1. /\ rows = [a \in Devices |-> rows[a]] /\ ops = [a \in Devices |-> ops[a]]
        /\ eng = [a \in Devices |-> eng[a]]
    BY DEF IInv, StoresTrue, EnginesTrue
  <1>2. /\ rows' = [rows EXCEPT ![d] = st.rows] /\ ops' = [ops EXCEPT ![d] = st.ops]
        /\ eng' = [eng EXCEPT ![d] = e]
    BY DEF StoreSet, EngineAt
  <1>3. /\ rows'[d] = st.rows /\ ops'[d] = st.ops /\ eng'[d] = e
        /\ \A a \in Devices : a # d => rows'[a] = rows[a] /\ ops'[a] = ops[a] /\ eng'[a] = eng[a]
    BY <1>1, <1>2
  <1>4. ASSUME NEW a \in Devices PROVE DeviceFine(remote, spent, a)'
    <2>1. CASE a = d
      BY <2>1, <1>3 DEF DeviceFine
    <2>2. CASE a # d
      <3>1. DeviceFine(remote, spent, a)
        BY DEF KInv
      <3>2. TableFine(remote', spent', rows[a]) /\ OpsFine(ops[a]) /\ EngFine(remote', spent', rows[a], eng[a])
        BY <3>1, KeptTable, KeptEng DEF DeviceFine
      <3> QED BY <2>2, <3>2, <1>3 DEF DeviceFine
    <2> QED BY <2>1, <2>2
  <1>5. ASSUME NEW b, Safe(remote', spent', b)
        PROVE  b \in spent' \/ \E f \in Files' : remote'[f] # Gone /\ remote'[f].text.body = b
    BY <1>5 DEF Safe, Files
  <1>6. ASSUME NEW b \in 1..body'
        PROVE  \/ Safe(remote', spent', b)
               \/ \E a \in Devices, n \in NoteIds : Live(rows'[a][n]) /\ rows'[a][n].text.body = b
    <2>1. CASE b \in 1..body
      <3>1. \/ Safe(remote, spent, b)
            \/ \E a \in Devices, n \in NoteIds : Live(rows[a][n]) /\ rows[a][n].text.body = b
        BY <2>1 DEF KInv, NoEditLost, Safe, Alive, Files
      <3>2. CASE Safe(remote, spent, b)
        BY <3>2, KeptSafe
      <3>3. ASSUME NEW a \in Devices, NEW n \in NoteIds, Live(rows[a][n]), rows[a][n].text.body = b
            PROVE  \/ Safe(remote', spent', b)
                   \/ \E m \in NoteIds : Live(rows'[a][m]) /\ rows'[a][m].text.body = b
        BY <3>3, <1>3 DEF Carried
      <3> QED BY <3>1, <3>2, <3>3
    <2>2. CASE b \notin 1..body
      <3>1. body' = body + 1 /\ b = body'
        <4>1. body \in Nat
          BY DEF KInv
        <4> QED BY <2>2, <4>1, <1>6 DEF Typed
      <3>2. PICK m \in NoteIds : Live(st.rows[m]) /\ st.rows[m].text.body = body'
        <4>1. body \in Nat
          BY DEF KInv
        <4> QED BY <3>1, <4>1 DEF Typed
      <3> QED BY <3>1, <3>2, <1>3
    <2> QED BY <2>1, <2>2
  <1>7. NoEditLost'
    BY <1>5, <1>6 DEF NoEditLost, Alive
  <1> QED BY <1>4, <1>7 DEF KInv

\* Neither the texts nor the users: the store is put to what carries what it had.
LEMMA HereKept ==
  ASSUME IInv, KInv, NEW d \in Devices, RemoteSame, UNCHANGED <<body, spent>>,
         NEW st, StoreSet(d, st), NEW e, EngineAt(d, e),
         TableFine(remote, spent, st.rows), OpsFine(st.ops), EngFine(remote, spent, st.rows, e),
         Carried(remote, spent, rows[d], st.rows)
  PROVE  KInv'
  <1>1. remote' = remote /\ news' = news /\ spent' = spent /\ body' = body
    BY DEF RemoteSame
  <1>2. RemoteFine(remote') /\ NewsOnce' /\ body' \in Nat /\ Kept(remote, spent, remote', spent')
    BY <1>1, KeptSame DEF KInv, NewsOnce
  <1> QED BY <1>1, <1>2, StepKept DEF Typed

LEMMA DeviceKept ==
  ASSUME KInv, NEW d \in Devices
  PROVE  /\ TableFine(remote, spent, rows[d]) /\ OpsFine(ops[d]) /\ EngFine(remote, spent, rows[d], eng[d])
         /\ RemoteFine(remote) /\ body \in Nat
         /\ Store(d).rows = rows[d] /\ Store(d).ops = ops[d]
  BY DEF KInv, DeviceFine, Store

\* A request: the store stays, and no text is let go.
LEMMA AskKept ==
  ASSUME IInv, KInv, NEW d \in Devices, StoreSame, body' = body,
         RemoteFine(remote'), NewsOnce', Kept(remote, spent, remote', spent'),
         NEW e, EngineAt(d, e), EngFine(remote', spent', rows[d], e)
  PROVE  KInv'
  <1>1. StoreSet(d, Store(d))
    BY DEF StoreSet, StoreSame, Store, IInv, StoresTrue
  <1>2. /\ Store(d).rows = rows[d] /\ TableFine(remote', spent', rows[d]) /\ OpsFine(Store(d).ops)
        /\ body' \in Nat
    BY DeviceKept, KeptTable
  <1>3. /\ TableFine(remote', spent', Store(d).rows) /\ EngFine(remote', spent', Store(d).rows, e)
        /\ Carried(remote', spent', rows[d], Store(d).rows)
    BY <1>2, CarriedSame
  <1> QED BY <1>1, <1>2, <1>3, StepKept DEF Typed

\* Neither: the engine goes on by itself.
LEMMA ThinkKept ==
  ASSUME IInv, KInv, NEW d \in Devices, RemoteSame, StoreSame, UNCHANGED <<body, spent>>,
         NEW e, EngineAt(d, e), EngFine(remote, spent, rows[d], e)
  PROVE  KInv'
  <1>1. remote' = remote /\ news' = news /\ spent' = spent /\ body' = body
    BY DEF RemoteSame
  <1>2. RemoteFine(remote') /\ NewsOnce' /\ Kept(remote, spent, remote', spent')
    BY <1>1, KeptSame DEF KInv, NewsOnce
  <1> QED BY <1>1, <1>2, AskKept

LEMMA RestKept ==
  ASSUME NEW w, NEW sp, NEW t, NEW d, NEW left
  PROVE  EngFine(w, sp, t, Idle) /\ EngFine(w, sp, t, DrainFrom(d, left))
  BY DEF EngFine, Idle, DrainFrom, Pending

LEMMA FailKept ==
  ASSUME IInv, KInv, NEW d \in Devices, Fail(d)
  PROVE  KInv'
  BY RestKept, ThinkKept DEF Fail, Goes, UsersSame

LEMMA SettleKept ==
  ASSUME IInv, KInv, NEW d \in Devices, NEW seq, NEW after, Settle(d, seq, after),
         TableFine(remote, spent, after.rows), OpsFine(after.ops),
         Carried(remote, spent, rows[d], after.rows)
  PROVE  KInv'
  BY RestKept, HereKept DEF Settle, UsersSame

-----------------------------------------------------------------------------
(* What a request makes of the remote.                                       *)

\* What is picked of a list that has nothing twice has nothing twice.
LEMMA OnlyOnce ==
  ASSUME NEW T, NEW q \in Seq(T), Once(q), NEW S
  PROVE  Once(Only(q, S))
  <1> DEFINE N == Len(q)
             Then(r, i) == IF q[i] \in S THEN Append(r, q[i]) ELSE r
             Is(g, n) == g = [i \in 0..n |-> IF i = 0 THEN <<>> ELSE Then(g[i - 1], i)]
             upTo == CHOOSE g : Is(g, N)
             K == {n \in 0..N : \E g : Is(g, n)}
             Fine(r, n) == IsSeq(r) /\ Once(r) /\ \A i \in DOMAIN r : \E j \in 1..n : r[i] = q[j]
             In == {n \in 0..N : Fine(upTo[n], n)}
  <1>0. N \in Nat /\ 0 \in 0..N /\ N \in 0..N /\ DOMAIN q = 1..N
    OBVIOUS
  <1>1. Only(q, S) = upTo[N]
    BY DEF Only
  <1> HIDE DEF N
  <1>2. 0 \in K
    <2>1. Is([i \in 0..0 |-> <<>>], 0)
      OBVIOUS
    <2> HIDE DEF Is
    <2> QED BY <2>1, <1>0
  <1>3. ASSUME NEW n \in 1..N, n - 1 \in K PROVE n \in K
    <2> HIDE DEF Then
    <2>0. n \in Nat /\ n # 0
      BY <1>0
    <2>1. PICK h : Is(h, n - 1)
      BY <1>3
    <2> DEFINE g == [i \in 0..n |-> IF i = n THEN Then(h[n - 1], n) ELSE h[i]]
    <2>2. \A i \in 0..(n - 1) : h[i] = IF i = 0 THEN <<>> ELSE Then(h[i - 1], i)
      BY <2>1
    <2>3. \A i \in 0..(n - 1) : g[i] = h[i]
      BY <2>0
    <2>4. ASSUME NEW i \in 0..n PROVE g[i] = IF i = 0 THEN <<>> ELSE Then(g[i - 1], i)
      <3>1. CASE i = n
        BY <3>1, <2>0, <2>3
      <3>2. CASE i # n
        BY <3>2, <2>0, <2>2, <2>3
      <3> QED BY <3>1, <3>2
    <2>5. Is(g, n)
      <3>1. g = [i \in 0..n |-> g[i]]
        OBVIOUS
      <3> HIDE DEF g
      <3> QED BY <3>1, <2>4
    <2> HIDE DEF Is
    <2> QED BY <2>5, <1>0
  <1>4. N \in K
    <2> HIDE DEF K
    <2>1. \A i \in 0..N : i \in K
      BY <1>0, <1>2, <1>3, Steps
    <2> QED BY <2>1, <1>0
  <1>5. Is(upTo, N)
    <2> HIDE DEF Is
    <2> QED BY <1>4
  <1> HIDE DEF upTo, K, Then
  <1>6. upTo[0] = <<>> /\ \A i \in 1..N : upTo[i] = Then(upTo[i - 1], i)
    BY <1>0, <1>5
  <1>7. 0 \in In
    <2>1. Fine(<<>>, 0)
      BY Empty DEF Once
    <2> HIDE DEF Fine
    <2> QED BY <1>6, <1>0, <2>1
  <1>8. ASSUME NEW n \in 1..N, n - 1 \in In PROVE n \in In
    <2> DEFINE r == upTo[n - 1]
    <2>0. n \in Nat /\ n - 1 \in Nat /\ n \in 0..N /\ Fine(r, n - 1) /\ upTo[n] = Then(r, n)
      BY <1>0, <1>6, <1>8
    <2> HIDE DEF r
    <2>1. CASE q[n] \in S
      <3> DEFINE x == q[n]  a == Append(r, x)
      <3>1. /\ IsSeq(a) /\ DOMAIN a = 1..(Len(r) + 1) /\ DOMAIN r = 1..Len(r) /\ Len(r) \in Nat
            /\ \A i \in DOMAIN r : a[i] = r[i]
            /\ a[Len(r) + 1] = x
        BY <2>0, AppendIs, SeqIs
      <3>2. ASSUME NEW i \in DOMAIN r PROVE r[i] # x
        <4>1. PICK j \in 1..(n - 1) : r[i] = q[j]
          BY <2>0
        <4>2. j # n /\ j \in DOMAIN q /\ n \in DOMAIN q
          BY <1>0, <2>0, <1>8, <4>1
        <4> QED BY <4>1, <4>2 DEF Once
      <3>3. \A i \in DOMAIN a : i \in DOMAIN r \/ i = Len(r) + 1
        BY <3>1
      <3>4. Once(a)
        <4> HIDE DEF a, x
        <4>1. ASSUME NEW i \in DOMAIN a, NEW j \in DOMAIN a, a[i] = a[j] PROVE i = j
          <5>1. CASE i \in DOMAIN r /\ j \in DOMAIN r
            BY <5>1, <4>1, <3>1, <2>0 DEF Once
          <5>2. CASE i \in DOMAIN r /\ j = Len(r) + 1
            BY <5>2, <4>1, <3>1, <3>2
          <5>3. CASE j \in DOMAIN r /\ i = Len(r) + 1
            BY <5>3, <4>1, <3>1, <3>2
          <5> QED BY <5>1, <5>2, <5>3, <3>3
        <4> QED BY <4>1 DEF Once
      <3>5. ASSUME NEW i \in DOMAIN a PROVE \E j \in 1..n : a[i] = q[j]
        <4>1. CASE i \in DOMAIN r
          <5>1. PICK j \in 1..(n - 1) : r[i] = q[j]
            BY <4>1, <2>0
          <5> QED BY <5>1, <4>1, <3>1, <2>0
        <4>2. CASE i = Len(r) + 1
          BY <4>2, <3>1, <2>0
        <4> QED BY <4>1, <4>2, <3>3
      <3>6. upTo[n] = a
        BY <2>0, <2>1 DEF Then
      <3> HIDE DEF a
      <3> QED BY <3>1, <3>4, <3>5, <3>6, <2>0
    <2>2. CASE q[n] \notin S
      <3>1. upTo[n] = r
        BY <2>0, <2>2 DEF Then
      <3>2. ASSUME NEW i \in DOMAIN r PROVE \E j \in 1..n : r[i] = q[j]
        <4>1. PICK j \in 1..(n - 1) : r[i] = q[j]
          BY <2>0
        <4> QED BY <4>1, <2>0
      <3> QED BY <3>1, <3>2, <2>0
    <2> QED BY <2>1, <2>2
  <1>9. N \in In
    <2> HIDE DEF In
    <2>1. \A i \in 0..N : i \in In
      BY <1>0, <1>7, <1>8, Steps
    <2> QED BY <2>1, <1>0
  <1> QED BY <1>1, <1>9

LEMMA ToldOnce ==
  ASSUME IInv, NewsOnce, NEW f, news' = Told(f)
  PROVE  NewsOnce'
  <1>1. ASSUME NEW d \in Devices PROVE Once(Told(f)[d])
    <2> DEFINE S == Files \ {f}  q == Only(news[d], S)
    <2>1. news[d] \in Seq(Files) /\ Once(news[d])
      BY DEF IInv, NewsTrue, NewsOnce
    <2>2. q \in Seq(Files \cap S) /\ Once(q)
      BY <2>1, OnlyIn, OnlyOnce
    <2> HIDE DEF q
    <2>3. IsSeq(q) /\ DOMAIN q = 1..Len(q) /\ Len(q) \in Nat /\ \A i \in DOMAIN q : q[i] \in Files \cap S
      BY <2>2, SeqIn
    <2> DEFINE a == Append(q, f)
    <2>4. /\ DOMAIN a = 1..(Len(q) + 1) /\ a[Len(q) + 1] = f
          /\ \A i \in DOMAIN q : a[i] = q[i] /\ q[i] # f
      BY <2>3, AppendIs
    <2> HIDE DEF a
    <2>5. ASSUME NEW i \in DOMAIN a, NEW j \in DOMAIN a, a[i] = a[j] PROVE i = j
      <3>1. (i \in DOMAIN q \/ i = Len(q) + 1) /\ (j \in DOMAIN q \/ j = Len(q) + 1)
        BY <2>3, <2>4
      <3> QED BY <3>1, <2>2, <2>4, <2>5 DEF Once
    <2>6. Told(f)[d] = a
      BY DEF Told, a, q
    <2> QED BY <2>5, <2>6 DEF Once
  <1> QED BY <1>1 DEF NewsOnce

\* A file replaced by one that stands alone at its path, or by none.
LEMMA SetKept ==
  ASSUME IInv, KInv, NEW f \in Files, NEW file, RemoteSet(f, file),
         file # Gone => file \in RemoteFiles /\ \A g \in Files \ {f} : Alive(g) => remote[g].path # file.path,
         NEW sq, spent \subseteq sq,
         Alive(f) => remote[f].text.body \in sq \/ (file # Gone /\ file.text.body = remote[f].text.body)
  PROVE  RemoteFine(remote') /\ NewsOnce' /\ Kept(remote, spent, remote', sq)
  <1>1. /\ DOMAIN remote = Files /\ DOMAIN remote' = Files /\ remote'[f] = file
        /\ \A g \in Files : g # f => remote'[g] = remote[g]
    BY DEF RemoteSet, Files
  <1>2. RemoteFine(remote)
    BY DEF KInv
  <1>3. RemoteFine(remote')
    <2>1. ASSUME NEW g \in Files, remote'[g] # Gone PROVE remote'[g] \in RemoteFiles
      BY <2>1, <1>1, <1>2 DEF RemoteFine
    <2>2. ASSUME NEW g \in Files, NEW h \in Files, remote'[g] # Gone, remote'[h] # Gone, g # h
          PROVE  remote'[g].path # remote'[h].path
      BY <2>2, <1>1, <1>2 DEF RemoteFine, Alive
    <2> QED BY <2>1, <2>2, <1>1 DEF RemoteFine
  <1>4. Kept(remote, spent, remote', sq)
    BY <1>1 DEF Kept, Alive
  <1>5. NewsOnce'
    BY ToldOnce DEF RemoteSet, KInv
  <1> QED BY <1>3, <1>4, <1>5

LEMMA WritesKept ==
  ASSUME IInv, KInv, NEW f \in Files, Alive(f), NEW text \in Texts, RemoteWrites(f, text),
         BasedOn(spent, text, remote[f].text)
  PROVE  /\ RemoteFine(remote') /\ NewsOnce' /\ Kept(remote, spent, remote', spent)
         /\ Safe(remote', spent, text.body)
  <1> DEFINE file == [remote[f] EXCEPT !.text = text, !.version = NewVersion(f)]
  <1>1. RemoteSet(f, file)
    BY DEF RemoteWrites
  <1>2. RemoteFine(remote) /\ remote[f] \in RemoteFiles
    BY DEF KInv, RemoteFine, Alive, Files
  <1>3. file \in RemoteFiles /\ file.path = remote[f].path /\ file.text = text
    <2> DEFINE r == remote[f]  v == NewVersion(f)
    <2>1. r \in RemoteFiles /\ v \in Nat
      BY <1>2 DEF NewVersion, RemoteFiles
    <2> HIDE DEF r, v
    <2>2. LET x == [r EXCEPT !.text = text, !.version = v]
          IN  x \in RemoteFiles /\ x.path = r.path /\ x.text = text
      BY <2>1 DEF RemoteFiles
    <2> QED BY <2>2 DEF r, v
  <1> HIDE DEF file
  <1>4. \A g \in Files \ {f} : Alive(g) => remote[g].path # file.path
    BY <1>2, <1>3 DEF RemoteFine, Alive, Files
  <1>5. remote[f].text.body \in spent \/ (file # Gone /\ file.text.body = remote[f].text.body)
    BY <1>3, MarkersAssumption DEF BasedOn
  <1>6. RemoteFine(remote') /\ NewsOnce' /\ Kept(remote, spent, remote', spent)
    BY <1>1, <1>3, <1>4, <1>5, SetKept
  <1>7. Safe(remote', spent, text.body)
    <2>1. f \in DOMAIN remote' /\ remote'[f] = file
      BY <1>1 DEF RemoteSet, Files
    <2> QED BY <2>1, <1>3, MarkersAssumption DEF Safe
  <1> QED BY <1>6, <1>7

LEMMA MovesKept ==
  ASSUME IInv, KInv, NEW f \in Files, Alive(f), NEW p \in Paths, RemoteMoves(f, p),
         \A g \in Files \ {f} : Alive(g) => remote[g].path # p
  PROVE  RemoteFine(remote') /\ NewsOnce' /\ Kept(remote, spent, remote', spent)
  <1> DEFINE file == [remote[f] EXCEPT !.path = p, !.version = MovedVersion(f)]
  <1>1. RemoteSet(f, file)
    BY DEF RemoteMoves
  <1>2. remote[f] \in RemoteFiles
    BY DEF KInv, RemoteFine, Alive, Files
  <1>3. file \in RemoteFiles /\ file.path = p /\ file.text = remote[f].text
    <2> DEFINE r == remote[f]  v == MovedVersion(f)
    <2>1. r \in RemoteFiles /\ v \in Nat
      BY <1>2 DEF MovedVersion, NewVersion, RemoteFiles
    <2> HIDE DEF r, v
    <2>2. LET x == [r EXCEPT !.path = p, !.version = v]
          IN  x \in RemoteFiles /\ x.path = p /\ x.text = r.text
      BY <2>1 DEF RemoteFiles
    <2> QED BY <2>2 DEF r, v
  <1> HIDE DEF file
  <1>4. file # Gone
    BY <1>3, MarkersAssumption
  <1> QED BY <1>1, <1>3, <1>4, SetKept

LEMMA GoneKept ==
  ASSUME IInv, KInv, NEW f \in Files, Alive(f), RemoteSet(f, Gone)
  PROVE  LET sq == spent \cup {remote[f].text.body}
         IN  RemoteFine(remote') /\ NewsOnce' /\ Kept(remote, spent, remote', sq)
  BY SetKept

LEMMA MakesKept ==
  ASSUME IInv, KInv, NEW p \in Paths, FilesAt(p) = {}, NEW text \in Texts, RemoteMakes(p, text)
  PROVE  /\ RemoteFine(remote') /\ NewsOnce' /\ Kept(remote, spent, remote', spent)
         /\ Safe(remote', spent, text.body)
  <1> DEFINE file == [path |-> p, text |-> text, version |-> 0]
             f == Len(remote) + 1
  <1>1. RemoteTrue(remote) /\ Files = 1..Len(remote) /\ Len(remote) \in Nat
    BY FilesNat DEF IInv
  <1>2. remote' = Append(remote, file) /\ news' = Told(f)
    BY DEF RemoteMakes
  <1>3. /\ DOMAIN remote' = 1..f /\ remote'[f] = file
        /\ \A g \in Files : remote'[g] = remote[g]
    <2> HIDE DEF file
    <2> QED BY <1>1, <1>2, AppendIs DEF RemoteTrue, Files
  <1>4. f \in DOMAIN remote' /\ Files \subseteq DOMAIN remote' /\ \A g \in DOMAIN remote' : g = f \/ g \in Files
    BY <1>1, <1>3
  <1>5. file \in RemoteFiles /\ file.path = p /\ file.text = text /\ file # Gone
    <2>1. file \in RemoteFiles /\ file.path = p /\ file.text = text
      BY DEF RemoteFiles
    <2> QED BY <2>1, MarkersAssumption
  <1> HIDE DEF file
  <1>6. RemoteFine(remote) /\ \A g \in Files : remote[g] # Gone => remote[g].path # p
    BY DEF KInv, FilesAt, Alive
  <1> HIDE DEF f
  <1>7. RemoteFine(remote')
    <2>1. ASSUME NEW g \in DOMAIN remote', remote'[g] # Gone PROVE remote'[g] \in RemoteFiles
      BY <2>1, <1>3, <1>4, <1>5, <1>6 DEF RemoteFine, Files
    <2>2. ASSUME NEW g \in DOMAIN remote', NEW h \in DOMAIN remote', remote'[g] # Gone, remote'[h] # Gone, g # h
          PROVE  remote'[g].path # remote'[h].path
      <3>1. CASE g = f
        BY <3>1, <2>2, <1>3, <1>4, <1>5, <1>6
      <3>2. CASE h = f
        BY <3>2, <2>2, <1>3, <1>4, <1>5, <1>6
      <3>3. CASE g # f /\ h # f
        BY <3>3, <2>2, <1>3, <1>4, <1>6 DEF RemoteFine, Files
      <3> QED BY <3>1, <3>2, <3>3
    <2> QED BY <2>1, <2>2 DEF RemoteFine
  <1>8. Kept(remote, spent, remote', spent)
    BY <1>3, <1>4 DEF Kept, Files
  <1>9. NewsOnce'
    BY <1>2, ToldOnce DEF KInv
  <1>10. Safe(remote', spent, text.body)
    BY <1>3, <1>4, <1>5 DEF Safe
  <1> QED BY <1>7, <1>8, <1>9, <1>10

-----------------------------------------------------------------------------
(* The queue: it stays finite, and a move goes to a path.                    *)

LEMMA ImageFinite ==
  ASSUME NEW S, IsFiniteSet(S), NEW f
  PROVE  IsFiniteSet({f[x] : x \in S})
  <1> DEFINE T == {f[x] : x \in S}  g == [x \in S |-> f[x]]
  <1>1. g \in Surjection(S, T)
    BY DEF Surjection
  <1> HIDE DEF T, g
  <1>2. IsFiniteSet(T)
    BY <1>1, FS_Surjection
  <1> QED BY <1>2 DEF T

LEMMA FewerFine ==
  ASSUME NEW q, OpsFine(q), NEW r \in SUBSET q
  PROVE  OpsFine(r)
  BY FS_Subset DEF OpsFine

LEMMA OneMoreFine ==
  ASSUME NEW q, OpsFine(q), NEW o, o.kind = "move" => o.target \in Paths
  PROVE  OpsFine(q \cup {o})
  BY FS_AddElement DEF OpsFine

LEMMA NoteOpFine ==
  ASSUME NEW q, OpsFine(q), NEW s, NEW n
  PROVE  OpsFine(q \cup {NoteOp(s, "write", n)}) /\ OpsFine(q \cup {NoteOp(s, "delete", n)})
  BY OneMoreFine DEF NoteOp

LEMMA WriteFine ==
  ASSUME NEW q, OpsFine(q), NEW s, NEW n, NEW row, NEW except
  PROVE  OpsFine(QueueWrite(q, s, n, row, except))
  BY NoteOpFine DEF QueueWrite

LEMMA MoveFine ==
  ASSUME NEW q, OpsFine(q), NEW s, NEW n, NEW row, row.path \in Paths, NEW from
  PROVE  OpsFine(QueueMove(q, s, n, row, from))
  <1> DEFINE m == Moves(q, n)
             a == IF m = {} THEN from ELSE (CHOOSE o \in m : TRUE).path
             o == MoveOp(s, n, a, row.path)
  <1>1. \/ QueueMove(q, s, n, row, from) = q
        \/ QueueMove(q, s, n, row, from) = q \ m
        \/ QueueMove(q, s, n, row, from) = (q \ m) \cup {o}
    BY DEF QueueMove
  <1>2. o.target \in Paths
    BY DEF MoveOp
  <1> HIDE DEF m, o
  <1>3. OpsFine(q \ m)
    BY FewerFine
  <1> QED BY <1>1, <1>2, <1>3, OneMoreFine

LEMMA EditFine ==
  ASSUME NEW q, OpsFine(q), NEW s, NEW n, NEW row, row.path \in Paths, NEW from
  PROVE  OpsFine(QueueEdit(q, s, n, row, from))
  BY WriteFine, MoveFine DEF QueueEdit

LEMMA DeleteFine ==
  ASSUME NEW q, OpsFine(q), NEW s, NEW n, NEW row
  PROVE  OpsFine(QueueDelete(q, s, n, row))
  BY FewerFine, NoteOpFine DEF QueueDelete

LEMMA WithoutFine ==
  ASSUME NEW q, OpsFine(q), NEW seq
  PROVE  OpsFine(Without(q, seq))
  BY FewerFine DEF Without

\* The ops of a queue changed one by one, their kinds and their ends kept.
LEMMA EachFine ==
  ASSUME NEW q, OpsFine(q), NEW f,
         \A o \in q : f[o].kind = o.kind /\ (o.kind = "move" => f[o].target \in Paths)
  PROVE  OpsFine({f[o] : o \in q})
  <1>1. IsFiniteSet({f[o] : o \in q})
    BY ImageFinite DEF OpsFine
  <1> QED BY <1>1 DEF OpsFine

LEMMA OriginFine ==
  ASSUME NEW q, OpsTrue(q), OpsFine(q), NEW n, NEW at
  PROVE  OpsFine(OriginIsNow(q, n, at))
  <1> DEFINE f == [o \in q |-> IF o.note = n /\ o.kind = "move" THEN [o EXCEPT !.path = at] ELSE o]
  <1>1. ASSUME NEW o \in q PROVE f[o].kind = o.kind /\ (o.kind = "move" => f[o].target \in Paths)
    <2>1. o = [seq |-> o.seq, kind |-> o.kind, note |-> o.note, path |-> o.path, target |-> o.target]
      BY DEF OpsTrue, OpTrue
    <2>2. o.kind = "move" => o.target \in Paths
      BY DEF OpsFine
    <2> QED BY <2>1, <2>2
  <1>2. OriginIsNow(q, n, at) = {f[o] : o \in q}
    BY DEF OriginIsNow
  <1> HIDE DEF f
  <1> QED BY <1>1, <1>2, EachFine

LEMMA RebaseFine ==
  ASSUME NEW q, OpsTrue(q), OpsFine(q), NEW n, NEW from, NEW to \in Paths
  PROVE  OpsFine(RebaseOwnOps(q, n, from, to))
  <1> DEFINE f == [o \in q |-> IF o.note = n
                               THEN [o EXCEPT !.path   = IF @ = from THEN to ELSE @,
                                              !.target = IF @ = from THEN to ELSE @]
                               ELSE o]
  <1>1. ASSUME NEW o \in q PROVE f[o].kind = o.kind /\ (o.kind = "move" => f[o].target \in Paths)
    <2>1. o = [seq |-> o.seq, kind |-> o.kind, note |-> o.note, path |-> o.path, target |-> o.target]
      BY DEF OpsTrue, OpTrue
    <2>2. o.kind = "move" => o.target \in Paths
      BY DEF OpsFine
    <2> QED BY <2>1, <2>2
  <1>2. RebaseOwnOps(q, n, from, to) = {f[o] : o \in q}
    BY DEF RebaseOwnOps
  <1> HIDE DEF f
  <1> QED BY <1>1, <1>2, EachFine

-----------------------------------------------------------------------------
(* The names of copies.                                                      *)

\* A conflict name is a path, and free.
LEMMA NameIsFree ==
  ASSUME NEW p \in Paths, NEW taken, IsFiniteSet(taken)
  PROVE  ConflictPath(p, taken) \in Paths /\ ConflictPath(p, taken) \notin taken
  <1> DEFINE C == Cardinality(taken)
             Untaken(k) == Append(p, -k) \notin taken
             First(k) == Untaken(k) /\ \A j \in 1..(k - 1) : ~Untaken(j)
             S == {k \in 1..(C + 1) : Untaken(k)}
             k0 == CHOOSE k \in 1..(C + 1) : First(k)
  <1>1. C \in Nat
    BY FS_CardinalityType
  <1>2. S # {}
    <2> SUFFICES ASSUME S = {} PROVE FALSE
      OBVIOUS
    <2> DEFINE f == [k \in 1..(C + 1) |-> Append(p, -k)]
    <2>1. f \in [1..(C + 1) -> taken]
      OBVIOUS
    <2>2. IsFiniteSet(1..(C + 1)) /\ Cardinality(1..(C + 1)) = C + 1
      BY <1>1, FS_Interval
    <2> HIDE DEF f, C
    <2>3. PICK x \in 1..(C + 1), y \in 1..(C + 1) : x # y /\ f[x] = f[y]
      <3> DEFINE D == 1..(C + 1)
      <3>1. IsFiniteSet(D) /\ Cardinality(taken) < Cardinality(D) /\ f \in [D -> taken]
        BY <1>1, <2>1, <2>2 DEF C
      <3> HIDE DEF D
      <3>2. \E x, y \in D : x # y /\ f[x] = f[y]
        BY <3>1, FS_PigeonHole
      <3> QED BY <3>2 DEF D
    <2>4. Append(p, -x) = Append(p, -y) /\ x \in Nat /\ y \in Nat
      BY <1>1, <2>3 DEF f
    <2>5. Append(p, -x)[Len(p) + 1] = -x /\ Append(p, -y)[Len(p) + 1] = -y
      BY <2>4 DEF Paths
    <2> QED BY <2>3, <2>4, <2>5
  <1>3. \E k \in 1..(C + 1) : First(k)
    <2>1. S \in SUBSET Nat
      BY <1>1
    <2>2. PICK m \in S : \A k \in S : m <= k
      <3> HIDE DEF S
      <3> QED BY <1>2, <2>1, Least
    <2>3. First(m)
      <3>1. ASSUME NEW j \in 1..(m - 1), Untaken(j) PROVE FALSE
        <4>1. j \in S
          BY <1>1, <3>1
        <4> QED BY <4>1, <1>1, <2>2
      <3> QED BY <3>1
    <2> QED BY <2>3
  <1>4. k0 \in 1..(C + 1) /\ Untaken(k0)
    <2> HIDE DEF Untaken
    <2> QED BY <1>3
  <1>5. ConflictPath(p, taken) = Append(p, -k0)
    BY DEF ConflictPath
  <1>6. -k0 \in Int
    <2> HIDE DEF k0
    <2> QED BY <1>1, <1>4
  <1> HIDE DEF k0
  <1> QED BY <1>4, <1>5, <1>6 DEF Paths

LEMMA PathsFinite ==
  ASSUME NEW t
  PROVE  IsFiniteSet(PathsOf(t))
  <1> DEFINE S == {m \in NoteIds : t[m] # NoRow}  f == [n \in S |-> t[n].path]
  <1>1. IsFiniteSet(S)
    BY FS_Subset, SyncAssumption
  <1>2. PathsOf(t) = {f[n] : n \in S}
    BY DEF PathsOf
  <1> HIDE DEF S, f
  <1> QED BY <1>1, <1>2, ImageFinite

\* What is in a list is finite, whatever is picked of it and asked of each.
LEMMA SomeFinite ==
  ASSUME NEW q, IsSeq(q)
  PROVE  /\ IsFiniteSet({c.path : c \in {x \in ToSet(q) : x.kind = "displace"}})
         /\ IsFiniteSet({c.copyPath : c \in {x \in ToSet(q) : x.kind = "conflict"}})
  <1>1. DOMAIN q = 1..Len(q) /\ Len(q) \in Nat
    BY SeqIs
  <1>2. IsFiniteSet(DOMAIN q)
    BY <1>1, FS_Interval
  <1> DEFINE D == {i \in DOMAIN q : q[i].kind = "displace"}  f == [i \in D |-> q[i].path]
             E == {i \in DOMAIN q : q[i].kind = "conflict"}  g == [i \in E |-> q[i].copyPath]
  <1>3. IsFiniteSet(D) /\ IsFiniteSet(E)
    BY <1>2, FS_Subset
  <1>4. /\ {c.path : c \in {x \in ToSet(q) : x.kind = "displace"}} = {f[i] : i \in D}
        /\ {c.copyPath : c \in {x \in ToSet(q) : x.kind = "conflict"}} = {g[i] : i \in E}
    BY DEF ToSet
  <1> HIDE DEF D, E, f, g
  <1>5. IsFiniteSet({f[i] : i \in D})
    BY <1>3, ImageFinite
  <1>6. IsFiniteSet({g[i] : i \in E})
    BY <1>3, ImageFinite
  <1> QED BY <1>4, <1>5, <1>6

LEMMA TakenFinite ==
  ASSUME NEW b, IsFiniteSet(ClaimedPaths(b)), NEW after, NEW q, IsSeq(q)
  PROVE  IsFiniteSet(TakenIn(b, after, q))
  <1> DEFINE X == {c.path : c \in {x \in ToSet(q) : x.kind = "displace"}}
             Y == {c.copyPath : c \in {x \in ToSet(q) : x.kind = "conflict"}}
  <1>1. IsFiniteSet(PathsOf(after)) /\ IsFiniteSet(X) /\ IsFiniteSet(Y)
    BY PathsFinite, SomeFinite
  <1>2. TakenIn(b, after, q) = PathsOf(after) \cup ClaimedPaths(b) \cup X \cup Y
    BY DEF TakenIn
  <1> HIDE DEF X, Y
  <1>3. IsFiniteSet(PathsOf(after) \cup ClaimedPaths(b))
    BY <1>1, FS_Union
  <1>4. IsFiniteSet(PathsOf(after) \cup ClaimedPaths(b) \cup X)
    BY <1>1, <1>3, FS_Union
  <1> QED BY <1>1, <1>2, <1>4, FS_Union

\* A note moved aside stands at no path the batch brings a file to.
LEMMA AsideFine ==
  ASSUME NEW b, IsFiniteSet(ClaimedPaths(b)), NEW after, NEW q, IsSeq(q), NEW p \in Paths,
         NEW c, Aside(b, after, q, p, c)
  PROVE  c.kind = "displace" /\ c.path \in Paths /\ c.path \notin ClaimedPaths(b)
  <1>1. PICK r : IsSeq(r) /\ c.path = ConflictPath(p, TakenIn(b, after, q \o r))
    BY DEF Aside
  <1>2. IsSeq(q \o r)
    BY <1>1, ConcatIs
  <1>3. IsFiniteSet(TakenIn(b, after, q \o r))
    BY <1>2, TakenFinite
  <1>4. ClaimedPaths(b) \subseteq TakenIn(b, after, q \o r)
    BY DEF TakenIn
  <1> QED BY <1>1, <1>3, <1>4, NameIsFree DEF Aside

-----------------------------------------------------------------------------
(* What a change makes of a row.                                             *)

NewRow(r, c) ==
  CASE c.kind \in {"upsert", "conflict"} -> RowFromFile(r, c)
    [] c.kind = "adopt" -> [r EXCEPT !.file = c.file, !.synced = c.synced]
    [] c.kind = "move"  -> [r EXCEPT !.path = c.path, !.file = c.file, !.synced = c.synced]
    [] c.kind = "delete" -> NoRow
    [] c.kind = "detach" -> IF r = NoRow THEN NoRow ELSE WithoutRemote(r)
    [] c.kind = "displace" -> IF r = NoRow THEN NoRow ELSE [r EXCEPT !.path = c.path]
    [] c.kind = "reupload" -> IF Live(r) THEN [WithoutRemote(r) EXCEPT !.dirty = TRUE] ELSE r

\* What a change brings is what its fields should hold.
Fits(w, sp, c) ==
  /\ Puts(c) => c.note \in NoteIds /\ c.path \in Paths /\ c.text \in Texts /\ Safe(w, sp, c.text.body)
  /\ c.kind = "conflict" => c.copyPath \in Paths
  /\ Binds(c) => c.note \in NoteIds /\ c.synced \in Texts
  /\ c.kind \in {"move", "displace"} => c.path \in Paths

LEMMA FineFits ==
  ASSUME NEW w, NEW sp, NEW t, NEW c, ChangeFine(w, sp, t, c)
  PROVE  Fits(w, sp, c)
  BY DEF ChangeFine, Fits

Versions == [id : Nat, version : Nat]

LEMMA FileTyped ==
  ASSUME NEW w, RemoteTrue(w), NEW f, NEW t, Reads(w, f, t)
  PROVE  f \in Versions
  <1>1. DOMAIN w = 1..Len(w) /\ Len(w) \in Nat
    BY SeqIs DEF RemoteTrue
  <1>2. f = [id |-> f.id, version |-> f.version] /\ f.id \in Nat /\ f.version \in Nat
    BY <1>1 DEF Reads, Known
  <1> QED BY <1>2 DEF Versions

\* The row a file makes.
LEMMA MadeRow ==
  ASSUME NEW w, RemoteTrue(w), NEW r, r = NoRow \/ r \in NoteRows, NEW c,
         c.path \in Paths, c.text \in Texts, Reads(w, c.file, c.text)
  PROVE  LET x == RowFromFile(r, c)
         IN  /\ x \in NoteRows /\ x # NoRow /\ x.path = c.path /\ x.text = c.text /\ ~x.dirty
             /\ x.synced = c.text /\ (x.deleted <=> Tombstone(r))
  <1>1. Tombstone(r) \in BOOLEAN
    BY DEF Tombstone, NoteRows
  <1>2. c.file \in Versions
    BY FileTyped
  <1> DEFINE x == RowFromFile(r, c)  b == Tombstone(r)
  <1>3. x = [path |-> c.path, text |-> c.text, dirty |-> FALSE, deleted |-> b, file |-> c.file, synced |-> c.text]
    BY DEF RowFromFile
  <1>4. b \in BOOLEAN
    BY <1>1
  <1> HIDE DEF x, b
  <1>5. /\ x \in NoteRows /\ x.path = c.path /\ x.text = c.text /\ x.dirty = FALSE
        /\ x.synced = c.text /\ x.deleted = b
    BY <1>2, <1>3, <1>4 DEF NoteRows, Versions
  <1>6. x # NoRow
    BY <1>5, MarkersAssumption
  <1> QED BY <1>5, <1>6 DEF x, b

\* What is changed in a row is still a row.
LEMMA PathRow ==
  ASSUME NEW r \in NoteRows, NEW p \in Paths
  PROVE  LET x == [r EXCEPT !.path = p]
         IN  /\ x \in NoteRows /\ x # NoRow /\ x.path = p /\ x.text = r.text /\ x.dirty = r.dirty
             /\ x.deleted = r.deleted /\ x.file = r.file /\ x.synced = r.synced
  BY MarkersAssumption DEF NoteRows, Versions

LEMMA FileRow ==
  ASSUME NEW r \in NoteRows, NEW f \in Versions \cup {NoFile}
  PROVE  LET x == [r EXCEPT !.file = f]
         IN  /\ x \in NoteRows /\ x # NoRow /\ x.path = r.path /\ x.text = r.text /\ x.dirty = r.dirty
             /\ x.deleted = r.deleted /\ x.file = f /\ x.synced = r.synced
  BY MarkersAssumption DEF NoteRows, Versions

LEMMA LooseRow ==
  ASSUME NEW r \in NoteRows
  PROVE  /\ LET x == WithoutRemote(r)
            IN  /\ x \in NoteRows /\ x.path = r.path /\ x.text = r.text /\ x.dirty = r.dirty
                /\ x.deleted = r.deleted /\ x.file = NoFile /\ x.synced = NoSynced
         /\ LET x == [WithoutRemote(r) EXCEPT !.dirty = TRUE]
            IN  /\ x \in NoteRows /\ x.path = r.path /\ x.text = r.text /\ x.dirty
                /\ x.deleted = r.deleted /\ x.file = NoFile /\ x.synced = NoSynced
  <1> DEFINE y == WithoutRemote(r)
  <1>1. /\ y \in NoteRows /\ y.path = r.path /\ y.text = r.text /\ y.dirty = r.dirty
        /\ y.deleted = r.deleted /\ y.file = NoFile /\ y.synced = NoSynced
    BY DEF NoteRows, WithoutRemote
  <1> HIDE DEF y
  <1>2. LET x == [y EXCEPT !.dirty = TRUE]
        IN  /\ x \in NoteRows /\ x.path = r.path /\ x.text = r.text /\ x.dirty
            /\ x.deleted = r.deleted /\ x.file = NoFile /\ x.synced = NoSynced
    BY <1>1 DEF NoteRows
  <1> QED BY <1>1, <1>2 DEF y

\* A change that gives its note no text leaves it the one it has.
LEMMA NewRowIs ==
  ASSUME NEW w, RemoteTrue(w), NEW sp, NEW r, r = NoRow \/ r \in NoteRows, NEW c, ChangeTrue(w, c),
         Fits(w, sp, c), Binds(c) => r # NoRow
  PROVE  LET x == NewRow(r, c)
         IN  /\ x = NoRow \/ x \in NoteRows
             /\ c.kind # "delete" /\ r # NoRow => x # NoRow
             /\ x # NoRow => x.path = IF Places(c) THEN c.path ELSE r.path
             /\ x # NoRow /\ ~Puts(c) => r # NoRow /\ x.text = r.text /\ x.deleted = r.deleted
             /\ x # NoRow /\ Puts(c) => x.text = c.text /\ x.synced = c.text /\ ~x.dirty
             /\ x # NoRow /\ Binds(c) => x.dirty = r.dirty /\ x.synced = c.synced
             /\ x # NoRow /\ ~Puts(c) /\ ~Binds(c) =>
                  \/ x.dirty = r.dirty /\ x.file = r.file /\ x.synced = r.synced
                  \/ (x.dirty = r.dirty \/ x.dirty) /\ x.file = NoFile /\ x.synced = NoSynced
  <1> USE DEF Puts, Binds, Places
  <1>1. CASE Puts(c)
    <2>1. Reads(w, c.file, c.text) /\ c.path \in Paths /\ c.text \in Texts
      BY <1>1 DEF ChangeTrue, Fits
    <2>2. NewRow(r, c) = RowFromFile(r, c)
      BY <1>1 DEF NewRow
    <2> QED BY <1>1, <2>1, <2>2, MadeRow
  <1>2. CASE Binds(c)
    <2>1. Reads(w, c.file, c.synced) /\ r \in NoteRows /\ c.synced \in Texts
      BY <1>2 DEF ChangeTrue, Fits
    <2>2. c.file \in Versions
      BY <2>1, FileTyped
    <2>3. CASE c.kind = "adopt"
      <3>1. NewRow(r, c) = [r EXCEPT !.file = c.file, !.synced = c.synced]
        BY <2>3 DEF NewRow
      <3> DEFINE x == NewRow(r, c)
      <3>2. /\ x \in NoteRows /\ x # NoRow /\ x.path = r.path /\ x.text = r.text /\ x.dirty = r.dirty
            /\ x.deleted = r.deleted /\ x.synced = c.synced
        <4> DEFINE f == c.file  s == c.synced
        <4>1. f \in Versions /\ s \in Texts /\ x = [r EXCEPT !.file = f, !.synced = s]
          BY <2>1, <2>2, <3>1
        <4> HIDE DEF f, x
        <4>2. LET y == [r EXCEPT !.file = f, !.synced = s]
              IN  /\ y \in NoteRows /\ y # NoRow /\ y.path = r.path /\ y.text = r.text /\ y.dirty = r.dirty
                  /\ y.deleted = r.deleted /\ y.file = f /\ y.synced = s
          <5> HIDE DEF s
          <5> QED BY <2>1, <4>1, MarkersAssumption DEF NoteRows, Versions
        <4> QED BY <4>1, <4>2
      <3> HIDE DEF x
      <3>3. ~Puts(c) /\ ~Places(c) /\ Binds(c)
        BY <2>3
      <3> HIDE DEF Puts, Places, Binds
      <3> QED BY <3>2, <3>3 DEF x
    <2>4. CASE c.kind = "move"
      <3>1. NewRow(r, c) = [r EXCEPT !.path = c.path, !.file = c.file, !.synced = c.synced]
        BY <2>4 DEF NewRow
      <3>2. c.path \in Paths
        BY <2>4 DEF Fits
      <3> DEFINE x == NewRow(r, c)
      <3>3. /\ x \in NoteRows /\ x # NoRow /\ x.path = c.path /\ x.text = r.text /\ x.dirty = r.dirty
            /\ x.deleted = r.deleted /\ x.synced = c.synced
        <4> DEFINE f == c.file  s == c.synced  p == c.path
        <4>1. /\ f \in Versions /\ s \in Texts /\ p \in Paths
              /\ x = [r EXCEPT !.path = p, !.file = f, !.synced = s]
          BY <2>1, <2>2, <3>1, <3>2
        <4> HIDE DEF f, x
        <4>2. LET y == [r EXCEPT !.path = p, !.file = f, !.synced = s]
              IN  /\ y \in NoteRows /\ y # NoRow /\ y.path = p /\ y.text = r.text /\ y.dirty = r.dirty
                  /\ y.deleted = r.deleted /\ y.file = f /\ y.synced = s
          <5> HIDE DEF s, p
          <5> QED BY <2>1, <4>1, MarkersAssumption DEF NoteRows, Versions
        <4> QED BY <4>1, <4>2
      <3> HIDE DEF x
      <3>4. ~Puts(c) /\ Places(c) /\ Binds(c)
        BY <2>4
      <3> HIDE DEF Puts, Places, Binds
      <3> QED BY <3>3, <3>4 DEF x
    <2> QED BY <1>2, <2>3, <2>4
  <1>3. CASE c.kind = "delete"
    BY <1>3 DEF NewRow
  <1>4. CASE r = NoRow /\ c.kind \in {"detach", "displace", "reupload"}
    BY <1>4 DEF NewRow, Live
  <1>5. CASE r \in NoteRows /\ c.kind = "detach"
    <2>1. NewRow(r, c) = WithoutRemote(r)
      BY <1>5, MarkersAssumption DEF NewRow
    <2> QED BY <1>5, <2>1, LooseRow, MarkersAssumption
  <1>6. CASE r \in NoteRows /\ c.kind = "displace"
    <2>1. NewRow(r, c) = [r EXCEPT !.path = c.path]
      BY <1>6, MarkersAssumption DEF NewRow
    <2>2. c.path \in Paths
      BY <1>6 DEF Fits
    <2> DEFINE x == NewRow(r, c)
    <2>3. /\ x \in NoteRows /\ x # NoRow /\ x.path = c.path /\ x.text = r.text /\ x.dirty = r.dirty
          /\ x.deleted = r.deleted /\ x.file = r.file /\ x.synced = r.synced
      BY <1>6, <2>1, <2>2, PathRow
    <2> HIDE DEF x
    <2>4. ~Puts(c) /\ Places(c) /\ ~Binds(c)
      BY <1>6
    <2> HIDE DEF Puts, Places, Binds
    <2> QED BY <1>6, <2>3, <2>4, MarkersAssumption DEF x
  <1>7. CASE r \in NoteRows /\ c.kind = "reupload"
    <2>1. NewRow(r, c) = [WithoutRemote(r) EXCEPT !.dirty = TRUE] \/ NewRow(r, c) = r
      BY <1>7 DEF NewRow
    <2> QED BY <1>7, <2>1, LooseRow, MarkersAssumption
  <1> QED BY <1>1, <1>2, <1>3, <1>4, <1>5, <1>6, <1>7 DEF ChangeTrue, Kinds

\* And if the row was so, and the text it is bound to is one it came of, it is.
LEMMA NewRowFine ==
  ASSUME NEW w, RemoteTrue(w), NEW sp, NEW r, r = NoRow \/ RowFine(w, sp, r), NEW c, ChangeTrue(w, c),
         Fits(w, sp, c), Binds(c) => r # NoRow /\ BasedOn(sp, r.text, c.synced)
  PROVE  NewRow(r, c) = NoRow \/ RowFine(w, sp, NewRow(r, c))
  <1> DEFINE x == NewRow(r, c)
  <1>0. r = NoRow \/ r \in NoteRows
    BY DEF RowFine
  <1>1. /\ x = NoRow \/ x \in NoteRows
        /\ x # NoRow /\ ~Puts(c) => r # NoRow /\ x.text = r.text /\ x.deleted = r.deleted
        /\ x # NoRow /\ Puts(c) => x.text = c.text /\ x.synced = c.text /\ ~x.dirty
        /\ x # NoRow /\ Binds(c) => x.dirty = r.dirty /\ x.synced = c.synced
        /\ x # NoRow /\ ~Puts(c) /\ ~Binds(c) =>
             \/ x.dirty = r.dirty /\ x.file = r.file /\ x.synced = r.synced
             \/ (x.dirty = r.dirty \/ x.dirty) /\ x.file = NoFile /\ x.synced = NoSynced
    BY <1>0, NewRowIs
  <1> HIDE DEF x
  <1>2. CASE x # NoRow /\ Puts(c)
    <2>1. c.text \in Texts /\ Safe(w, sp, c.text.body)
      BY <1>2 DEF Fits
    <2>2. SyncFine(sp, x)
      BY <1>1, <1>2, <2>1 DEF SyncFine, BasedOn
    <2> QED BY <1>1, <1>2, <2>1, <2>2, MarkersAssumption DEF RowFine, x
  <1>3. CASE x # NoRow /\ Binds(c)
    <2>1. c.synced \in Texts /\ ~Puts(c) /\ RowFine(w, sp, r)
      BY <1>3 DEF Fits, Puts, Binds
    <2>2. SyncFine(sp, x)
      BY <1>1, <1>3, <2>1 DEF SyncFine
    <2>3. Live(x) /\ ~x.dirty => Safe(w, sp, x.text.body)
      BY <1>1, <1>3, <2>1 DEF RowFine, Live
    <2> QED BY <1>1, <1>3, <2>1, <2>2, <2>3, MarkersAssumption DEF RowFine, x
  <1>4. CASE x # NoRow /\ ~Puts(c) /\ ~Binds(c)
    <2>1. RowFine(w, sp, r) /\ x \in NoteRows
      BY <1>1, <1>4
    <2>2. Live(x) /\ ~x.dirty => Safe(w, sp, x.text.body)
      BY <1>1, <1>4, <2>1 DEF RowFine, Live
    <2>3. SyncFine(sp, x) /\ (x.file # NoFile => x.synced # NoSynced)
      BY <1>1, <1>4, <2>1 DEF RowFine, SyncFine
    <2> QED BY <2>1, <2>2, <2>3 DEF RowFine, x
  <1> QED BY <1>2, <1>3, <1>4 DEF x

-----------------------------------------------------------------------------
(* What a change makes of a table.                                           *)

Shaped(st) == st = [rows |-> st.rows, ops |-> st.ops] /\ st.rows = [n \in NoteIds |-> st.rows[n]]

LEMMA TrueShaped ==
  ASSUME NEW w, NEW st, StoreTrue(w, st)
  PROVE  Shaped(st)
  BY DEF StoreTrue, TableTrue, Shaped

LEMMA ShapedPut ==
  ASSUME NEW t, t = [n \in NoteIds |-> t[n]], NEW n, NEW r, NEW q
  PROVE  LET u == [rows |-> [t EXCEPT ![n] = r], ops |-> q]
         IN  Shaped(u) /\ \A m \in NoteIds : u.rows[m] = IF m = n THEN r ELSE t[m]
  <1> DEFINE u == [t EXCEPT ![n] = r]
  <1>1. u = [m \in NoteIds |-> u[m]] /\ \A m \in NoteIds : u[m] = IF m = n THEN r ELSE t[m]
    OBVIOUS
  <1> HIDE DEF u
  <1>2. LET x == [rows |-> u, ops |-> q] IN Shaped(x) /\ x.rows = u
    BY <1>1 DEF Shaped
  <1> QED BY <1>1, <1>2 DEF u

\* Any change but a conflict touches its own note and no other.
LEMMA SimpleRows ==
  ASSUME NEW st, Shaped(st), NEW s, NEW c, c.kind \in Kinds, c.kind # "conflict"
  PROVE  LET u == ApplyChange(st, s, c)
         IN  Shaped(u) /\ \A n \in NoteIds :
               u.rows[n] = IF n = c.note THEN NewRow(st.rows[n], c) ELSE st.rows[n]
  <1> DEFINE t == st.rows  x == NewRow(t[c.note], c)
             Is(u) == Shaped(u) /\ \A n \in NoteIds : u.rows[n] = IF n = c.note THEN NewRow(t[n], c) ELSE t[n]
  <1>1. t = [n \in NoteIds |-> t[n]] /\ st = [rows |-> t, ops |-> st.ops]
    BY DEF Shaped
  <1>2. ASSUME NEW q PROVE Is([rows |-> [t EXCEPT ![c.note] = x], ops |-> q])
    <2> DEFINE u == [rows |-> [t EXCEPT ![c.note] = x], ops |-> q]
    <2>1. Shaped(u) /\ \A m \in NoteIds : u.rows[m] = IF m = c.note THEN x ELSE t[m]
      <3> HIDE DEF x, t
      <3> QED BY <1>1, ShapedPut
    <2> HIDE DEF u, t
    <2>2. Is(u)
      BY <2>1
    <2> QED BY <2>2 DEF u
  <1>3. ASSUME x = t[c.note] PROVE Is(st)
    BY <1>3 DEF Shaped
  <1>4. \/ \E q : ApplyChange(st, s, c) = [rows |-> [t EXCEPT ![c.note] = x], ops |-> q]
        \/ ApplyChange(st, s, c) = st /\ x = t[c.note]
    <2>1. CASE c.kind = "upsert"
      BY <2>1 DEF ApplyChange, Upsert, NewRow
    <2>2. CASE c.kind = "adopt"
      BY <2>2 DEF ApplyChange, AdoptVersion, NewRow
    <2>3. CASE c.kind = "move"
      BY <2>3 DEF ApplyChange, MoveNote, NewRow
    <2>4. CASE c.kind = "delete"
      BY <2>4 DEF ApplyChange, DeleteNote, NewRow
    <2>5. CASE c.kind = "detach"
      BY <2>5 DEF ApplyChange, DetachNote, NewRow
    <2>6. CASE c.kind = "displace"
      BY <2>6 DEF ApplyChange, DisplaceNote, NewRow
    <2>7. CASE c.kind = "reupload"
      BY <2>7 DEF ApplyChange, ReuploadNote, NewRow
    <2> QED BY <2>1, <2>2, <2>3, <2>4, <2>5, <2>6, <2>7 DEF Kinds
  <1> HIDE DEF x
  <1>5. Is(ApplyChange(st, s, c))
    <2> HIDE DEF Is, t
    <2> QED BY <1>2, <1>3, <1>4
  <1> QED BY <1>5

\* A conflict touches its note, and makes the copy of a live one.
LEMMA ConflictRows ==
  ASSUME NEW st, Shaped(st), NEW s, NEW c, c.kind = "conflict"
  PROVE  LET u == Conflict(st, s, c)  row == st.rows[c.note]
             copy == [path |-> c.copyPath, text |-> row.text, dirty |-> TRUE, deleted |-> FALSE,
                      file |-> NoFile, synced |-> NoSynced]
         IN  /\ Shaped(u)
             /\ \A n \in NoteIds :
                  u.rows[n] = IF ~row.deleted /\ n = c.copy THEN copy
                              ELSE IF n = c.note THEN NewRow(st.rows[n], c) ELSE st.rows[n]
  <1> DEFINE t == st.rows  row == t[c.note]  x == NewRow(row, c)
             copy == [path |-> c.copyPath, text |-> row.text, dirty |-> TRUE, deleted |-> FALSE,
                      file |-> NoFile, synced |-> NoSynced]
             over == [t EXCEPT ![c.note] = x]
             both == [over EXCEPT ![c.copy] = copy]
             Is(u) == Shaped(u) /\ \A n \in NoteIds :
                        u.rows[n] = IF ~row.deleted /\ n = c.copy THEN copy
                                    ELSE IF n = c.note THEN NewRow(t[n], c) ELSE t[n]
  <1>1. t = [n \in NoteIds |-> t[n]]
    BY DEF Shaped
  <1>2. \E q : Conflict(st, s, c) = [rows |-> IF row.deleted THEN over ELSE both, ops |-> q]
    <2>1. x = RowFromFile(row, c)
      BY DEF NewRow
    <2>2. over = [t EXCEPT ![c.note] = RowFromFile(@, c)]
      BY <2>1
    <2> HIDE DEF x, over
    <2>3. CASE row.deleted
      BY <2>2, <2>3 DEF Conflict
    <2>4. CASE ~row.deleted
      BY <2>2, <2>4 DEF Conflict
    <2> QED BY <2>3, <2>4
  <1>3. over = [n \in NoteIds |-> over[n]] /\ \A n \in NoteIds : over[n] = IF n = c.note THEN x ELSE t[n]
    <2> HIDE DEF x, t
    <2> QED BY <1>1
  <1> HIDE DEF x
  <1>4. ASSUME NEW q, row.deleted PROVE Is([rows |-> over, ops |-> q])
    <2> DEFINE u == [rows |-> over, ops |-> q]
    <2>1. Shaped(u) /\ \A m \in NoteIds : u.rows[m] = IF m = c.note THEN x ELSE t[m]
      <3> HIDE DEF t
      <3> QED BY <1>1, ShapedPut
    <2> HIDE DEF u, t, copy
    <2>2. Is(u)
      BY <1>4, <2>1 DEF x
    <2> QED BY <2>2 DEF u
  <1>5. ASSUME NEW q, ~row.deleted PROVE Is([rows |-> both, ops |-> q])
    <2> DEFINE u == [rows |-> both, ops |-> q]
    <2>1. Shaped(u) /\ \A m \in NoteIds : u.rows[m] = IF m = c.copy THEN copy ELSE over[m]
      <3> HIDE DEF over, copy
      <3> QED BY <1>3, ShapedPut
    <2> HIDE DEF u, t, copy, over
    <2>2. Is(u)
      BY <1>3, <1>5, <2>1 DEF x
    <2> QED BY <2>2 DEF u
  <1>6. Is(Conflict(st, s, c))
    <2> HIDE DEF Is, over, both, t
    <2> QED BY <1>2, <1>4, <1>5
  <1> QED BY <1>6

\* The copy's id is put in its text, and nothing else is touched.
OwnId(r, n) == [r EXCEPT !.text.id = n]

LEMMA OwnIdRows ==
  ASSUME NEW st, Shaped(st), NEW c, c.copy \in NoteIds
  PROVE  LET u == WithOwnId(st, c)
         IN  /\ Shaped(u) /\ u.ops = st.ops
             /\ \A n \in NoteIds :
                  u.rows[n] = IF n = c.copy /\ st.rows[n] # NoRow
                              THEN OwnId(st.rows[n], c.copy) ELSE st.rows[n]
  <1>1. CASE st.rows[c.copy] # NoRow
    <2> DEFINE t == st.rows  r == [t[c.copy] EXCEPT !.text.id = c.copy]  u == [rows |-> [t EXCEPT ![c.copy] = r], ops |-> st.ops]
    <2>1. Shaped(u) /\ \A m \in NoteIds : u.rows[m] = IF m = c.copy THEN r ELSE t[m]
      <3>1. t = [n \in NoteIds |-> t[n]]
        BY DEF Shaped
      <3> HIDE DEF r, t
      <3> QED BY <3>1, ShapedPut
    <2>2. [st EXCEPT !.rows[c.copy].text.id = c.copy] = u
      <3>1. st = [rows |-> st.rows, ops |-> st.ops]
        BY DEF Shaped
      <3> DEFINE v == [t EXCEPT ![c.copy] = r]
      <3>2. [st EXCEPT !.rows[c.copy].text.id = c.copy] = [st EXCEPT !.rows = v]
        OBVIOUS
      <3> HIDE DEF v
      <3> QED BY <3>1, <3>2
    <2>3. WithOwnId(st, c) = u /\ u.ops = st.ops
      BY <1>1, <2>2 DEF WithOwnId
    <2> HIDE DEF u
    <2>4. \A n \in NoteIds : u.rows[n] = IF n = c.copy /\ t[n] # NoRow THEN OwnId(t[n], c.copy) ELSE t[n]
      BY <1>1, <2>1 DEF OwnId
    <2> QED BY <2>1, <2>3, <2>4
  <1>2. CASE st.rows[c.copy] = NoRow
    BY <1>2 DEF WithOwnId
  <1> QED BY <1>1, <1>2

\* A note that is no copy: only what is decided of it changes its row.
LEMMA AppliedRow ==
  ASSUME NEW st, Shaped(st), NEW s, NEW c, c.kind \in Kinds, c.kind = "conflict" => c.copy \in NoteIds
  PROVE  LET u == Applied1(st, s, c)
         IN  Shaped(u) /\ \A n \in NoteIds : (c.kind = "conflict" => n # c.copy) =>
               u.rows[n] = IF n = c.note THEN NewRow(st.rows[n], c) ELSE st.rows[n]
  <1>1. CASE c.kind = "conflict"
    <2> DEFINE u == Conflict(st, s, c)  v == WithOwnId(u, c)
    <2>1. Shaped(u) /\ \A n \in NoteIds : n # c.copy =>
            u.rows[n] = IF n = c.note THEN NewRow(st.rows[n], c) ELSE st.rows[n]
      <3> DEFINE row == st.rows[c.note]
                 copy == [path |-> c.copyPath, text |-> row.text, dirty |-> TRUE, deleted |-> FALSE,
                          file |-> NoFile, synced |-> NoSynced]
      <3>1. Shaped(u) /\ \A n \in NoteIds :
              u.rows[n] = IF ~row.deleted /\ n = c.copy THEN copy
                          ELSE IF n = c.note THEN NewRow(st.rows[n], c) ELSE st.rows[n]
        BY <1>1, ConflictRows
      <3> HIDE DEF copy, u
      <3> QED BY <3>1
    <2>2. Applied1(st, s, c) = v
      BY <1>1 DEF Applied1, ApplyChange
    <2> HIDE DEF u
    <2>3. Shaped(v) /\ \A n \in NoteIds : n # c.copy => v.rows[n] = u.rows[n]
      <3>1. Shaped(u) /\ c.copy \in NoteIds
        BY <1>1, <2>1
      <3>2. /\ Shaped(v)
            /\ \A n \in NoteIds :
                 v.rows[n] = IF n = c.copy /\ u.rows[n] # NoRow THEN OwnId(u.rows[n], c.copy) ELSE u.rows[n]
        BY <3>1, OwnIdRows
      <3> HIDE DEF v
      <3> QED BY <3>2
    <2> HIDE DEF v
    <2> QED BY <1>1, <2>1, <2>2, <2>3
  <1>2. CASE c.kind # "conflict"
    <2>1. Applied1(st, s, c) = ApplyChange(st, s, c)
      BY <1>2 DEF Applied1, Kinds
    <2> QED BY <1>2, <2>1, SimpleRows
  <1> QED BY <1>1, <1>2

-----------------------------------------------------------------------------
(* A batch, change by change.                                                *)

LEMMA AfterSteps ==
  ASSUME NEW t, NEW q, IsSeq(q)
  PROVE  \E g : /\ g[0] = [rows |-> t, ops |-> {}]
                /\ \A i \in 1..Len(q) : g[i] = Applied1(g[i - 1], 0, q[i])
                /\ After(t, q) = g[Len(q)].rows
  <1> DEFINE N == Len(q)
             first == [rows |-> t, ops |-> {}]
             Is(g, n) == g = [i \in 0..n |-> IF i = 0 THEN first ELSE Applied1(g[i - 1], 0, q[i])]
             upTo == CHOOSE g : Is(g, N)
             K == {n \in 0..N : \E g : Is(g, n)}
  <1>0. N \in Nat /\ 0 \in 0..N /\ N \in 0..N
    BY SeqIs
  <1>1. After(t, q) = upTo[N].rows
    BY DEF After
  <1> HIDE DEF N
  <1>2. 0 \in K
    <2>1. Is([i \in 0..0 |-> first], 0)
      OBVIOUS
    <2> HIDE DEF Is
    <2> QED BY <2>1, <1>0
  <1>3. ASSUME NEW n \in 1..N, n - 1 \in K PROVE n \in K
    <2> HIDE DEF first
    <2>0. n \in Nat /\ n # 0
      BY <1>0
    <2>1. PICK h : Is(h, n - 1)
      BY <1>3
    <2> DEFINE g == [i \in 0..n |-> IF i = n THEN Applied1(h[n - 1], 0, q[n]) ELSE h[i]]
    <2>2. \A i \in 0..(n - 1) : h[i] = IF i = 0 THEN first ELSE Applied1(h[i - 1], 0, q[i])
      BY <2>1
    <2>3. \A i \in 0..(n - 1) : g[i] = h[i]
      BY <2>0
    <2>4. ASSUME NEW i \in 0..n PROVE g[i] = IF i = 0 THEN first ELSE Applied1(g[i - 1], 0, q[i])
      <3>1. CASE i = n
        BY <3>1, <2>0, <2>3
      <3>2. CASE i # n
        BY <3>2, <2>0, <2>2, <2>3
      <3> QED BY <3>1, <3>2
    <2>5. Is(g, n)
      <3>1. g = [i \in 0..n |-> g[i]]
        OBVIOUS
      <3> HIDE DEF g
      <3> QED BY <3>1, <2>4
    <2> HIDE DEF Is
    <2> QED BY <2>5, <1>0
  <1>4. N \in K
    <2> HIDE DEF K
    <2>1. \A i \in 0..N : i \in K
      BY <1>0, <1>2, <1>3, Steps
    <2> QED BY <2>1, <1>0
  <1>5. Is(upTo, N)
    <2> HIDE DEF Is
    <2> QED BY <1>4
  <1> HIDE DEF upTo, K, first
  <1>6. upTo[0] = first /\ \A i \in 1..N : upTo[i] = Applied1(upTo[i - 1], 0, q[i])
    BY <1>0, <1>5
  <1> QED BY <1>1, <1>6 DEF N, first

LEMMA BatchSteps ==
  ASSUME NEW st, NEW s, NEW q, IsSeq(q)
  PROVE  \E g : /\ g[0] = [st |-> st, next |-> s, ok |-> TRUE]
                /\ \A i \in 1..Len(q) : g[i] = TakesNext(g[i - 1], q[i])
                /\ AppliedAll(st, s, q) = g[Len(q)]
  <1> DEFINE N == Len(q)
             first == [st |-> st, next |-> s, ok |-> TRUE]
             Is(g, n) == g = [i \in 0..n |-> IF i = 0 THEN first ELSE TakesNext(g[i - 1], q[i])]
             upTo == CHOOSE g : Is(g, N)
             K == {n \in 0..N : \E g : Is(g, n)}
  <1>0. N \in Nat /\ 0 \in 0..N /\ N \in 0..N
    BY SeqIs
  <1>1. AppliedAll(st, s, q) = upTo[N]
    BY DEF AppliedAll
  <1> HIDE DEF N
  <1>2. 0 \in K
    <2>1. Is([i \in 0..0 |-> first], 0)
      OBVIOUS
    <2> HIDE DEF Is
    <2> QED BY <2>1, <1>0
  <1>3. ASSUME NEW n \in 1..N, n - 1 \in K PROVE n \in K
    <2> HIDE DEF first
    <2>0. n \in Nat /\ n # 0
      BY <1>0
    <2>1. PICK h : Is(h, n - 1)
      BY <1>3
    <2> DEFINE g == [i \in 0..n |-> IF i = n THEN TakesNext(h[n - 1], q[n]) ELSE h[i]]
    <2>2. \A i \in 0..(n - 1) : h[i] = IF i = 0 THEN first ELSE TakesNext(h[i - 1], q[i])
      BY <2>1
    <2>3. \A i \in 0..(n - 1) : g[i] = h[i]
      BY <2>0
    <2>4. ASSUME NEW i \in 0..n PROVE g[i] = IF i = 0 THEN first ELSE TakesNext(g[i - 1], q[i])
      <3>1. CASE i = n
        BY <3>1, <2>0, <2>3
      <3>2. CASE i # n
        BY <3>2, <2>0, <2>2, <2>3
      <3> QED BY <3>1, <3>2
    <2>5. Is(g, n)
      <3>1. g = [i \in 0..n |-> g[i]]
        OBVIOUS
      <3> HIDE DEF g
      <3> QED BY <3>1, <2>4
    <2> HIDE DEF Is
    <2> QED BY <2>5, <1>0
  <1>4. N \in K
    <2> HIDE DEF K
    <2>1. \A i \in 0..N : i \in K
      BY <1>0, <1>2, <1>3, Steps
    <2> QED BY <2>1, <1>0
  <1>5. Is(upTo, N)
    <2> HIDE DEF Is
    <2> QED BY <1>4
  <1> HIDE DEF upTo, K, first
  <1>6. upTo[0] = first /\ \A i \in 1..N : upTo[i] = TakesNext(upTo[i - 1], q[i])
    BY <1>0, <1>5
  <1> QED BY <1>1, <1>6 DEF N, first

\* A note no change deletes still has a row when they have been applied.
LEMMA AfterGone ==
  ASSUME NEW w, RemoteTrue(w), NEW sp, NEW t, TableTrue(w, t), NEW q, ChangesTrue(w, q),
         ChangesFine(w, sp, t, q), NEW n \in NoteIds, t[n] \in NoteRows,
         \A i \in DOMAIN q : ~(q[i].kind = "delete" /\ q[i].note = n)
  PROVE  After(t, q)[n] \in NoteRows
  <1>0. IsSeq(q) /\ DOMAIN q = 1..Len(q) /\ Len(q) \in Nat
    BY SeqIs DEF ChangesTrue
  <1>1. PICK g : /\ g[0] = [rows |-> t, ops |-> {}]
                 /\ \A i \in 1..Len(q) : g[i] = Applied1(g[i - 1], 0, q[i])
                 /\ After(t, q) = g[Len(q)].rows
    BY <1>0, AfterSteps
  <1> DEFINE N == Len(q)
             Fine(u) == Shaped(u) /\ u.rows[n] \in NoteRows
             In == {i \in 0..N : Fine(g[i])}
  <1>2. 0 \in In
    <2>1. Fine([rows |-> t, ops |-> {}])
      BY DEF Shaped, TableTrue
    <2> HIDE DEF Fine
    <2> QED BY <2>1, <1>0, <1>1
  <1>3. ASSUME NEW i \in 1..N, i - 1 \in In PROVE i \in In
    <2> DEFINE u == g[i - 1]  c == q[i]  v == Applied1(u, 0, c)
    <2>1. Fine(u) /\ g[i] = v /\ i \in DOMAIN q /\ i \in 0..N
      BY <1>0, <1>1, <1>3
    <2>2. ChangeTrue(w, c) /\ ChangeFine(w, sp, t, c) /\ ~(c.kind = "delete" /\ c.note = n)
      BY <2>1 DEF ChangesTrue, ChangesFine
    <2> HIDE DEF u, c
    <2>3. /\ c.kind \in Kinds /\ (c.kind = "conflict" => c.copy \in NoteIds /\ n # c.copy)
          /\ Fits(w, sp, c)
      BY <2>2, FineFits, MarkersAssumption DEF ChangeTrue, ChangeFine
    <2>4. Shaped(v) /\ v.rows[n] = IF n = c.note THEN NewRow(u.rows[n], c) ELSE u.rows[n]
      BY <2>1, <2>3, AppliedRow
    <2> DEFINE r == u.rows[n]
    <2>5. r \in NoteRows /\ r # NoRow
      BY <2>1, MarkersAssumption
    <2> HIDE DEF v, r
    <2>6. CASE n = c.note
      <3>1. NewRow(r, c) \in NoteRows
        BY <2>2, <2>3, <2>5, <2>6, NewRowIs
      <3> QED BY <2>1, <2>4, <2>6, <3>1 DEF r
    <2>7. CASE n # c.note
      BY <2>1, <2>4, <2>7
    <2> QED BY <2>6, <2>7
  <1>4. N \in In
    <2> HIDE DEF In
    <2>1. \A i \in 0..N : i \in In
      BY <1>0, <1>2, <1>3, Steps
    <2> QED BY <2>1, <1>0
  <1> QED BY <1>1, <1>4

LEMMA WhereRowIs ==
  ASSUME NEW w, NEW r, RowTrue(w, r)
  PROVE  /\ WithoutRemote(r).path = r.path /\ [WithoutRemote(r) EXCEPT !.dirty = TRUE].path = r.path
         /\ \A p : [r EXCEPT !.path = p].path = p
  <1> DEFINE a == r.path  b == r.text  c == r.dirty  d == r.deleted  f == r.file  s == r.synced
  <1>1. r \in RowOf(a, b, c, d, f, s)
    BY RowParts
  <1> HIDE DEF b, c, d, f, s
  <1>2. WithoutRemote(r) \in RowOf(a, b, c, d, NoFile, NoSynced)
    BY <1>1 DEF RowOf, WithoutRemote
  <1>3. [WithoutRemote(r) EXCEPT !.dirty = TRUE] \in RowOf(a, b, TRUE, d, NoFile, NoSynced)
    BY <1>2 DEF RowOf
  <1>4. ASSUME NEW p PROVE [r EXCEPT !.path = p] \in RowOf(p, b, c, d, f, s)
    BY <1>1 DEF RowOf
  <1> QED BY <1>2, <1>3, <1>4 DEF RowOf

\* A note the changes give a text is where one of them puts it, if anywhere.
LEMMA AfterPath ==
  ASSUME NEW w, RemoteTrue(w), NEW sp, NEW t, TableTrue(w, t), NEW q, ChangesTrue(w, q),
         ChangesFine(w, sp, t, q), NEW n \in NoteIds, t[n] # NoRow,
         \E i \in DOMAIN q : Puts(q[i]) /\ q[i].note = n
  PROVE  After(t, q)[n] = NoRow \/ \E i \in DOMAIN q : Places(q[i]) /\ After(t, q)[n].path = q[i].path
  <1>0. IsSeq(q) /\ DOMAIN q = 1..Len(q) /\ Len(q) \in Nat
    BY SeqIs DEF ChangesTrue
  <1>1. PICK g : /\ g[0] = [rows |-> t, ops |-> {}]
                 /\ \A i \in 1..Len(q) : g[i] = Applied1(g[i - 1], 0, q[i])
                 /\ After(t, q) = g[Len(q)].rows
    BY <1>0, AfterSteps
  <1> DEFINE N == Len(q)
             P == {q[i].path : i \in {j \in DOMAIN q : Places(q[j])}}
             Put(i) == \E j \in 1..i : Puts(q[j]) /\ q[j].note = n
             Fine(r) == r = NoRow \/ (RowTrue(w, r) /\ r.path \in P)
             In == {i \in 0..N : Shaped(g[i]) /\ (Put(i) => Fine(g[i].rows[n]))}
  <1>2. 0 \in In
    <2>1. Shaped([rows |-> t, ops |-> {}])
      BY DEF Shaped, TableTrue
    <2>2. ~Put(0)
      OBVIOUS
    <2> HIDE DEF Fine, Put
    <2> QED BY <2>1, <2>2, <1>0, <1>1
  <1>3. ASSUME NEW i \in 1..N, i - 1 \in In PROVE i \in In
    <2> DEFINE u == g[i - 1]  c == q[i]  v == Applied1(u, 0, c)
    <2>1. Shaped(u) /\ (Put(i - 1) => Fine(u.rows[n])) /\ g[i] = v /\ i \in DOMAIN q /\ i \in 0..N
      <3> HIDE DEF Put, Fine
      <3> QED BY <1>0, <1>1, <1>3
    <2>2. ChangeTrue(w, c) /\ ChangeFine(w, sp, t, c) /\ (Places(c) => c.path \in P)
      BY <2>1 DEF ChangesTrue, ChangesFine
    <2>3. /\ Put(i) => Put(i - 1) \/ (Puts(c) /\ c.note = n)
          /\ Binds(c) /\ c.note = n => ~Put(i - 1)
      <3>1. Put(i) => Put(i - 1) \/ (Puts(c) /\ c.note = n)
        BY <1>0
      <3>2. ASSUME Binds(c), c.note = n, NEW j \in 1..(i - 1), Puts(q[j]), q[j].note = n PROVE FALSE
        <4>1. j \in DOMAIN q /\ j < i
          BY <1>0
        <4> QED BY <2>1, <3>2, <4>1 DEF ChangesFine, Orderly
      <3> QED BY <3>1, <3>2
    <2> HIDE DEF u, c, P, Put
    <2>4. /\ c.kind \in Kinds /\ (c.kind = "conflict" => c.copy \in NoteIds /\ n # c.copy)
          /\ Fits(w, sp, c)
      BY <2>2, FineFits DEF ChangeTrue, ChangeFine
    <2>5. Shaped(v) /\ v.rows[n] = IF n = c.note THEN NewRow(u.rows[n], c) ELSE u.rows[n]
      BY <2>1, <2>4, AppliedRow
    <2> DEFINE r == u.rows[n]
    <2> HIDE DEF v
    <2>6. CASE ~Put(i)
      BY <2>1, <2>5, <2>6
    <2> DEFINE x == NewRow(r, c)
    <2>7. CASE Put(i) /\ n = c.note /\ Puts(c)
      <3>1. x = RowFromFile(r, c) /\ c.path \in P
        BY <2>2, <2>7 DEF NewRow, Puts, Places
      <3> HIDE DEF x
      <3>2. RowTrue(w, x) /\ x.path = c.path
        <4>1. Reads(w, c.file, c.text)
          BY <2>2, <2>7 DEF ChangeTrue, Puts
        <4> QED BY <3>1, <4>1 DEF RowTrue, RowFromFile
      <3>3. Fine(x)
        BY <3>1, <3>2
      <3> HIDE DEF Fine
      <3> QED BY <2>1, <2>5, <2>7, <3>3 DEF x
    <2>8. CASE Put(i) /\ n = c.note /\ ~Puts(c)
      <3>0. Fine(r) /\ ~Binds(c)
        BY <2>1, <2>3, <2>8
      <3> HIDE DEF r
      <3>1. ASSUME r = NoRow PROVE Fine(x)
        <4>1. x = NoRow
          BY <3>0, <3>1, <2>4, <2>8 DEF NewRow, Live, Kinds, Puts, Binds
        <4> QED BY <4>1
      <3>2. ASSUME RowTrue(w, r), r.path \in P PROVE Fine(x)
        <4>1. x \in {NoRow, r, WithoutRemote(r), [WithoutRemote(r) EXCEPT !.dirty = TRUE]}
              \/ (c.kind = "displace" /\ x = [r EXCEPT !.path = c.path])
          BY <3>0, <2>4, <2>8 DEF NewRow, Kinds, Puts, Binds
        <4>2. c.kind = "displace" => c.path \in P
          BY <2>2 DEF Places
        <4>3. CASE x \in {NoRow, r}
          BY <4>3, <3>2
        <4>4. CASE x = WithoutRemote(r)
          <5>1. RowTrue(w, WithoutRemote(r)) /\ WithoutRemote(r).path = r.path
            BY <3>2, RowLoosed, WhereRowIs
          <5> HIDE DEF x
          <5> QED BY <4>4, <5>1, <3>2
        <4>5. CASE x = [WithoutRemote(r) EXCEPT !.dirty = TRUE]
          BY <4>5, <3>2, RowLoosed, WhereRowIs
        <4>6. CASE c.kind = "displace" /\ x = [r EXCEPT !.path = c.path]
          <5> DEFINE p == c.path  y == [r EXCEPT !.path = p]
          <5>1. x = y /\ p \in P
            BY <4>2, <4>6
          <5> HIDE DEF p, x
          <5>2. RowTrue(w, y) /\ y.path = p
            <6>1. LET z == [r EXCEPT !.path = p] IN RowTrue(w, z)
              BY <3>2, RowEdited
            <6>2. y.path = p
              BY <3>2, WhereRowIs
            <6> QED BY <6>1, <6>2
          <5> HIDE DEF y
          <5> QED BY <5>1, <5>2
        <4> HIDE DEF x
        <4> QED BY <4>1, <4>3, <4>4, <4>5, <4>6
      <3>5. Fine(x)
        <4> HIDE DEF x
        <4> QED BY <3>0, <3>1, <3>2
      <3> HIDE DEF Fine, x
      <3> QED BY <2>1, <2>5, <2>8, <3>5 DEF x, r
    <2>9. CASE Put(i) /\ n # c.note
      BY <2>1, <2>3, <2>5, <2>9
    <2> QED BY <2>6, <2>7, <2>8, <2>9
  <1>4. N \in In
    <2> HIDE DEF In
    <2>1. \A i \in 0..N : i \in In
      BY <1>0, <1>2, <1>3, Steps
    <2> QED BY <2>1, <1>0
  <1>5. Put(N)
    BY <1>0
  <1>6. Fine(g[N].rows[n])
    <2> HIDE DEF Fine, Put
    <2> QED BY <1>4, <1>5
  <1> QED BY <1>1, <1>6

-----------------------------------------------------------------------------
(* A change applied: the rows stay so, and no live text is let go.           *)

LEMMA IdPut ==
  ASSUME NEW r \in NoteRows, NEW k \in NoteIds
  PROVE  LET x == [r EXCEPT !.text.id = k]
         IN  /\ x \in NoteRows /\ x # NoRow /\ x.path = r.path /\ x.dirty = r.dirty /\ x.deleted = r.deleted
             /\ x.file = r.file /\ x.synced = r.synced /\ x.text.body = r.text.body
  <1> DEFINE x == [r EXCEPT !.text.id = k]
  <1>1. r.text \in Texts
    BY DEF NoteRows
  <1>2. [r.text EXCEPT !.id = k] \in Texts /\ [r.text EXCEPT !.id = k].body = r.text.body
    <2> DEFINE t == r.text
    <2>1. t \in Texts
      BY <1>1
    <2> HIDE DEF t
    <2>2. LET y == [t EXCEPT !.id = k] IN y \in Texts /\ y.body = t.body
      BY <2>1 DEF Texts
    <2> QED BY <2>2 DEF t
  <1> DEFINE y == [r.text EXCEPT !.id = k]
  <1>3. x = [r EXCEPT !.text = y]
    BY DEF NoteRows
  <1> HIDE DEF x, y
  <1>4. /\ x \in NoteRows /\ x.path = r.path /\ x.dirty = r.dirty /\ x.deleted = r.deleted
        /\ x.file = r.file /\ x.synced = r.synced /\ x.text = y
    BY <1>2, <1>3 DEF NoteRows, y
  <1> QED BY <1>2, <1>4, MarkersAssumption DEF x, y

LEMMA IdFine ==
  ASSUME NEW w, NEW sp, NEW r, RowFine(w, sp, r), NEW k \in NoteIds
  PROVE  RowFine(w, sp, [r EXCEPT !.text.id = k])
  <1> DEFINE x == [r EXCEPT !.text.id = k]
  <1>1. /\ x \in NoteRows /\ x # NoRow /\ x.path = r.path /\ x.dirty = r.dirty /\ x.deleted = r.deleted
        /\ x.file = r.file /\ x.synced = r.synced /\ x.text.body = r.text.body
    BY IdPut DEF RowFine
  <1> HIDE DEF x
  <1>2. RowFine(w, sp, x)
    BY <1>1, MarkersAssumption DEF RowFine, SyncFine, BasedOn, Live
  <1> QED BY <1>2 DEF x

LEMMA SimpleOpsFine ==
  ASSUME NEW w, NEW sp, NEW st, OpsTrue(st.ops), OpsFine(st.ops), NEW s, NEW c, c.kind \in Kinds,
         c.kind # "conflict", Fits(w, sp, c)
  PROVE  OpsFine(ApplyChange(st, s, c).ops)
  <1>1. CASE c.kind = "upsert"
    BY <1>1, OriginFine DEF ApplyChange, Upsert
  <1>2. CASE c.kind = "adopt"
    BY <1>2, OriginFine DEF ApplyChange, AdoptVersion
  <1>3. CASE c.kind = "move"
    BY <1>3, RebaseFine DEF ApplyChange, MoveNote, Fits
  <1>4. CASE c.kind = "delete"
    BY <1>4 DEF ApplyChange, DeleteNote
  <1>5. CASE c.kind = "detach"
    BY <1>5 DEF ApplyChange, DetachNote
  <1>6. CASE c.kind = "displace"
    BY <1>6, RebaseFine DEF ApplyChange, DisplaceNote, Fits
  <1>7. CASE c.kind = "reupload"
    BY <1>7, NoteOpFine DEF ApplyChange, ReuploadNote
  <1> QED BY <1>1, <1>2, <1>3, <1>4, <1>5, <1>6, <1>7 DEF Kinds

LEMMA ConflictOpsFine ==
  ASSUME NEW st, OpsTrue(st.ops), OpsFine(st.ops), NEW s, NEW c
  PROVE  OpsFine(Conflict(st, s, c).ops)
  <1> DEFINE q == st.ops \ Writes(st.ops, c.note)  kept == OriginIsNow(q, c.note, c.path)
  <1>1. OpsTrue(q) /\ OpsFine(q)
    BY FewerFine DEF OpsTrue
  <1>2. OpsFine(kept)
    <2> HIDE DEF q
    <2> QED BY <1>1, OriginFine
  <1>3. OpsFine(kept \cup {NoteOp(s, "write", c.copy)})
    <2> HIDE DEF kept
    <2> QED BY <1>2, NoteOpFine
  <1>4. Conflict(st, s, c).ops \in {kept, kept \cup {NoteOp(s, "write", c.copy)}}
    BY DEF Conflict
  <1> HIDE DEF kept
  <1> QED BY <1>2, <1>3, <1>4

\* A conflict: the note takes the remote's text, its own goes on in the copy.
LEMMA ConflictFine ==
  ASSUME NEW w, RemoteTrue(w), NEW sp, NEW st, StoreTrue(w, st), TableFine(w, sp, st.rows),
         OpsFine(st.ops), NEW s, NEW c, ChangeTrue(w, c), Fits(w, sp, c), c.kind = "conflict",
         st.rows[c.note] # NoRow, Live(st.rows[c.note]) => st.rows[c.copy] = NoRow
  PROVE  LET u == WithOwnId(Conflict(st, s, c), c)
         IN  TableFine(w, sp, u.rows) /\ OpsFine(u.ops) /\ Carried(w, sp, st.rows, u.rows)
  <1> DEFINE t == st.rows  row == t[c.note]  v == Conflict(st, s, c)  u == WithOwnId(v, c)
             copy == [path |-> c.copyPath, text |-> row.text, dirty |-> TRUE, deleted |-> FALSE,
                      file |-> NoFile, synced |-> NoSynced]
             Own(r) == OwnId(r, c.copy)
  <1>0. /\ c.note \in NoteIds /\ c.copy \in NoteIds /\ Puts(c) /\ ~Binds(c) /\ c.copyPath \in Paths
        /\ Shaped(st) /\ OpsTrue(st.ops) /\ RowFine(w, sp, row) /\ row \in NoteRows
        /\ \A n \in NoteIds : t[n] = NoRow \/ RowFine(w, sp, t[n])
    BY TrueShaped DEF Fits, ChangeTrue, Puts, Binds, StoreTrue, TableFine, RowFine
  <1>1. Shaped(v) /\ \A n \in NoteIds :
          v.rows[n] = IF ~row.deleted /\ n = c.copy THEN copy
                      ELSE IF n = c.note THEN NewRow(t[n], c) ELSE t[n]
    BY <1>0, ConflictRows
  <1>2. OpsFine(v.ops)
    BY <1>0, ConflictOpsFine
  <1>3. RowFine(w, sp, copy) /\ copy.text.body = row.text.body /\ Live(copy)
    <2>1. copy \in NoteRows /\ copy.text = row.text /\ copy.synced = NoSynced /\ copy.file = NoFile /\ copy.dirty
      BY <1>0 DEF NoteRows
    <2>2. ~copy.deleted
      OBVIOUS
    <2> HIDE DEF copy
    <2> QED BY <2>1, <2>2, MarkersAssumption DEF RowFine, SyncFine, Live
  <1>4. ASSUME NEW n \in NoteIds PROVE v.rows[n] = NoRow \/ RowFine(w, sp, v.rows[n])
    <2>1. NewRow(t[n], c) = NoRow \/ RowFine(w, sp, NewRow(t[n], c))
      <3> DEFINE r == t[n]
      <3>1. r = NoRow \/ RowFine(w, sp, r)
        BY <1>0
      <3> HIDE DEF r
      <3>2. NewRow(r, c) = NoRow \/ RowFine(w, sp, NewRow(r, c))
        BY <1>0, <3>1, NewRowFine
      <3> QED BY <3>2 DEF r
    <2> HIDE DEF v, copy, t
    <2> QED BY <1>0, <1>1, <1>3, <2>1
  <1>5. /\ Shaped(u) /\ u.ops = v.ops
        /\ \A n \in NoteIds : u.rows[n] = IF n = c.copy /\ v.rows[n] # NoRow THEN Own(v.rows[n]) ELSE v.rows[n]
    <2> HIDE DEF v
    <2> QED BY <1>0, <1>1, OwnIdRows
  <1> HIDE DEF u, v
  <1>6. ASSUME NEW r, RowFine(w, sp, r)
        PROVE  /\ RowFine(w, sp, Own(r)) /\ Own(r) # NoRow /\ Own(r).text.body = r.text.body
               /\ Own(r).deleted = r.deleted
    BY <1>0, <1>6, IdFine, IdPut DEF RowFine, OwnId
  <1> HIDE DEF Own
  <1>7. TableFine(w, sp, u.rows)
    <2>1. ASSUME NEW n \in NoteIds PROVE u.rows[n] = NoRow \/ RowFine(w, sp, u.rows[n])
      BY <1>4, <1>5, <1>6
    <2> QED BY <2>1 DEF TableFine
  <1>8. ASSUME NEW n \in NoteIds, Live(t[n])
        PROVE  \E m \in NoteIds : Live(u.rows[m]) /\ u.rows[m].text.body = t[n].text.body
    <2> HIDE DEF copy, t
    <2>1. RowFine(w, sp, t[n]) /\ t[n] # NoRow
      BY <1>0, <1>8 DEF Live
    <2>2. CASE n = c.note
      <3>1. ~row.deleted /\ v.rows[c.copy] = copy
        BY <1>0, <1>1, <1>8, <2>2 DEF Live
      <3>2. copy # NoRow
        BY <1>3 DEF Live
      <3>3. u.rows[c.copy] = Own(copy)
        BY <1>0, <1>5, <3>1, <3>2
      <3>4. Live(Own(copy)) /\ Own(copy).text.body = t[n].text.body
        BY <1>3, <1>6, <2>2 DEF Live
      <3> QED BY <1>0, <3>3, <3>4
    <2>3. CASE n # c.note /\ n # c.copy
      <3>1. u.rows[n] = t[n]
        BY <1>1, <1>5, <2>3
      <3> QED BY <1>8, <3>1
    <2>4. CASE n # c.note /\ n = c.copy
      <3>1. row.deleted
        BY <1>8, <2>1, <2>4 DEF Live, t
      <3>2. v.rows[n] = t[n]
        BY <1>1, <2>4, <3>1
      <3>3. u.rows[n] = Own(t[n])
        BY <1>5, <2>1, <2>4, <3>2
      <3>4. Live(Own(t[n])) /\ Own(t[n]).text.body = t[n].text.body
        BY <1>6, <1>8, <2>1 DEF Live
      <3> QED BY <3>3, <3>4
    <2> QED BY <2>2, <2>3, <2>4
  <1>9. Carried(w, sp, t, u.rows)
    BY <1>8 DEF Carried
  <1> QED BY <1>2, <1>5, <1>7, <1>9 DEF u, v

\* A batch's change, on a store that takes it.
LEMMA AppliedFine ==
  ASSUME NEW w, RemoteTrue(w), NEW sp, NEW st, StoreTrue(w, st), TableFine(w, sp, st.rows),
         OpsFine(st.ops), NEW s, NEW c, ChangeTrue(w, c), Fits(w, sp, c), Takes(st, c),
         Binds(c) => BasedOn(sp, st.rows[c.note].text, c.synced)
  PROVE  LET u == Applied1(st, s, c)
         IN  TableFine(w, sp, u.rows) /\ OpsFine(u.ops) /\ Carried(w, sp, st.rows, u.rows)
  <1>1. CASE c.kind = "conflict"
    <2>1. Applied1(st, s, c) = WithOwnId(Conflict(st, s, c), c)
      BY <1>1 DEF Applied1, ApplyChange
    <2>2. st.rows[c.note] # NoRow /\ (Live(st.rows[c.note]) => st.rows[c.copy] = NoRow)
      BY <1>1 DEF Takes
    <2> QED BY <1>1, <2>1, <2>2, ConflictFine
  <1>2. CASE c.kind # "conflict"
    <2> DEFINE t == st.rows  u == ApplyChange(st, s, c)
    <2>1. Applied1(st, s, c) = u /\ c.kind \in Kinds /\ Shaped(st) /\ OpsTrue(st.ops)
      BY <1>2, TrueShaped DEF Applied1, Kinds, ChangeTrue, StoreTrue
    <2>2. Shaped(u) /\ \A n \in NoteIds : u.rows[n] = IF n = c.note THEN NewRow(t[n], c) ELSE t[n]
      BY <1>2, <2>1, SimpleRows
    <2>3. OpsFine(u.ops)
      BY <1>2, <2>1, SimpleOpsFine
    <2> HIDE DEF u, t
    <2>4. \A n \in NoteIds : t[n] = NoRow \/ RowFine(w, sp, t[n])
      BY DEF TableFine, t
    <2>5. Binds(c) => t[c.note] # NoRow /\ BasedOn(sp, t[c.note].text, c.synced)
      BY DEF Takes, Binds, t
    <2>6. TableFine(w, sp, u.rows)
      <3>1. ASSUME NEW n \in NoteIds PROVE u.rows[n] = NoRow \/ RowFine(w, sp, u.rows[n])
        <4>1. CASE n = c.note
          <5> DEFINE r == t[n]
          <5>1. /\ r = NoRow \/ RowFine(w, sp, r)
                /\ Binds(c) => r # NoRow /\ BasedOn(sp, r.text, c.synced)
            BY <2>4, <2>5, <4>1
          <5> HIDE DEF r
          <5>2. NewRow(r, c) = NoRow \/ RowFine(w, sp, NewRow(r, c))
            BY <5>1, NewRowFine
          <5> QED BY <2>2, <4>1, <5>2 DEF r
        <4>2. CASE n # c.note
          BY <2>2, <2>4, <4>2
        <4> QED BY <4>1, <4>2
      <3> QED BY <3>1 DEF TableFine
    <2>7. Carried(w, sp, t, u.rows)
      <3>1. ASSUME NEW n \in NoteIds, Live(t[n])
            PROVE  Safe(w, sp, t[n].text.body) \/ (Live(u.rows[n]) /\ u.rows[n].text.body = t[n].text.body)
        <4>1. RowFine(w, sp, t[n]) /\ t[n] # NoRow /\ t[n] \in NoteRows
          BY <2>4, <3>1 DEF Live, RowFine
        <4>2. CASE n # c.note
          BY <2>2, <3>1, <4>2
        <4>3. CASE n = c.note /\ c.kind \in {"upsert", "delete"}
          <5>1. ~Unsent(t[n])
            BY <4>3 DEF Takes, t
          <5> QED BY <3>1, <4>1, <5>1 DEF Unsent, RowFine
        <4>4. CASE n = c.note /\ c.kind \notin {"upsert", "delete"}
          <5> DEFINE r == t[n]  x == NewRow(r, c)
          <5>1. ~Puts(c) /\ c.kind # "delete" /\ r \in NoteRows /\ r # NoRow
            BY <1>2, <4>1, <4>4 DEF Puts
          <5> HIDE DEF r
          <5>2. x # NoRow /\ x.text = r.text /\ x.deleted = r.deleted
            BY <5>1, NewRowIs
          <5>3. u.rows[n] = x
            BY <2>2, <4>4 DEF r
          <5> HIDE DEF x
          <5> QED BY <3>1, <5>2, <5>3 DEF Live, r
        <4> QED BY <4>2, <4>3, <4>4
      <3> QED BY <3>1, CarriedPut
    <2> QED BY <2>1, <2>3, <2>6, <2>7 DEF u, t
  <1> QED BY <1>1, <1>2

\* A batch taken whole.
LEMMA BatchFine ==
  ASSUME NEW w, RemoteTrue(w), NEW sp, NEW st, StoreTrue(w, st), TableFine(w, sp, st.rows),
         OpsFine(st.ops), NEW s, NEW q, ChangesTrue(w, q), ChangesFine(w, sp, st.rows, q)
  PROVE  LET done == AppliedAll(st, s, q)
         IN  done.ok =>
               TableFine(w, sp, done.st.rows) /\ OpsFine(done.st.ops) /\ Carried(w, sp, st.rows, done.st.rows)
  <1>0. IsSeq(q) /\ DOMAIN q = 1..Len(q) /\ Len(q) \in Nat
    BY SeqIs DEF ChangesTrue
  <1>1. PICK g : /\ g[0] = [st |-> st, next |-> s, ok |-> TRUE]
                 /\ \A i \in 1..Len(q) : g[i] = TakesNext(g[i - 1], q[i])
                 /\ AppliedAll(st, s, q) = g[Len(q)]
    <2>1. IsSeq(q)
      BY <1>0
    <2> QED BY <2>1, BatchSteps
  <1> DEFINE N == Len(q)  t == st.rows
             Untouched(n, i) == t[n] # NoRow /\ \A j \in 1..i : ~(Puts(q[j]) /\ q[j].note = n)
             Same(u, i) == \A n \in NoteIds : Untouched(n, i) => u[n] = NoRow \/ u[n].text.body = t[n].text.body
             Kind(x, i) == /\ StoreTrue(w, x) /\ TableFine(w, sp, x.rows) /\ OpsFine(x.ops)
                           /\ Carried(w, sp, t, x.rows) /\ Same(x.rows, i)
             Fine(a, i) == a = [st |-> a.st, next |-> a.next, ok |-> a.ok] /\ (a.ok => Kind(a.st, i))
             In == {i \in 0..N : Fine(g[i], i)}
  <1>2. 0 \in In
    <2>1. Kind(st, 0)
      BY CarriedSame
    <2> HIDE DEF Kind
    <2>2. Fine([st |-> st, next |-> s, ok |-> TRUE], 0)
      BY <2>1
    <2> HIDE DEF Fine
    <2> QED BY <2>2, <1>0, <1>1
  <1>3. ASSUME NEW i \in 1..N, i - 1 \in In PROVE i \in In
    <2> DEFINE a == g[i - 1]  c == q[i]  x == a.st  y == Applied1(x, a.next, c)
    <2>1. Fine(a, i - 1) /\ g[i] = TakesNext(a, c) /\ i \in DOMAIN q /\ i \in 0..N /\ i \in Nat
      <3> HIDE DEF Fine
      <3> QED BY <1>0, <1>1, <1>3
    <2>2. ChangeTrue(w, c) /\ ChangeFine(w, sp, t, c)
      BY <2>1 DEF ChangesTrue, ChangesFine
    <2>3. /\ c.kind \in Kinds /\ (c.kind = "conflict" => c.copy \in NoteIds /\ t[c.copy] = NoRow)
          /\ Fits(w, sp, c)
      BY <2>2, FineFits DEF ChangeTrue, ChangeFine
    <2>4. Binds(c) => Untouched(c.note, i - 1)
      <3>1. ASSUME Binds(c), NEW j \in 1..(i - 1), Puts(q[j]), q[j].note = c.note PROVE FALSE
        <4>1. j \in DOMAIN q /\ j < i
          BY <1>0, <2>1
        <4> QED BY <2>1, <3>1, <4>1 DEF ChangesFine, Orderly
      <3>2. Binds(c) => t[c.note] # NoRow
        BY <2>2 DEF ChangeFine
      <3> QED BY <3>1, <3>2
    <2>5. \A n \in NoteIds : Untouched(n, i) => Untouched(n, i - 1) /\ ~(Puts(c) /\ c.note = n)
      BY <2>1
    <2> HIDE DEF c, Untouched
    <2>6. CASE a.ok /\ Takes(x, c)
      <3>1. Kind(x, i - 1)
        BY <2>1, <2>6
      <3> HIDE DEF a, x
      <3>2. Binds(c) => x.rows[c.note] # NoRow /\ BasedOn(sp, x.rows[c.note].text, c.synced)
        <4>1. Binds(c) => x.rows[c.note] # NoRow
          BY <2>6 DEF Takes, Binds
        <4>2. Binds(c) => c.note \in NoteIds /\ BasedOn(sp, t[c.note].text, c.synced)
          BY <2>2 DEF ChangeFine
        <4>3. Binds(c) => x.rows[c.note].text.body = t[c.note].text.body
          BY <2>4, <3>1, <4>1, <4>2
        <4> QED BY <4>1, <4>2, <4>3 DEF BasedOn
      <3>3. TableFine(w, sp, y.rows) /\ OpsFine(y.ops) /\ Carried(w, sp, x.rows, y.rows)
        BY <2>2, <2>3, <2>6, <3>1, <3>2, AppliedFine
      <3>4. StoreTrue(w, y)
        BY <2>2, <2>6, <3>1, AppliedTrue
      <3>5. Carried(w, sp, t, y.rows)
        BY <3>1, <3>3, CarriedOn
      <3>6. Shaped(x)
        BY <3>1, TrueShaped
      <3>7. \A n \in NoteIds : (c.kind = "conflict" => n # c.copy) =>
              y.rows[n] = IF n = c.note THEN NewRow(x.rows[n], c) ELSE x.rows[n]
        BY <2>3, <3>6, AppliedRow
      <3> HIDE DEF y
      <3>8. Same(y.rows, i)
        <4>1. ASSUME NEW n \in NoteIds, Untouched(n, i)
              PROVE  y.rows[n] = NoRow \/ y.rows[n].text.body = t[n].text.body
          <5>1. Untouched(n, i - 1) /\ ~(Puts(c) /\ c.note = n) /\ t[n] # NoRow
            BY <2>5, <4>1 DEF Untouched
          <5>2. /\ y.rows[n] = IF n = c.note THEN NewRow(x.rows[n], c) ELSE x.rows[n]
                /\ x.rows[n] = NoRow \/ x.rows[n].text.body = t[n].text.body
            BY <2>3, <3>1, <3>7, <5>1
          <5>3. CASE n = c.note
            <6> DEFINE r == x.rows[n]  z == NewRow(r, c)
            <6>1. r = NoRow \/ r \in NoteRows
              BY <3>1 DEF TableFine, RowFine
            <6>2. Binds(c) => r # NoRow
              BY <3>2, <5>3
            <6> HIDE DEF r
            <6>3. z # NoRow => r # NoRow /\ z.text = r.text
              BY <2>2, <2>3, <5>1, <5>3, <6>1, <6>2, NewRowIs
            <6>4. y.rows[n] = z
              BY <5>2, <5>3 DEF r
            <6> HIDE DEF z
            <6> QED BY <5>2, <6>3, <6>4 DEF r
          <5>4. CASE n # c.note
            BY <5>2, <5>4
          <5> QED BY <5>3, <5>4
        <4> QED BY <4>1
      <3>9. Kind(y, i)
        BY <3>3, <3>4, <3>5, <3>8
      <3> HIDE DEF Kind
      <3>10. g[i] = [st |-> y, next |-> NextSeq(y.ops, a.next), ok |-> TRUE]
        BY <2>1, <2>6 DEF TakesNext, y, x
      <3>11. Fine(g[i], i)
        BY <3>9, <3>10
      <3> HIDE DEF Fine
      <3> QED BY <2>1, <3>11
    <2>7. CASE ~(a.ok /\ Takes(x, c))
      <3>1. TakesNext(a, c) = [a EXCEPT !.ok = FALSE]
        BY <2>7 DEF TakesNext
      <3> DEFINE b == [a EXCEPT !.ok = FALSE]
      <3>2. b \in [st : {a.st}, next : {a.next}, ok : {FALSE}]
        <4>1. a \in [st : {a.st}, next : {a.next}, ok : {a.ok}]
          BY <2>1
        <4> QED BY <4>1
      <3> HIDE DEF b, Kind
      <3>3. Fine(b, i)
        BY <3>2
      <3> HIDE DEF Fine
      <3> QED BY <2>1, <3>1, <3>3 DEF b
    <2> QED BY <2>6, <2>7
  <1>4. N \in In
    <2> HIDE DEF In
    <2>1. \A i \in 0..N : i \in In
      BY <1>0, <1>2, <1>3, Steps
    <2> QED BY <2>1, <1>0
  <1>5. Fine(g[N], N)
    <2> HIDE DEF Fine
    <2> QED BY <1>4
  <1> QED BY <1>1, <1>5

-----------------------------------------------------------------------------
(* What is decided of an entry.                                              *)

LEMMA UpsertHas ==
  ASSUME NEW n, NEW e, NEW text
  PROVE  LET c == UpsertOf(n, e, text)
         IN  c.kind = "upsert" /\ c.note = n /\ c.path = e.path /\ c.text = text /\ c.file = FileOf(e)
  BY DEF UpsertOf, Change

LEMMA AdoptHas ==
  ASSUME NEW n, NEW e, NEW synced
  PROVE  /\ LET c == AdoptOf(n, e, synced) IN c.kind = "adopt" /\ c.note = n /\ c.synced = synced
         /\ LET c == MoveOf(n, e, synced)
            IN  c.kind = "move" /\ c.note = n /\ c.path = e.path /\ c.synced = synced
  <1> DEFINE c == AdoptOf(n, e, synced)  d == MoveOf(n, e, synced)
             Fields == {"kind", "note", "path", "text", "file", "synced", "copy", "copyPath"}
  <1>1. c.kind = "adopt" /\ c.note = n /\ c.path = e.path /\ c.synced = synced /\ DOMAIN c = Fields
    BY DEF AdoptOf, Change
  <1>2. d = [c EXCEPT !.kind = "move"]
    BY DEF MoveOf
  <1> HIDE DEF c, d
  <1>3. d.kind = "move" /\ d.note = n /\ d.path = e.path /\ d.synced = synced
    BY <1>1, <1>2
  <1> QED BY <1>1, <1>3 DEF c, d

LEMMA ConflictHas ==
  ASSUME NEW n, NEW e, NEW text, NEW copy, NEW p
  PROVE  LET c == ConflictOf(n, e, text, copy, p)
         IN  /\ c.kind = "conflict" /\ c.note = n /\ c.path = e.path /\ c.text = text
             /\ c.copy = copy /\ c.copyPath = p /\ c.file = FileOf(e)
  <1> DEFINE c == UpsertOf(n, e, text)  d == ConflictOf(n, e, text, copy, p)
             Fields == {"kind", "note", "path", "text", "file", "synced", "copy", "copyPath"}
  <1>1. c.note = n /\ c.path = e.path /\ c.text = text /\ c.file = FileOf(e) /\ DOMAIN c = Fields
    BY DEF UpsertOf, Change
  <1>2. d = [c EXCEPT !.kind = "conflict", !.copy = copy, !.copyPath = p]
    BY DEF ConflictOf
  <1> HIDE DEF c, d
  <1>3. /\ d.kind = "conflict" /\ d.note = n /\ d.path = e.path /\ d.text = text
        /\ d.copy = copy /\ d.copyPath = p /\ d.file = FileOf(e)
    BY <1>1, <1>2
  <1> QED BY <1>3 DEF d

\* An entry of the batch that comes after e.
Behind(b, e, x) ==
  ~x.gone => x \in LiveIn(b) /\ x.id # e.id /\ (~e.gone => x.path # e.path)

\* A change decided after those of q, with the entries of R still to decide.
Good(w, sp, t, q, R, c) ==
  /\ ChangeFine(w, sp, t, c)
  /\ Binds(c) => \A j \in DOMAIN q : Puts(q[j]) => q[j].note # c.note
  /\ \A x \in R : Leaves(t, x, c)
AllGood(w, sp, t, q, R, new) ==
  /\ \A i \in DOMAIN new : Good(w, sp, t, q, R, new[i])
  /\ \A i, j \in DOMAIN new : Puts(new[i]) => ~Binds(new[j])
LeftAlone(t, q, R) == \A i \in DOMAIN q : \A x \in R : Leaves(t, x, q[i])

LEMMA ConcatAt ==
  ASSUME NEW p, NEW q, IsSeq(p), IsSeq(q)
  PROVE  /\ Len(p) \in Nat /\ DOMAIN p = 1..Len(p)
         /\ \A i \in DOMAIN (p \o q) :
              \/ i \in DOMAIN p /\ (p \o q)[i] = p[i]
              \/ i - Len(p) \in DOMAIN q /\ (p \o q)[i] = q[i - Len(p)] /\ i > Len(p)
         /\ DOMAIN (p \o q) \subseteq Nat
  <1> DEFINE S == {p[i] : i \in DOMAIN p} \cup {q[i] : i \in DOMAIN q}
  <1>1. p \in Seq(S) /\ q \in Seq(S)
    <2>1. p \in Seq({p[i] : i \in DOMAIN p}) /\ q \in Seq({q[i] : i \in DOMAIN q})
      BY DEF IsSeq
    <2> QED BY <2>1, SeqMonotonic
  <1> HIDE DEF S
  <1>2. /\ Len(p) \in Nat /\ DOMAIN p = 1..Len(p)
        /\ Len(q) \in Nat /\ DOMAIN q = 1..Len(q)
    BY SeqIs
  <1>3. /\ p \o q \in Seq(S) /\ Len(p \o q) = Len(p) + Len(q)
        /\ \A i \in 1..(Len(p) + Len(q)) :
             (p \o q)[i] = IF i <= Len(p) THEN p[i] ELSE q[i - Len(p)]
    BY <1>1, ConcatProperties
  <1> DEFINE r == p \o q
  <1> HIDE DEF r
  <1>4. DOMAIN r = 1..(Len(p) + Len(q))
    <2>1. r \in Seq(S) /\ Len(r) = Len(p) + Len(q)
      BY <1>3 DEF r
    <2> QED BY <2>1
  <1>5. \A i \in 1..(Len(p) + Len(q)) : r[i] = IF i <= Len(p) THEN p[i] ELSE q[i - Len(p)]
    BY <1>3 DEF r
  <1>6. ASSUME NEW i \in DOMAIN r
        PROVE  \/ i \in DOMAIN p /\ r[i] = p[i]
               \/ i - Len(p) \in DOMAIN q /\ r[i] = q[i - Len(p)] /\ i > Len(p)
    BY <1>2, <1>4, <1>5
  <1>7. DOMAIN r \subseteq Nat
    BY <1>2, <1>4
  <1> QED BY <1>2, <1>6, <1>7 DEF r

LEMMA Extend ==
  ASSUME NEW w, NEW sp, NEW t, NEW q, IsSeq(q), NEW new, IsSeq(new), NEW R,
         ChangesFine(w, sp, t, q), LeftAlone(t, q, R), AllGood(w, sp, t, q, R, new)
  PROVE  ChangesFine(w, sp, t, q \o new) /\ LeftAlone(t, q \o new, R)
  <1> DEFINE r == q \o new
  <1>1. /\ Len(q) \in Nat /\ DOMAIN q = 1..Len(q)
        /\ \A i \in DOMAIN r :
              \/ i \in DOMAIN q /\ r[i] = q[i]
              \/ i - Len(q) \in DOMAIN new /\ r[i] = new[i - Len(q)] /\ i > Len(q)
        /\ DOMAIN r \subseteq Nat
    BY ConcatAt
  <1> HIDE DEF r
  <1>2. ASSUME NEW i \in DOMAIN r
        PROVE  ChangeFine(w, sp, t, r[i]) /\ \A x \in R : Leaves(t, x, r[i])
    BY <1>1 DEF ChangesFine, LeftAlone, AllGood, Good
  <1>3. ASSUME NEW i \in DOMAIN r, NEW j \in DOMAIN r, i < j, Puts(r[i]), Binds(r[j])
        PROVE  r[i].note # r[j].note
    <2>1. CASE j \in DOMAIN q /\ r[j] = q[j]
      <3>1. i \in DOMAIN q /\ r[i] = q[i]
        BY <1>1, <1>3, <2>1
      <3> QED BY <2>1, <3>1, <1>3 DEF ChangesFine, Orderly
    <2>2. CASE j - Len(q) \in DOMAIN new /\ r[j] = new[j - Len(q)]
      <3>1. CASE i \in DOMAIN q /\ r[i] = q[i]
        BY <3>1, <2>2, <1>3 DEF AllGood, Good
      <3>2. CASE i - Len(q) \in DOMAIN new /\ r[i] = new[i - Len(q)]
        BY <3>2, <2>2, <1>3 DEF AllGood
      <3> QED BY <3>1, <3>2, <1>1
    <2> QED BY <2>1, <2>2, <1>1
  <1>4. ChangesFine(w, sp, t, r)
    BY <1>2, <1>3 DEF ChangesFine, Orderly
  <1>5. LeftAlone(t, r, R)
    BY <1>2 DEF LeftAlone
  <1> QED BY <1>4, <1>5 DEF r

\* Notes moved aside, and one change behind them.
LEMMA GoodAppend ==
  ASSUME NEW w, NEW sp, NEW t, NEW q, NEW R, NEW room, IsSeq(room),
         \A i \in DOMAIN room : room[i].kind = "displace" /\ Good(w, sp, t, q, R, room[i]),
         NEW c, Good(w, sp, t, q, R, c)
  PROVE  AllGood(w, sp, t, q, R, room) /\ AllGood(w, sp, t, q, R, Append(room, c))
  <1> DEFINE r == Append(room, c)
  <1>1. /\ DOMAIN r = 1..(Len(room) + 1) /\ DOMAIN room = 1..Len(room) /\ Len(room) \in Nat
        /\ \A i \in DOMAIN room : r[i] = room[i]
        /\ r[Len(room) + 1] = c
    BY AppendIs, SeqIs
  <1> HIDE DEF r
  <1>2. \A i \in DOMAIN r : r[i] = c \/ (i \in DOMAIN room /\ r[i] = room[i])
    BY <1>1
  <1>3. \A i \in DOMAIN r : Good(w, sp, t, q, R, r[i]) /\ (r[i] = c \/ r[i].kind = "displace")
    BY <1>2
  <1>4. \A x : x.kind = "displace" => ~Puts(x) /\ ~Binds(x)
    BY DEF Puts, Binds
  <1>5. Puts(c) => ~Binds(c)
    BY DEF Puts, Binds
  <1>6. AllGood(w, sp, t, q, R, r)
    BY <1>3, <1>4, <1>5 DEF AllGood
  <1>7. AllGood(w, sp, t, q, R, room)
    BY <1>4 DEF AllGood
  <1> QED BY <1>6, <1>7 DEF r

LEMMA GoodOne ==
  ASSUME NEW w, NEW sp, NEW t, NEW q, NEW R
  PROVE  /\ AllGood(w, sp, t, q, R, <<>>)
         /\ \A c : Good(w, sp, t, q, R, c) => AllGood(w, sp, t, q, R, <<c>>)
  <1>1. AllGood(w, sp, t, q, R, <<>>)
    BY Empty DEF AllGood
  <1>2. ASSUME NEW c, Good(w, sp, t, q, R, c) PROVE AllGood(w, sp, t, q, R, <<c>>)
    <2>1. AllGood(w, sp, t, q, R, Append(<<>>, c))
      <3>1. IsSeq(<<>>) /\ \A i \in DOMAIN <<>> : <<>>[i].kind = "displace" /\ Good(w, sp, t, q, R, <<>>[i])
        BY Empty
      <3> DEFINE z == <<>>
      <3> HIDE DEF z
      <3>2. IsSeq(z) /\ \A i \in DOMAIN z : z[i].kind = "displace" /\ Good(w, sp, t, q, R, z[i])
        BY <3>1 DEF z
      <3>3. AllGood(w, sp, t, q, R, Append(z, c))
        BY <3>2, <1>2, GoodAppend
      <3> QED BY <3>3 DEF z
    <2>2. Append(<<>>, c) = <<c>>
      OBVIOUS
    <2> QED BY <2>1, <2>2
  <1> QED BY <1>1, <1>2

LEMMA RoomGood ==
  ASSUME NEW w, NEW sp, NEW t, NEW b, IsFiniteSet(ClaimedPaths(b)), NEW q, IsSeq(q), NEW after,
         NEW e, e.path \in Paths, NEW R, \A x \in R : Behind(b, e, x), NEW keeper
  PROVE  LET room == DisplaceOccupants(b, after, q, e.path, keeper)
         IN  IsSeq(room) /\ \A i \in DOMAIN room : room[i].kind = "displace" /\ Good(w, sp, t, q, R, room[i])
  <1> DEFINE room == DisplaceOccupants(b, after, q, e.path, keeper)
  <1>1. IsSeq(room) /\ \A i \in DOMAIN room : Aside(b, after, q, e.path, room[i])
    BY DisplaceIs
  <1> HIDE DEF room
  <1>2. ASSUME NEW i \in DOMAIN room PROVE room[i].kind = "displace" /\ Good(w, sp, t, q, R, room[i])
    <2> DEFINE c == room[i]
    <2> HIDE DEF c
    <2>1. c.kind = "displace" /\ c.path \in Paths /\ c.path \notin ClaimedPaths(b)
      BY <1>1, AsideFine DEF c
    <2>2. ChangeFine(w, sp, t, c)
      BY <2>1 DEF ChangeFine, Puts, Binds
    <2>3. ASSUME NEW x \in R PROVE Leaves(t, x, c)
      <3>1. ~x.gone => x.path \in ClaimedPaths(b)
        BY DEF Behind, ClaimedPaths
      <3> QED BY <3>1, <2>1 DEF Leaves, Puts
    <2> QED BY <2>1, <2>2, <2>3 DEF Good, Binds, c
  <1> QED BY <1>1, <1>2 DEF room

\* A change that binds a note nothing decided gave a text.
LEMMA BindGood ==
  ASSUME NEW w, NEW sp, NEW t, NEW b, NEW q, NEW e, NEW R, \A x \in R : Behind(b, e, x), ~e.gone,
         e.path \in Paths, NEW n \in NoteIds, t[n] # NoRow,
         \A j \in DOMAIN q : Puts(q[j]) => q[j].note # n,
         NEW synced \in Texts, BasedOn(sp, t[n].text, synced)
  PROVE  Good(w, sp, t, q, R, AdoptOf(n, e, synced)) /\ Good(w, sp, t, q, R, MoveOf(n, e, synced))
  <1> DEFINE c == AdoptOf(n, e, synced)  d == MoveOf(n, e, synced)
  <1>1. /\ c.kind = "adopt" /\ c.note = n /\ c.synced = synced
        /\ d.kind = "move" /\ d.note = n /\ d.path = e.path /\ d.synced = synced
    BY AdoptHas
  <1> HIDE DEF c, d
  <1>2. Good(w, sp, t, q, R, c)
    <2>1. ChangeFine(w, sp, t, c)
      BY <1>1 DEF ChangeFine, Puts, Binds
    <2>2. \A x \in R : Leaves(t, x, c)
      BY <1>1 DEF Leaves, Places, Puts
    <2> QED BY <1>1, <2>1, <2>2 DEF Good
  <1>3. Good(w, sp, t, q, R, d)
    <2>1. ChangeFine(w, sp, t, d)
      BY <1>1 DEF ChangeFine, Puts, Binds
    <2>2. \A x \in R : Leaves(t, x, d)
      BY <1>1 DEF Leaves, Places, Puts, Behind
    <2> QED BY <1>1, <2>1, <2>2 DEF Good
  <1> QED BY <1>2, <1>3 DEF c, d

\* One that gives a note the text of a file, where no entry to come is bound to it.
LEMMA PutGood ==
  ASSUME NEW w, NEW sp, NEW t, NEW b, NEW q, NEW e, NEW R, \A x \in R : Behind(b, e, x), ~e.gone,
         e.path \in Paths, NEW n \in NoteIds, \A x \in R : ~x.gone => ~Bound(t[n], x.id),
         NEW text \in Texts, Safe(w, sp, text.body)
  PROVE  /\ Good(w, sp, t, q, R, UpsertOf(n, e, text))
         /\ \A copy, p : t[n] # NoRow /\ t[copy] = NoRow /\ p \in Paths =>
              Good(w, sp, t, q, R, ConflictOf(n, e, text, copy, p))
  <1>1. ASSUME NEW c, Puts(c), c.note = n, c.path = e.path, c.text = text,
               c.kind = "conflict" => c.copyPath \in Paths /\ t[c.copy] = NoRow /\ t[c.note] # NoRow
        PROVE  Good(w, sp, t, q, R, c)
    <2>1. ~Binds(c) /\ c.kind \notin {"move", "displace"}
      BY <1>1 DEF Puts, Binds
    <2>2. ChangeFine(w, sp, t, c)
      BY <1>1, <2>1 DEF ChangeFine
    <2>3. \A x \in R : Leaves(t, x, c)
      BY <1>1 DEF Leaves, Behind
    <2> QED BY <2>1, <2>2, <2>3 DEF Good
  <1>2. Good(w, sp, t, q, R, UpsertOf(n, e, text))
    <2> DEFINE c == UpsertOf(n, e, text)
    <2>1. c.kind = "upsert" /\ c.note = n /\ c.path = e.path /\ c.text = text
      BY UpsertHas
    <2> HIDE DEF c
    <2>2. Good(w, sp, t, q, R, c)
      BY <1>1, <2>1 DEF Puts
    <2> QED BY <2>2 DEF c
  <1>3. ASSUME NEW copy, NEW p, t[n] # NoRow, t[copy] = NoRow, p \in Paths
        PROVE  Good(w, sp, t, q, R, ConflictOf(n, e, text, copy, p))
    <2> DEFINE c == ConflictOf(n, e, text, copy, p)
    <2>1. /\ c.kind = "conflict" /\ c.note = n /\ c.path = e.path /\ c.text = text
          /\ c.copy = copy /\ c.copyPath = p
      BY ConflictHas
    <2> HIDE DEF c
    <2>2. Good(w, sp, t, q, R, c)
      BY <1>1, <1>3, <2>1 DEF Puts
    <2> QED BY <2>2 DEF c
  <1> QED BY <1>2, <1>3

LEMMA ForgetGood ==
  ASSUME NEW w, NEW sp, NEW t, NEW b, NEW q, NEW e, NEW R, \A x \in R : Behind(b, e, x),
         NEW n, Bound(t[n], e.id)
  PROVE  Good(w, sp, t, q, R, ForgetNote(t, n))
  <1> DEFINE c == ForgetNote(t, n)
  <1>1. c.kind \in {"delete", "detach"} /\ c.note = n
    <2>1. \A k : Change(k, n).kind = k /\ Change(k, n).note = n
      BY DEF Change
    <2> QED BY <2>1 DEF ForgetNote
  <1> HIDE DEF c
  <1>2. ~Puts(c) /\ ~Binds(c) /\ ~Places(c) /\ c.kind \notin {"conflict", "move", "displace"}
    BY <1>1 DEF Puts, Binds, Places
  <1>3. ChangeFine(w, sp, t, c)
    BY <1>2 DEF ChangeFine
  <1>4. \A x \in R : Leaves(t, x, c)
    BY <1>1, <1>2 DEF Leaves, Behind, Bound
  <1>5. Good(w, sp, t, q, R, c)
    BY <1>2, <1>3, <1>4 DEF Good
  <1> QED BY <1>5 DEF c

\* The note an entry is about is bound to it, or to no file the batch has.  And
\* nothing decided gives it a text, unless it has been let go of.
LEMMA NoteSituation ==
  ASSUME NEW w, RemoteTrue(w), NEW sp, NEW t, TableTrue(w, t), NEW q, ChangesTrue(w, q),
         ChangesFine(w, sp, t, q), NEW b, NEW e, ~e.gone, \A i \in DOMAIN q : Leaves(t, e, q[i]),
         NEW R, \A x \in R : Behind(b, e, x),
         NEW n, n = NoteForEntry(b, t, After(t, q), w, e), n # NoNote
  PROVE  /\ n \in NoteIds /\ t[n] # NoRow
         /\ \A x \in R : ~x.gone => ~Bound(t[n], x.id)
         /\ After(t, q)[n] # NoRow => \A j \in DOMAIN q : Puts(q[j]) => q[j].note # n
  <1> DEFINE after == After(t, q)
  <1>1. n \in NoteIds /\ t[n] # NoRow
    BY NoteHasRow
  <1>2. Bound(t[n], e.id) \/ MayClaim(b, t, after, w, e, n)
    <2> DEFINE byId == HoldersOf(t, e.id)
    <2>1. byId # {} => (CHOOSE m \in byId : TRUE) \in byId
      OBVIOUS
    <2>2. \A m \in byId : Bound(t[m], e.id)
      BY DEF HoldersOf
    <2> HIDE DEF byId, after
    <2>3. \/ byId # {} /\ n = (CHOOSE m \in byId : TRUE)
          \/ MayClaim(b, t, after, w, e, n)
      BY DEF NoteForEntry, byId, after
    <2> QED BY <2>1, <2>2, <2>3
  <1> HIDE DEF after
  <1>3. ASSUME NEW x \in R, ~x.gone PROVE ~Bound(t[n], x.id)
    <2>1. x \in LiveIn(b) /\ x.id # e.id
      BY <1>3 DEF Behind
    <2> QED BY <1>2, <2>1 DEF MayClaim, Bound
  <1>4. ASSUME after[n] # NoRow, NEW j \in DOMAIN q, Puts(q[j]), q[j].note = n PROVE FALSE
    <2>1. ~Bound(t[n], e.id)
      BY <1>1, <1>4 DEF Leaves
    <2>2. after[n].path \in {NoPath, e.path}
      BY <2>1, <1>2, <1>4 DEF MayClaim
    <2>3. PICK i \in DOMAIN q : Places(q[i]) /\ after[n].path = q[i].path
      BY <1>1, <1>4, AfterPath DEF after
    <2>4. q[i].path # e.path
      BY <2>3 DEF Leaves
    <2>5. q[i].path \in Paths
      BY <2>3 DEF ChangesFine, ChangeFine, Places
    <2> QED BY <2>2, <2>3, <2>4, <2>5, MarkersAssumption
  <1> QED BY <1>1, <1>3, <1>4 DEF after

\* The id a new note is given is not that of a note an entry to come is about.
LEMMA IdNew ==
  ASSUME NEW w, RemoteTrue(w), NEW sp, NEW t, TableTrue(w, t), TableFine(w, sp, t),
         NEW q, ChangesTrue(w, q), ChangesFine(w, sp, t, q),
         NEW b, NEW R, LeftAlone(t, q, R), NEW text \in Texts, NEW fresh \in NoteIds, t[fresh] = NoRow
  PROVE  LET n == IdForNewNote(b, t, After(t, q), q, text, fresh)
         IN  n \in NoteIds /\ \A x \in R : ~x.gone => ~Bound(t[n], x.id)
  <1> DEFINE n == IdForNewNote(b, t, After(t, q), q, text, fresh)
  <1>1. n = fresh \/ (n = text.id /\ (t[n] = NoRow \/ After(t, q)[n] = NoRow))
    BY DEF IdForNewNote
  <1>2. text.id \in NoteIds
    BY DEF Texts
  <1> HIDE DEF n
  <1>3. n \in NoteIds
    BY <1>1, <1>2
  <1>4. ASSUME NEW x \in R, ~x.gone, Bound(t[n], x.id) PROVE FALSE
    <2>1. t[n] # NoRow
      BY <1>4 DEF Bound
    <2>2. After(t, q)[n] = NoRow
      BY <1>1, <2>1
    <2>3. t[n] \in NoteRows
      BY <1>3, <2>1 DEF TableFine, RowFine
    <2>4. PICK i \in DOMAIN q : q[i].kind = "delete" /\ q[i].note = n
      BY <1>3, <2>2, <2>3, AfterGone, MarkersAssumption
    <2> QED BY <2>4, <1>3, <1>4 DEF LeftAlone, Leaves
  <1> QED BY <1>3, <1>4 DEF n

\* The file an entry tells of, if it is still there.
LEMMA FoundIs ==
  ASSUME NEW w, RemoteTrue(w), RemoteFine(w), NEW sp, NEW e, EntryTrue(w, e), ~e.gone, w[e.id] # Gone
  PROVE  w[e.id].text \in Texts /\ Safe(w, sp, w[e.id].text.body)
  <1>1. e.id \in DOMAIN w
    BY DEF EntryTrue, Known, FileOf
  <1>2. w[e.id] \in RemoteFiles
    BY <1>1 DEF RemoteFine
  <1> QED BY <1>1, <1>2 DEF Safe, RemoteFiles

LEMMA KnownGood ==
  ASSUME NEW w, RemoteTrue(w), RemoteFine(w), NEW sp, NEW t, TableFine(w, sp, t), NEW b,
         IsFiniteSet(ClaimedPaths(b)), NEW q, NEW e, EntryTrue(w, e), ~e.gone, e.path \in Paths,
         w[e.id] # Gone, NEW R, \A x \in R : Behind(b, e, x), NEW n \in NoteIds, t[n] # NoRow,
         \A x \in R : ~x.gone => ~Bound(t[n], x.id), \A j \in DOMAIN q : Puts(q[j]) => q[j].note # n,
         NEW fresh, t[fresh] = NoRow, NEW after, NEW r, IsSeq(r)
  PROVE  Good(w, sp, t, q, R, DecideKnown(b, t, after, r, e, n, w[e.id], fresh))
  <1> DEFINE text == w[e.id].text  row == t[n]
             p == ConflictPath(e.path, TakenIn(b, after, r))
             same == \/ text = row.text
                     \/ Unsent(row) /\ w[e.id].version = e.version /\ row.synced = text
  <1>1. text \in Texts /\ Safe(w, sp, text.body)
    BY FoundIs
  <1>2. RowFine(w, sp, row)
    BY DEF TableFine
  <1> HIDE DEF text
  <1>3. ASSUME same PROVE Good(w, sp, t, q, R, Unchanged(b, after, e, n, text))
    <2>1. BasedOn(sp, row.text, text)
      BY <1>1, <1>2, <1>3, MarkersAssumption DEF BasedOn, RowFine, SyncFine
    <2> HIDE DEF row
    <2>2. Good(w, sp, t, q, R, AdoptOf(n, e, text)) /\ Good(w, sp, t, q, R, MoveOf(n, e, text))
      BY <1>1, <2>1, BindGood DEF row
    <2> QED BY <2>2 DEF Unchanged
  <1>4. p \in Paths
    BY TakenFinite, NameIsFree
  <1> HIDE DEF p
  <1>5. /\ Good(w, sp, t, q, R, UpsertOf(n, e, text))
        /\ Good(w, sp, t, q, R, ConflictOf(n, e, text, fresh, p))
    BY <1>1, <1>4, PutGood
  <1>6. DecideKnown(b, t, after, r, e, n, w[e.id], fresh) =
          IF same THEN Unchanged(b, after, e, n, text)
          ELSE IF ~Unsent(row) THEN UpsertOf(n, e, text)
          ELSE ConflictOf(n, e, text, fresh, p)
    BY DEF DecideKnown, text, p
  <1> HIDE DEF same, row
  <1> QED BY <1>3, <1>5, <1>6

LEMMA FileGood ==
  ASSUME NEW w, RemoteTrue(w), RemoteFine(w), NEW sp, NEW t, TableTrue(w, t), TableFine(w, sp, t), NEW b,
         IsFiniteSet(ClaimedPaths(b)), NEW q, ChangesTrue(w, q), ChangesFine(w, sp, t, q),
         NEW e, EntryTrue(w, e), ~e.gone, e.path \in Paths, \A i \in DOMAIN q : Leaves(t, e, q[i]),
         NEW R, LeftAlone(t, q, R), \A x \in R : Behind(b, e, x), NEW fresh \in NoteIds, t[fresh] = NoRow
  PROVE  AllGood(w, sp, t, q, R, DecideFile(b, t, q, e, w, fresh))
  <1> DEFINE after == After(t, q)
             n == NoteForEntry(b, t, after, w, e)
             removed == n # NoNote /\ after[n] = NoRow
             room == DisplaceOccupants(b, after, q, e.path, n)
             found == w[e.id]
             row == t[n]
             stranger == n # NoNote /\ ~removed /\ IsStranger(row, found.text)
             aside == IF stranger THEN DisplaceOccupants(b, after, q, e.path, NoNote) ELSE room
             withRoom == q \o room
             withAside == q \o aside
             known == n # NoNote /\ ~removed /\ row.file = FileOf(e)
             fitted == IF Renaming(b, n) THEN AdoptOf(n, e, row.synced) ELSE MoveOf(n, e, row.synced)
             m == IdForNewNote(b, t, After(t, withAside), withAside, found.text, fresh)
             made == UpsertOf(m, e, found.text)
             changed == IF removed THEN UpsertOf(n, e, found.text)
                        ELSE DecideKnown(b, t, After(t, withRoom), withRoom, e, n, found, fresh)
             Room(r) == IsSeq(r) /\ \A i \in DOMAIN r : r[i].kind = "displace" /\ Good(w, sp, t, q, R, r[i])
  <1>0. IsSeq(q) /\ FileOf(e) # NoFile
    BY FileRead DEF ChangesTrue
  <1>1. n # NoNote =>
          /\ n \in NoteIds /\ row # NoRow
          /\ \A x \in R : ~x.gone => ~Bound(row, x.id)
          /\ ~removed => \A j \in DOMAIN q : Puts(q[j]) => q[j].note # n
    <2> HIDE DEF n
    <2>1. SUFFICES ASSUME n # NoNote
                   PROVE  /\ n \in NoteIds /\ t[n] # NoRow
                          /\ \A x \in R : ~x.gone => ~Bound(t[n], x.id)
                          /\ After(t, q)[n] # NoRow => \A j \in DOMAIN q : Puts(q[j]) => q[j].note # n
      OBVIOUS
    <2>2. n = NoteForEntry(b, t, After(t, q), w, e)
      BY DEF n
    <2> QED BY <2>1, <2>2, NoteSituation
  <1>2. Room(room) /\ Room(aside)
    <2>1. \A keeper : Room(DisplaceOccupants(b, after, q, e.path, keeper))
      <3> HIDE DEF after
      <3> QED BY <1>0, RoomGood
    <2> HIDE DEF Room, n, after, stranger
    <2> QED BY <2>1
  <1>3. IsSeq(withRoom) /\ (\A r : Room(r) => AllGood(w, sp, t, q, R, r))
    <2>1. IsSeq(withRoom)
      <3> HIDE DEF room
      <3> QED BY <1>0, <1>2, ConcatIs
    <2>2. ASSUME NEW r, Room(r) PROVE AllGood(w, sp, t, q, R, r)
      <3>1. \A x : x.kind = "displace" => ~Puts(x) /\ ~Binds(x)
        BY DEF Puts, Binds
      <3> QED BY <2>2, <3>1 DEF AllGood
    <2> HIDE DEF Room, withRoom
    <2> QED BY <2>1, <2>2
  <1>4. known => Good(w, sp, t, q, R, fitted)
    <2>1. SUFFICES ASSUME known PROVE Good(w, sp, t, q, R, fitted)
      OBVIOUS
    <2>2. n \in NoteIds /\ row # NoRow /\ \A j \in DOMAIN q : Puts(q[j]) => q[j].note # n
      BY <2>1, <1>1
    <2>3. RowFine(w, sp, row) /\ row.file # NoFile
      <3> HIDE DEF n
      <3> QED BY <2>1, <2>2, <1>0 DEF TableFine
    <2>4. row.synced \in Texts /\ BasedOn(sp, row.text, row.synced)
      <3> HIDE DEF n
      <3> QED BY <2>3 DEF RowFine, SyncFine
    <2> HIDE DEF n
    <2>5. /\ Good(w, sp, t, q, R, AdoptOf(n, e, row.synced))
          /\ Good(w, sp, t, q, R, MoveOf(n, e, row.synced))
      BY <2>2, <2>4, BindGood
    <2> QED BY <2>5
  <1>5. ASSUME found # Gone PROVE Good(w, sp, t, q, R, made)
    <2>1. found.text \in Texts /\ Safe(w, sp, found.text.body)
      BY <1>5, FoundIs
    <2>2. m \in NoteIds /\ \A x \in R : ~x.gone => ~Bound(t[m], x.id)
      <3>1. IsSeq(aside) /\ AllGood(w, sp, t, q, R, aside)
        BY <1>2, <1>3
      <3>2. ChangesTrue(w, aside)
        BY ChangesDisplace
      <3> HIDE DEF aside
      <3>3. ChangesTrue(w, withAside)
        BY <3>2, ChangesConcat
      <3>4. ChangesFine(w, sp, t, withAside) /\ LeftAlone(t, withAside, R)
        BY <1>0, <3>1, Extend
      <3> HIDE DEF withAside, found
      <3> QED BY <2>1, <3>3, <3>4, IdNew
    <2> HIDE DEF m, found
    <2>3. Good(w, sp, t, q, R, UpsertOf(m, e, found.text))
      BY <2>1, <2>2, PutGood
    <2> QED BY <2>3
  <1>6. ASSUME found # Gone, n # NoNote PROVE Good(w, sp, t, q, R, changed)
    <2>1. found.text \in Texts /\ Safe(w, sp, found.text.body)
      BY <1>5, <1>6, FoundIs
    <2>2. removed => Good(w, sp, t, q, R, UpsertOf(n, e, found.text))
      <3> HIDE DEF n, found, removed
      <3> QED BY <1>1, <1>6, <2>1, PutGood
    <2>3. ~removed => Good(w, sp, t, q, R, DecideKnown(b, t, After(t, withRoom), withRoom, e, n, found, fresh))
      <3>1. SUFFICES ASSUME ~removed
                     PROVE Good(w, sp, t, q, R, DecideKnown(b, t, After(t, withRoom), withRoom, e, n, found, fresh))
        OBVIOUS
      <3> HIDE DEF n, withRoom, removed
      <3> QED BY <3>1, <1>1, <1>3, <1>6, KnownGood
    <2> HIDE DEF n, withRoom, found, removed
    <2> QED BY <2>2, <2>3
  <1>7. AllGood(w, sp, t, q, R, GoneBeforeRead(t, after, e, n))
    <2> HIDE DEF after, n
    <2>1. Bound(t[n], e.id) => Good(w, sp, t, q, R, ForgetNote(t, n))
      BY ForgetGood
    <2> QED BY <2>1, GoodOne DEF GoneBeforeRead
  <1>8. /\ AllGood(w, sp, t, q, R, <<>>)
        /\ known => AllGood(w, sp, t, q, R, Append(room, fitted))
        /\ found # Gone => AllGood(w, sp, t, q, R, Append(aside, made))
        /\ found # Gone /\ n # NoNote => AllGood(w, sp, t, q, R, Append(room, changed))
    <2> HIDE DEF room, aside, made, changed, fitted, known, found, n
    <2> QED BY <1>2, <1>4, <1>5, <1>6, GoodAppend, GoodOne
  <1>9. DecideFile(b, t, q, e, w, fresh) =
          CASE known -> IF after[n].path = e.path THEN <<>> ELSE Append(room, fitted)
            [] ~known /\ found = Gone -> GoneBeforeRead(t, after, e, n)
            [] OTHER -> IF n = NoNote \/ stranger THEN Append(aside, made) ELSE Append(room, changed)
    BY DEF DecideFile
  <1> HIDE DEF after, n, removed, room, found, row, stranger, aside, withRoom, known, fitted, made, changed
  <1> QED BY <1>7, <1>8, <1>9

LEMMA EntryGood ==
  ASSUME NEW w, RemoteTrue(w), RemoteFine(w), NEW sp, NEW t, TableTrue(w, t), TableFine(w, sp, t), NEW b,
         IsFiniteSet(ClaimedPaths(b)), NEW q, ChangesTrue(w, q), ChangesFine(w, sp, t, q),
         NEW e, EntryTrue(w, e), ~e.gone => e.path \in Paths, \A i \in DOMAIN q : Leaves(t, e, q[i]),
         NEW R, LeftAlone(t, q, R), \A x \in R : Behind(b, e, x), NEW fresh \in NoteIds, t[fresh] = NoRow
  PROVE  AllGood(w, sp, t, q, R, Decide(b, t, q, e, w, fresh))
  <1>1. CASE e.gone
    <2> DEFINE held == {n \in HoldersOf(t, e.id) : Bound(After(t, q)[n], e.id)}
    <2>1. \A n \in held : Good(w, sp, t, q, R, ForgetNote(t, n))
      BY ForgetGood DEF HoldersOf
    <2>2. held # {} => (CHOOSE n \in held : TRUE) \in held
      OBVIOUS
    <2>3. DecideDeleted(t, q, e) = IF held = {} THEN <<>> ELSE <<ForgetNote(t, CHOOSE n \in held : TRUE)>>
      BY DEF DecideDeleted
    <2> HIDE DEF held
    <2>4. AllGood(w, sp, t, q, R, DecideDeleted(t, q, e))
      BY <2>1, <2>2, <2>3, GoodOne
    <2> QED BY <1>1, <2>4 DEF Decide
  <1>2. CASE ~e.gone
    BY <1>2, FileGood DEF Decide
  <1> QED BY <1>1, <1>2

\* What a scan finds missing is let go of, or sent up again.
LEMMA ReconcileGood ==
  ASSUME NEW w, NEW sp, NEW t, NEW q, ChangesTrue(w, q), ChangesFine(w, sp, t, q), NEW b, NEW upload
  PROVE  ChangesFine(w, sp, t, q \o Reconcile(b, t, q, upload))
  <1> DEFINE new == Reconcile(b, t, q, upload)
  <1>1. IsSeq(new) /\ IsSeq(q)
    BY ReconcileTrue DEF ChangesTrue
  <1>2. ASSUME NEW i \in DOMAIN new PROVE new[i].kind \in {"delete", "detach", "reupload"}
    <2> DEFINE after == After(t, q)
               Unseen(n) == /\ t[n] # NoRow /\ t[n].file # NoFile
                            /\ \A e \in ToSet(b.entries) : e.id # t[n].file.id
                            /\ n \notin KeptNotes(q, upload)
                            /\ after[n] # NoRow
               unseen == InOrder({n \in NoteIds : Unseen(n)})
               Of(n) == IF upload THEN KeepNote(t, n) ELSE ForgetNote(t, n)
               r == [j \in DOMAIN unseen |-> Of(unseen[j])]
    <2>1. new = r
      BY DEF Reconcile
    <2>2. \A k, n : Change(k, n).kind = k
      BY DEF Change
    <2>3. \A n : Of(n).kind \in {"delete", "detach", "reupload"}
      BY <2>2 DEF KeepNote, ForgetNote
    <2> HIDE DEF unseen, Of, new
    <2>4. i \in DOMAIN unseen /\ new[i] = Of(unseen[i])
      BY <1>2, <2>1
    <2> QED BY <2>3, <2>4
  <1> HIDE DEF new
  <1>3. AllGood(w, sp, t, q, {}, new)
    <2>1. \A c : c.kind \in {"delete", "detach", "reupload"} =>
            ~Puts(c) /\ ~Binds(c) /\ c.kind \notin {"conflict", "move", "displace"}
      BY DEF Puts, Binds
    <2>2. ASSUME NEW i \in DOMAIN new PROVE Good(w, sp, t, q, {}, new[i]) /\ ~Puts(new[i])
      <3> DEFINE c == new[i]
      <3>1. ~Puts(c) /\ ~Binds(c) /\ c.kind \notin {"conflict", "move", "displace"}
        BY <1>2, <2>1
      <3> HIDE DEF c
      <3>2. Good(w, sp, t, q, {}, c) /\ ~Puts(c)
        BY <3>1 DEF Good, ChangeFine
      <3> QED BY <3>2 DEF c
    <2> QED BY <2>2 DEF AllGood
  <1>4. LeftAlone(t, q, {})
    BY DEF LeftAlone
  <1>5. ChangesFine(w, sp, t, q \o new)
    BY <1>1, <1>3, <1>4, Extend
  <1> QED BY <1>5 DEF new

-----------------------------------------------------------------------------
(* The pull.                                                                 *)

LEMMA EntryHas ==
  ASSUME NEW f
  PROVE  /\ EntryOf(f).id = f /\ (EntryOf(f).gone <=> ~Alive(f))
         /\ Alive(f) => EntryOf(f).path = remote[f].path /\ EntryOf(f).version = remote[f].version
  BY DEF EntryOf

\* What a round hears of is files, each once.
LEMMA HeardOnce ==
  ASSUME IInv, NewsOnce, NEW d \in Devices
  PROVE  LET scan  == cursor[d] # "log"
             files == IF scan THEN Only([f \in Files |-> f], {f \in Files : Alive(f)}) ELSE news[d]
         IN  files \in Seq(Files) /\ Once(files)
  <1> DEFINE S == {f \in Files : Alive(f)}  all == [f \in Files |-> f]
  <1>1. news[d] \in Seq(Files) /\ Once(news[d])
    BY DEF IInv, NewsTrue, NewsOnce
  <1>2. all \in Seq(Files) /\ Once(all)
    <2>1. Files = 1..Len(remote) /\ Len(remote) \in Nat
      BY FilesNat DEF IInv
    <2> DEFINE N == Len(remote)
    <2> HIDE DEF N
    <2>2. Files = 1..N /\ N \in Nat
      BY <2>1 DEF N
    <2>3. [f \in 1..N |-> f] \in [1..N -> 1..N]
      OBVIOUS
    <2>4. [f \in 1..N |-> f] \in Seq(1..N)
      BY <2>2, <2>3, SeqDef
    <2>5. Once(all)
      BY DEF Once
    <2> QED BY <2>2, <2>4, <2>5
  <1> HIDE DEF all
  <1>3. Only(all, S) \in Seq(Files \cap S) /\ Once(Only(all, S))
    BY <1>2, OnlyIn, OnlyOnce
  <1>4. Only(all, S) \in Seq(Files)
    BY <1>3, SeqMonotonic
  <1> QED BY <1>1, <1>3, <1>4 DEF all

\* A batch is of finitely many files and renames.
LEMMA ClaimsFinite ==
  ASSUME NEW entries, IsSeq(entries), NEW q, OpsFine(q), NEW scan
  PROVE  IsFiniteSet(ClaimedPaths(BatchOf(entries, q, scan)))
  <1> DEFINE b == BatchOf(entries, q, scan)
             D == {i \in DOMAIN entries : ~entries[i].gone}  f == [i \in D |-> entries[i].path]
             M == {r \in q : r.kind = "move"}
             Oldest(n) == CHOOSE o \in Moves(q, n) : \A r \in Moves(q, n) : o.seq <= r.seq
             g == [o \in M |-> Oldest(o.note).path]
  <1>1. IsFiniteSet(D)
    <2>1. DOMAIN entries = 1..Len(entries) /\ Len(entries) \in Nat
      BY SeqIs
    <2>2. IsFiniteSet(DOMAIN entries)
      BY <2>1, FS_Interval
    <2> QED BY <2>2, FS_Subset
  <1>2. IsFiniteSet(M)
    BY FS_Subset DEF OpsFine
  <1>3. ClaimedPaths(b) = {f[i] : i \in D} \cup {g[o] : o \in M}
    <2>1. {e.path : e \in LiveIn(b)} = {f[i] : i \in D}
      BY DEF LiveIn, BatchOf, ToSet
    <2>2. b.renaming = {[note |-> o.note, from |-> Oldest(o.note).path] : o \in M}
      BY DEF BatchOf
    <2> DEFINE h == [o \in M |-> [note |-> o.note, from |-> Oldest(o.note).path]]
    <2> HIDE DEF Oldest, M, b
    <2>3. b.renaming = {h[o] : o \in M} /\ \A o \in M : h[o].from = g[o]
      BY <2>2
    <2> HIDE DEF h, g
    <2>4. {r.from : r \in b.renaming} = {g[o] : o \in M}
      BY <2>3
    <2> HIDE DEF f, D
    <2> QED BY <2>1, <2>4 DEF ClaimedPaths
  <1> HIDE DEF D, f, M, g, b
  <1>4. IsFiniteSet({f[i] : i \in D})
    BY <1>1, ImageFinite
  <1>5. IsFiniteSet({g[o] : o \in M})
    BY <1>2, ImageFinite
  <1> QED BY <1>3, <1>4, <1>5, FS_Union DEF b

LEMMA BatchStarts ==
  ASSUME IInv, KInv, NEW files \in Seq(Files), Once(files), NEW q, OpsFine(q), NEW scan
  PROVE  LET entries == [i \in DOMAIN files |-> EntryOf(files[i])]
         IN  TodoFine(BatchOf(entries, q, scan), entries)
  <1> DEFINE entries == [i \in DOMAIN files |-> EntryOf(files[i])]
             b == BatchOf(entries, q, scan)
  <1>1. Len(files) \in Nat /\ DOMAIN files = 1..Len(files) /\ \A i \in DOMAIN files : files[i] \in Files
    BY SeqIn
  <1>2. /\ DOMAIN entries = DOMAIN files
        /\ \A i \in DOMAIN entries :
             /\ entries[i].id = files[i] /\ (entries[i].gone <=> ~Alive(files[i]))
             /\ Alive(files[i]) => entries[i].path = remote[files[i]].path
    <2>1. DOMAIN entries = DOMAIN files /\ \A i \in DOMAIN files : entries[i] = EntryOf(files[i])
      OBVIOUS
    <2> HIDE DEF entries
    <2> QED BY <2>1, EntryHas
  <1>3. IsSeq(entries)
    <2>1. entries = [i \in 1..Len(files) |-> entries[i]]
      BY <1>1
    <2> HIDE DEF entries
    <2> QED BY <2>1, <1>1, MadeIs
  <1>4. b.entries = entries
    BY DEF BatchOf
  <1> HIDE DEF entries
  <1>5. IsFiniteSet(ClaimedPaths(b))
    BY <1>3, ClaimsFinite
  <1> HIDE DEF b
  <1>6. RemoteFine(remote)
    BY DEF KInv
  <1>7. ASSUME NEW i \in DOMAIN entries, ~entries[i].gone
        PROVE  entries[i] \in LiveIn(b) /\ entries[i].path \in Paths
    <2>1. files[i] \in Files /\ remote[files[i]] # Gone /\ entries[i].path = remote[files[i]].path
      BY <1>1, <1>2, <1>7 DEF Alive
    <2>2. remote[files[i]] \in RemoteFiles
      BY <2>1, <1>6 DEF RemoteFine, Files
    <2> QED BY <2>1, <2>2, <1>4, <1>7 DEF LiveIn, ToSet, RemoteFiles
  <1>8. ASSUME NEW i \in DOMAIN entries, NEW j \in DOMAIN entries, i # j
        PROVE  /\ entries[i].id # entries[j].id
               /\ ~entries[i].gone /\ ~entries[j].gone => entries[i].path # entries[j].path
    <2>1. files[i] # files[j]
      BY <1>2, <1>8 DEF Once
    <2> QED BY <2>1, <1>1, <1>2, <1>6 DEF RemoteFine, Alive, Files
  <1>9. TodoFine(b, entries)
    BY <1>5, <1>7, <1>8 DEF TodoFine
  <1> QED BY <1>9 DEF b, entries

LEMMA StartKept ==
  ASSUME IInv, KInv, NEW d \in Devices, StartRound(d)
  PROVE  KInv'
  <1> DEFINE scan == cursor[d] # "log"
             files == IF scan THEN Only([f \in Files |-> f], {f \in Files : Alive(f)}) ELSE news[d]
             entries == [i \in DOMAIN files |-> EntryOf(files[i])]
             b == BatchOf(entries, ops[d], scan)
             first == [pc |-> "decide", batch |-> b, todo |-> entries, decided |-> <<>>]
  <1>1. files \in Seq(Files) /\ Once(files) /\ OpsFine(ops[d])
    BY HeardOnce, DeviceKept DEF KInv
  <1>2. TodoFine(b, entries)
    <2> HIDE DEF files, scan
    <2> QED BY <1>1, BatchStarts
  <1>3. EngFine(remote, spent, rows[d], first)
    <2> HIDE DEF b, entries
    <2>1. ChangesFine(remote, spent, rows[d], <<>>) /\ Apart(rows[d], <<>>, entries)
      BY Empty DEF ChangesFine, Orderly, Apart
    <2>2. DecideFine(remote, spent, rows[d], first)
      BY <1>2, <2>1 DEF DecideFine
    <2>3. first.pc = "decide" /\ "row" \notin DOMAIN first
      OBVIOUS
    <2> HIDE DEF first
    <2> QED BY <2>2, <2>3 DEF EngFine, Pending
  <1> HIDE DEF first
  <1>4. \E e : EngineAt(d, e) /\ EngFine(remote, spent, rows[d], e)
    <2>1. EngineAt(d, first) \/ EngineAt(d, DrainFrom(d, {o.seq : o \in ops[d]}))
      BY DEF StartRound, first, b, entries, files
    <2> QED BY <2>1, <1>3, RestKept
  <1>5. remote' = remote /\ StoreSame /\ body' = body /\ spent' = spent
    BY DEF StartRound, UsersSame
  <1>6. NewsOnce'
    <2>1. news = [a \in Devices |-> news[a]] /\ \A a \in Devices : Once(news[a])
      BY DEF IInv, NewsTrue, KInv, NewsOnce
    <2>2. news' = news \/ news' = [news EXCEPT ![d] = <<>>]
      BY DEF StartRound
    <2>3. Once(<<>>)
      BY Empty DEF Once
    <2> QED BY <2>1, <2>2, <2>3 DEF NewsOnce
  <1>7. RemoteFine(remote') /\ Kept(remote, spent, remote', spent')
    BY <1>5, KeptSame DEF KInv
  <1> QED BY <1>4, <1>5, <1>6, <1>7, AskKept

LEMMA TailAt ==
  ASSUME NEW q, IsSeq(q), q # <<>>
  PROVE  /\ 1 \in DOMAIN q /\ Head(q) = q[1] /\ IsSeq(Tail(q))
         /\ \A i \in DOMAIN Tail(q) : i \in Nat \ {0} /\ i + 1 \in DOMAIN q /\ Tail(q)[i] = q[i + 1]
  <1> DEFINE S == {q[i] : i \in DOMAIN q}
  <1>1. q \in Seq(S)
    BY DEF IsSeq
  <1> HIDE DEF S
  <1>2. 1 \in DOMAIN q /\ Head(q) = q[1] /\ IsSeq(Tail(q))
    BY TailIs
  <1>3. /\ Tail(q) \in Seq(S) /\ Len(Tail(q)) = Len(q) - 1
        /\ \A i \in 1..Len(Tail(q)) : Tail(q)[i] = q[i + 1]
    BY <1>1, HeadTailProperties
  <1>4. DOMAIN Tail(q) = 1..Len(Tail(q)) /\ Len(q) \in Nat /\ DOMAIN q = 1..Len(q)
    BY <1>1, <1>3
  <1> QED BY <1>2, <1>3, <1>4

LEMMA FreshIs ==
  ASSUME IdsLeft
  PROVE  NewId \in NoteIds /\ \A d \in Devices : rows[d][NewId] = NoRow
  BY NewIdIs DEF UsedIds

LEMMA DecideStepKept ==
  ASSUME IInv, KInv, NEW d \in Devices, DecideEntry(d)
  PROVE  KInv'
  <1> DEFINE e == eng[d]  b == e.batch  q == e.decided  todo == e.todo  t == rows[d]
             more == Decide(b, t, q, Head(todo), remote, NewId)
             next == [e EXCEPT !.todo = Tail(@), !.decided = @ \o more]
             R == {Tail(todo)[i] : i \in DOMAIN Tail(todo)}
  <1>1. /\ e.pc = "decide" /\ e.todo # <<>> /\ NewId \in NoteIds /\ t[NewId] = NoRow
        /\ EngineAt(d, next) /\ StoreSame /\ RemoteSame /\ body' = body /\ spent' = spent
    BY FreshIs DEF DecideEntry, UsersSame
  <1>2. /\ DecideTrue(remote, e) /\ RemoteTrue(remote) /\ TableTrue(remote, t)
        /\ IsSeq(todo) /\ ChangesTrue(remote, q) /\ \A i \in DOMAIN todo : EntryTrue(remote, todo[i])
    BY <1>1, DeviceTrue DEF EngTrue, DecideTrue
  <1>3. /\ ChangesFine(remote, spent, t, q) /\ TodoFine(b, todo) /\ Apart(t, q, todo)
        /\ TableFine(remote, spent, t) /\ RemoteFine(remote)
    BY <1>1, DeviceKept DEF EngFine, DecideFine
  <1>4. /\ next.pc = "decide" /\ next.batch = b /\ next.todo = Tail(todo) /\ next.decided = q \o more
        /\ "row" \notin DOMAIN next
    <2> HIDE DEF more
    <2>1. e \in [pc : {"decide"}, batch : {b}, todo : {todo}, decided : {q}]
      BY <1>2 DEF DecideTrue
    <2> DEFINE x == Tail(todo)  y == q \o more
    <2>2. next = [e EXCEPT !.todo = x, !.decided = y]
      OBVIOUS
    <2> HIDE DEF x, y, e, next
    <2>3. LET z == [e EXCEPT !.todo = x, !.decided = y]
          IN  z.pc = "decide" /\ z.batch = b /\ z.todo = x /\ z.decided = y /\ "row" \notin DOMAIN z
      BY <2>1
    <2> QED BY <2>2, <2>3 DEF x, y
  <1> HIDE DEF next, b, q, todo, t
  <1>5. /\ 1 \in DOMAIN todo /\ Head(todo) = todo[1] /\ IsSeq(Tail(todo))
        /\ \A i \in DOMAIN Tail(todo) :
             i \in Nat \ {0} /\ i + 1 \in DOMAIN todo /\ Tail(todo)[i] = todo[i + 1]
    <2>1. todo # <<>>
      BY <1>1 DEF todo
    <2> QED BY <2>1, <1>2, TailAt
  <1>6. TodoFine(b, Tail(todo))
    <2> DEFINE u == Tail(todo)
    <2> HIDE DEF u
    <2>1. ASSUME NEW i \in DOMAIN u, ~u[i].gone PROVE u[i] \in LiveIn(b) /\ u[i].path \in Paths
      BY <2>1, <1>3, <1>5 DEF TodoFine, u
    <2>2. ASSUME NEW i \in DOMAIN u, NEW j \in DOMAIN u, i # j
          PROVE  u[i].id # u[j].id /\ (~u[i].gone /\ ~u[j].gone => u[i].path # u[j].path)
      <3>1. /\ i + 1 \in DOMAIN todo /\ j + 1 \in DOMAIN todo /\ i + 1 # j + 1
            /\ u[i] = todo[i + 1] /\ u[j] = todo[j + 1]
        BY <2>2, <1>5 DEF u
      <3> QED BY <3>1, <1>3 DEF TodoFine
    <2>3. TodoFine(b, u)
      BY <2>1, <2>2, <1>3 DEF TodoFine
    <2> QED BY <2>3 DEF u
  <1> DEFINE h == Head(todo)
  <1>7. /\ EntryTrue(remote, h) /\ (~h.gone => h.path \in Paths)
        /\ \A i \in DOMAIN q : Leaves(t, h, q[i])
    BY <1>2, <1>3, <1>5 DEF TodoFine, Apart
  <1>8. ASSUME NEW x \in R PROVE Behind(b, h, x) /\ \A i \in DOMAIN q : Leaves(t, x, q[i])
    <2>1. PICK i \in DOMAIN Tail(todo) : x = Tail(todo)[i]
      BY <1>8
    <2>2. i + 1 \in DOMAIN todo /\ x = todo[i + 1] /\ i + 1 # 1
      BY <2>1, <1>5
    <2> QED BY <2>2, <1>3, <1>5 DEF TodoFine, Apart, Behind
  <1>9. \A i \in DOMAIN Tail(todo) : Tail(todo)[i] \in R
    OBVIOUS
  <1> HIDE DEF R, h
  <1>10. LeftAlone(t, q, R) /\ IsFiniteSet(ClaimedPaths(b))
    BY <1>3, <1>8 DEF LeftAlone, TodoFine
  <1>11. AllGood(remote, spent, t, q, R, more) /\ IsSeq(more) /\ IsSeq(q)
    <2>1. more = Decide(b, t, q, h, remote, NewId)
      BY DEF h
    <2> HIDE DEF more
    <2>2. t[NewId] = NoRow /\ NewId \in NoteIds
      BY <1>1 DEF t
    <2>3. ChangesTrue(remote, more)
      BY <2>1, <2>2, <1>2, <1>7, DecideEntryTrue
    <2> DEFINE fresh == NewId
    <2> HIDE DEF fresh
    <2>4. fresh \in NoteIds /\ t[fresh] = NoRow /\ more = Decide(b, t, q, h, remote, fresh)
      BY <2>1, <2>2 DEF fresh
    <2>5. AllGood(remote, spent, t, q, R, Decide(b, t, q, h, remote, fresh))
      BY <2>4, <1>2, <1>3, <1>7, <1>8, <1>10, EntryGood
    <2> QED BY <2>3, <2>4, <2>5, <1>2 DEF ChangesTrue
  <1> HIDE DEF more
  <1>12. ChangesFine(remote, spent, t, q \o more) /\ LeftAlone(t, q \o more, R)
    BY <1>3, <1>10, <1>11, Extend
  <1>13. Apart(t, q \o more, Tail(todo))
    BY <1>9, <1>12 DEF Apart, LeftAlone
  <1>14. EngFine(remote, spent, t, next)
    <2>1. DecideFine(remote, spent, t, next)
      BY <1>4, <1>6, <1>12, <1>13 DEF DecideFine
    <2> QED BY <2>1, <1>4 DEF EngFine, Pending
  <1> QED BY <1>1, <1>14, ThinkKept DEF t

LEMMA EndDecideKept ==
  ASSUME IInv, KInv, NEW d \in Devices, EndDecide(d)
  PROVE  KInv'
  <1> DEFINE e == eng[d]
             last == Reconcile(e.batch, rows[d], e.decided, cursor[d] = "upload")
             all == IF e.batch.scanning THEN e.decided \o last ELSE e.decided
             next == [pc |-> "apply", entries |-> e.batch.entries, decided |-> all]
  <1>1. e.pc = "decide" /\ EngineAt(d, next) /\ StoreSame /\ RemoteSame /\ body' = body /\ spent' = spent
    BY DEF EndDecide, UsersSame
  <1>2. ChangesTrue(remote, e.decided) /\ ChangesFine(remote, spent, rows[d], e.decided)
    BY <1>1, DeviceTrue, DeviceKept DEF EngTrue, DecideTrue, EngFine, DecideFine
  <1>3. ChangesFine(remote, spent, rows[d], e.decided \o last)
    BY <1>2, ReconcileGood
  <1> HIDE DEF last
  <1>4. ChangesFine(remote, spent, rows[d], all)
    BY <1>2, <1>3
  <1> HIDE DEF all
  <1>5. next.pc = "apply" /\ next.decided = all /\ "row" \notin DOMAIN next
    OBVIOUS
  <1> HIDE DEF next
  <1>6. EngFine(remote, spent, rows[d], next)
    BY <1>4, <1>5 DEF EngFine, Pending
  <1> QED BY <1>1, <1>6, ThinkKept

LEMMA ApplyKept ==
  ASSUME IInv, KInv, NEW d \in Devices, Apply(d)
  PROVE  KInv'
  <1> DEFINE e == eng[d]
             done == AppliedAll(Store(d), NextOp(d), e.decided)
  <1>1. e.pc = "apply" /\ remote' = remote /\ body' = body /\ spent' = spent
    BY DEF Apply, UsersSame
  <1>2. /\ ChangesTrue(remote, e.decided) /\ StoreTrue(remote, Store(d)) /\ RemoteTrue(remote)
        /\ ChangesFine(remote, spent, Store(d).rows, e.decided)
        /\ TableFine(remote, spent, Store(d).rows) /\ OpsFine(Store(d).ops) /\ Store(d).rows = rows[d]
    BY <1>1, DeviceTrue, DeviceKept DEF EngTrue, EngFine
  <1>3. done.ok => /\ TableFine(remote, spent, done.st.rows) /\ OpsFine(done.st.ops)
                   /\ Carried(remote, spent, rows[d], done.st.rows)
    BY <1>2, BatchFine
  <1>4. /\ RemoteFine(remote') /\ Kept(remote, spent, remote', spent') /\ NewsOnce
        /\ body \in Nat
    BY <1>1, KeptSame DEF KInv
  <1>5. CASE done.ok
    <2> DEFINE heard == Unheard(d, e.entries)
    <2>1. /\ StoreSet(d, done.st) /\ EngineAt(d, DrainFrom(d, {o.seq : o \in done.st.ops}))
          /\ news' = [news EXCEPT ![d] = heard]
      BY <1>5 DEF Apply
    <2>2. Once(heard)
      <3>1. news[d] \in Seq(Files) /\ Once(news[d])
        BY <1>4 DEF IInv, NewsTrue, NewsOnce
      <3> DEFINE S == {f \in Files : \A x \in ToSet(e.entries) : x # EntryOf(f)}
      <3> HIDE DEF S
      <3>2. Once(Only(news[d], S))
        BY <3>1, OnlyOnce
      <3> QED BY <3>2 DEF Unheard, S
    <2> HIDE DEF heard
    <2>3. NewsOnce'
      <3>1. news = [a \in Devices |-> news[a]]
        BY DEF IInv, NewsTrue
      <3> QED BY <2>1, <2>2, <3>1, <1>4 DEF NewsOnce
    <2> HIDE DEF done, e
    <2> QED BY <1>1, <1>3, <1>4, <1>5, <2>1, <2>3, RestKept, StepKept DEF Typed
  <1>6. CASE ~done.ok
    <2>1. EngineAt(d, Idle) /\ StoreSame /\ RemoteSame
      BY <1>6 DEF Apply, RemoteSame
    <2> QED BY <2>1, <1>1, RestKept, ThinkKept
  <1> QED BY <1>5, <1>6

-----------------------------------------------------------------------------
(* The users.                                                                *)

\* The n-th row of a table put to one bound to the same file, whose text came
\* of the one it had; or one made where there was none.
Edited(sq, t, n, u) ==
  /\ \A m \in NoteIds : m # n => u[m] = t[m]
  /\ u[n] # NoRow
  /\ t[n] # NoRow => u[n].file = t[n].file /\ BasedOn(sq, u[n].text, t[n].text)
  /\ t[n] = NoRow => u[n].file = NoFile

LEMMA EditedBased ==
  ASSUME NEW sp, NEW sq, sp \subseteq sq, NEW t, NEW n, NEW u, Edited(sq, t, n, u),
         NEW m \in NoteIds, t[m] # NoRow, NEW s, BasedOn(sp, t[m].text, s)
  PROVE  u[m] # NoRow /\ BasedOn(sq, u[m].text, s)
  <1>1. CASE m = n
    BY <1>1 DEF Edited, BasedOn
  <1>2. CASE m # n
    BY <1>2 DEF Edited, BasedOn
  <1> QED BY <1>1, <1>2

LEMMA EditedChange ==
  ASSUME NEW w, NEW sp, NEW sq, sp \subseteq sq, NEW t, NEW n, NEW u, Edited(sq, t, n, u),
         NEW c, ChangeFine(w, sp, t, c), ChangeTrue(w, c), t[n] = NoRow => c.copy # n
  PROVE  ChangeFine(w, sq, u, c)
  <1>1. Puts(c) => c.note \in NoteIds /\ c.path \in Paths /\ c.text \in Texts /\ Safe(w, sq, c.text.body)
    BY KeptSame, KeptSafe DEF ChangeFine
  <1>2. ASSUME c.kind = "conflict" PROVE c.copyPath \in Paths /\ u[c.copy] = NoRow /\ u[c.note] # NoRow
    <2>1. /\ c.copyPath \in Paths /\ t[c.copy] = NoRow /\ t[c.note] # NoRow
          /\ c.note \in NoteIds /\ c.copy \in NoteIds
      BY <1>2 DEF ChangeFine, ChangeTrue, Puts
    <2> QED BY <2>1 DEF Edited
  <1>3. ASSUME Binds(c)
        PROVE  /\ c.note \in NoteIds /\ u[c.note] # NoRow /\ c.synced \in Texts
               /\ BasedOn(sq, u[c.note].text, c.synced)
    <2>1. /\ c.note \in NoteIds /\ t[c.note] # NoRow /\ c.synced \in Texts
          /\ BasedOn(sp, t[c.note].text, c.synced)
      BY <1>3 DEF ChangeFine
    <2> DEFINE m == c.note  s == c.synced
    <2> HIDE DEF m, s
    <2>2. m \in NoteIds /\ t[m] # NoRow /\ BasedOn(sp, t[m].text, s)
      BY <2>1 DEF m, s
    <2>3. u[m] # NoRow /\ BasedOn(sq, u[m].text, s)
      BY <2>2, EditedBased
    <2> QED BY <2>1, <2>3 DEF m, s
  <1>4. c.kind \in {"move", "displace"} => c.path \in Paths
    BY DEF ChangeFine
  <1> QED BY <1>1, <1>2, <1>3, <1>4 DEF ChangeFine

LEMMA EditedLeaves ==
  ASSUME NEW sq, NEW t, NEW n, NEW u, Edited(sq, t, n, u), NEW x, NEW c, Leaves(t, x, c)
  PROVE  Leaves(u, x, c)
  <1>1. ASSUME NEW m \in NoteIds, NEW f, Bound(u[m], f) PROVE Bound(t[m], f)
    <2>1. CASE m = n
      BY <1>1, <2>1 DEF Edited, Bound
    <2>2. CASE m # n
      BY <1>1, <2>2 DEF Edited
    <2> QED BY <2>1, <2>2
  <1> QED BY <1>1 DEF Leaves

LEMMA EditedEng ==
  ASSUME NEW w, NEW sp, NEW sq, sp \subseteq sq, NEW t, NEW n, NEW u, Edited(sq, t, n, u),
         NEW e, EngTrue(w, t, e), EngFine(w, sp, t, e), t[n] = NoRow => n \notin IdsIn(e)
  PROVE  EngFine(w, sq, u, e)
  <1>1. ASSUME e.pc \in {"decide", "apply"}, "row" \notin DOMAIN e,
               ChangesFine(w, sp, t, e.decided), ChangesTrue(w, e.decided)
        PROVE  ChangesFine(w, sq, u, e.decided)
    <2>1. ASSUME NEW i \in DOMAIN e.decided PROVE t[n] = NoRow => e.decided[i].copy # n
      <3>1. {c.copy : c \in ToSet(e.decided)} \subseteq IdsIn(e)
        BY <1>1 DEF IdsIn
      <3>2. e.decided[i] \in ToSet(e.decided)
        BY DEF ToSet
      <3>3. e.decided[i].copy \in IdsIn(e)
        BY <3>1, <3>2
      <3> QED BY <3>3
    <2>2. \A i \in DOMAIN e.decided : ChangeFine(w, sq, u, e.decided[i])
      BY <1>1, <2>1, EditedChange DEF ChangesFine, ChangesTrue
    <2> QED BY <1>1, <2>2 DEF ChangesFine
  <1>2. e.pc = "decide" => DecideFine(w, sq, u, e)
    <2>1. SUFFICES ASSUME e.pc = "decide" PROVE DecideFine(w, sq, u, e)
      OBVIOUS
    <2>2. DecideFine(w, sp, t, e) /\ ChangesTrue(w, e.decided) /\ "row" \notin DOMAIN e
      BY <2>1 DEF EngFine, EngTrue, DecideTrue
    <2>3. ChangesFine(w, sq, u, e.decided)
      BY <1>1, <2>1, <2>2 DEF DecideFine
    <2>4. Apart(u, e.decided, e.todo)
      BY <2>2, EditedLeaves DEF DecideFine, Apart
    <2> QED BY <2>2, <2>3, <2>4 DEF DecideFine
  <1>3. e.pc = "apply" => ChangesFine(w, sq, u, e.decided)
    BY <1>1 DEF EngFine, EngTrue
  <1>4. e.pc \in Pending => HoldFine(w, sq, u, e)
    <2>1. SUFFICES ASSUME e.pc \in Pending PROVE HoldFine(w, sq, u, e)
      OBVIOUS
    <2>2. HoldFine(w, sp, t, e) /\ e.op.note \in NoteIds
      BY <2>1 DEF EngFine, EngTrue, HoldTrue, Held
    <2>3. u[e.op.note] # NoRow /\ BasedOn(sq, u[e.op.note].text, e.row.text)
      <3> DEFINE m == e.op.note  s == e.row.text
      <3>1. m \in NoteIds /\ t[m] # NoRow /\ BasedOn(sp, t[m].text, s)
        BY <2>2 DEF HoldFine
      <3> HIDE DEF m, s
      <3>2. u[m] # NoRow /\ BasedOn(sq, u[m].text, s)
        BY <3>1, EditedBased
      <3> QED BY <3>2 DEF m, s
    <2>4. HoldFine(w, sq, t, e)
      BY <2>2, KeptSame, KeptHold
    <2> QED BY <2>3, <2>4 DEF HoldFine
  <1>5. e.pc \in {"decide", "apply"} => "row" \notin DOMAIN e
    BY DEF EngFine
  <1> QED BY <1>2, <1>3, <1>4, <1>5 DEF EngFine

\* A user's act on one note.
LEMMA ActKept ==
  ASSUME IInv, KInv, NEW d \in Devices, NEW n \in NoteIds, NEW row, NEW q, OpsFine(q),
         UserActs(d, [rows[d] EXCEPT ![n] = row], q),
         spent \subseteq spent', RowFine(remote, spent', row),
         rows[d][n] # NoRow => row.file = rows[d][n].file /\ BasedOn(spent', row.text, rows[d][n].text),
         rows[d][n] = NoRow => row.file = NoFile /\ n \notin IdsIn(eng[d]),
         Live(rows[d][n]) => \/ rows[d][n].text.body \in spent'
                             \/ Live(row) /\ row.text.body = rows[d][n].text.body,
         body' = body \/ (body' = body + 1 /\ Live(row) /\ row.text.body = body')
  PROVE  KInv'
  <1> DEFINE t == [rows[d] EXCEPT ![n] = row]  st == [rows |-> t, ops |-> q]  e == eng[d]
  <1>1. /\ TableTrue(remote, rows[d]) /\ EngTrue(remote, rows[d], e)
        /\ eng = [a \in Devices |-> eng[a]]
        /\ TableFine(remote, spent, rows[d]) /\ EngFine(remote, spent, rows[d], e) /\ body \in Nat
    BY DeviceTrue, DeviceKept DEF IInv, EnginesTrue
  <1>2. t[n] = row /\ \A m \in NoteIds : m # n => t[m] = rows[d][m]
    <2>1. rows[d] = [m \in NoteIds |-> rows[d][m]]
      BY <1>1 DEF TableTrue
    <2> QED BY <2>1
  <1>3. /\ st.rows = t /\ st.ops = q /\ StoreSet(d, st)
        /\ remote' = remote /\ news' = news /\ EngineAt(d, e)
    BY <1>1 DEF UserActs, EngineAt
  <1> HIDE DEF t, st
  <1>4. row # NoRow
    BY MarkersAssumption DEF RowFine
  <1>5. Kept(remote, spent, remote', spent') /\ Kept(remote, spent, remote, spent')
    BY <1>3, KeptSame
  <1>6. Edited(spent', rows[d], n, t)
    BY <1>2, <1>4 DEF Edited
  <1>7. EngFine(remote, spent', t, e)
    <2> HIDE DEF e
    <2>1. rows[d][n] = NoRow => n \notin IdsIn(e)
      BY DEF e
    <2> QED BY <2>1, <1>1, <1>6, EditedEng
  <1>8. TableFine(remote, spent', t)
    <2>1. TableFine(remote, spent', rows[d])
      BY <1>1, <1>5, KeptTable
    <2>2. ASSUME NEW m \in NoteIds PROVE t[m] = NoRow \/ RowFine(remote, spent', t[m])
      BY <2>1, <1>2 DEF TableFine
    <2> QED BY <2>2 DEF TableFine
  <1>9. Carried(remote, spent', rows[d], t)
    <2>1. ASSUME NEW m \in NoteIds, Live(rows[d][m])
          PROVE  Safe(remote, spent', rows[d][m].text.body) \/ (Live(t[m]) /\ t[m].text.body = rows[d][m].text.body)
      BY <2>1, <1>2 DEF Safe
    <2> QED BY <2>1, CarriedPut
  <1>10. Typed(t)
    BY <1>2 DEF Typed
  <1>11. body' \in Nat /\ RemoteFine(remote') /\ NewsOnce'
    <2>1. body' \in Nat
      BY <1>1
    <2> QED BY <2>1, <1>3 DEF KInv, NewsOnce
  <1>12. /\ TableFine(remote', spent', st.rows) /\ OpsFine(st.ops) /\ EngFine(remote', spent', st.rows, e)
         /\ Carried(remote', spent', rows[d], st.rows) /\ Typed(st.rows)
    BY <1>3, <1>7, <1>8, <1>9, <1>10
  <1> HIDE DEF e
  <1> QED BY <1>3, <1>5, <1>11, <1>12, StepKept

\* What a user does to a row: its body, its path, its flags.
LEMMA UserRow ==
  ASSUME NEW r \in NoteRows, NEW k \in Nat, NEW p \in Paths
  PROVE  /\ LET x == [r EXCEPT !.text.body = k, !.dirty = TRUE]
            IN  /\ x \in NoteRows /\ x.dirty /\ x.text.body = k /\ x.deleted = r.deleted
                /\ x.file = r.file /\ x.synced = r.synced /\ x.path = r.path
         /\ LET x == [r EXCEPT !.path = p, !.dirty = TRUE]
            IN  /\ x \in NoteRows /\ x.dirty /\ x.text = r.text /\ x.deleted = r.deleted
                /\ x.file = r.file /\ x.synced = r.synced /\ x.path = p
         /\ LET x == [r EXCEPT !.deleted = TRUE, !.dirty = TRUE]
            IN  /\ x \in NoteRows /\ x.dirty /\ x.text = r.text /\ x.deleted
                /\ x.file = r.file /\ x.synced = r.synced /\ x.path = r.path
  <1>1. LET x == [r EXCEPT !.text.body = k, !.dirty = TRUE]
        IN  /\ x \in NoteRows /\ x.dirty /\ x.text.body = k /\ x.deleted = r.deleted
            /\ x.file = r.file /\ x.synced = r.synced /\ x.path = r.path
    <2> DEFINE t == [r.text EXCEPT !.body = k]
               x == [r EXCEPT !.text.body = k, !.dirty = TRUE]
    <2>1. t \in Texts /\ t.body = k
      BY DEF NoteRows, Texts
    <2>2. x = [r EXCEPT !.text = t, !.dirty = TRUE]
      OBVIOUS
    <2> HIDE DEF t, x
    <2>3. LET y == [r EXCEPT !.text = t, !.dirty = TRUE]
          IN  /\ y \in NoteRows /\ y.dirty /\ y.text = t /\ y.deleted = r.deleted
              /\ y.file = r.file /\ y.synced = r.synced /\ y.path = r.path
      BY <2>1 DEF NoteRows
    <2>4. /\ x \in NoteRows /\ x.dirty /\ x.text = t /\ x.deleted = r.deleted
          /\ x.file = r.file /\ x.synced = r.synced /\ x.path = r.path
      BY <2>2, <2>3
    <2> QED BY <2>1, <2>4 DEF x
  <1>2. LET x == [r EXCEPT !.path = p, !.dirty = TRUE]
        IN  /\ x \in NoteRows /\ x.dirty /\ x.text = r.text /\ x.deleted = r.deleted
            /\ x.file = r.file /\ x.synced = r.synced /\ x.path = p
    BY DEF NoteRows
  <1>3. LET x == [r EXCEPT !.deleted = TRUE, !.dirty = TRUE]
        IN  /\ x \in NoteRows /\ x.dirty /\ x.text = r.text /\ x.deleted
            /\ x.file = r.file /\ x.synced = r.synced /\ x.path = r.path
    BY DEF NoteRows
  <1> QED BY <1>1, <1>2, <1>3

LEMMA NamePath ==
  ASSUME NEW b \in Names
  PROVE  <<b>> \in Paths
  BY SyncAssumption DEF Paths

LEMMA EditKept ==
  ASSUME IInv, KInv, NEW d \in Devices, NEW n \in NoteIds, Edit(d, n)
  PROVE  KInv'
  <1> DEFINE r == rows[d][n]
             row == [rows[d][n] EXCEPT !.text.body = body + 1, !.dirty = TRUE]
             q == QueueEdit(ops[d], NextOp(d), n, row, rows[d][n].path)
  <1>1. /\ Live(r) /\ UserActs(d, [rows[d] EXCEPT ![n] = row], q) /\ body' = body + 1
        /\ spent' = spent \cup {r.text.body}
    BY DEF Edit, Saves
  <1>2. r # NoRow /\ RowFine(remote, spent, r) /\ r \in NoteRows /\ OpsFine(ops[d]) /\ body + 1 \in Nat
    BY <1>1, DeviceKept DEF TableFine, Live, RowFine
  <1>3. /\ row \in NoteRows /\ row.dirty /\ row.text.body = body + 1 /\ row.deleted = r.deleted
        /\ row.file = r.file /\ row.synced = r.synced /\ row.path = r.path
    <2> DEFINE k == body + 1
    <2>1. k \in Nat /\ <<>> \in Paths
      BY <1>2 DEF Paths
    <2> HIDE DEF k, r
    <2>2. LET x == [r EXCEPT !.text.body = k, !.dirty = TRUE]
          IN  /\ x \in NoteRows /\ x.dirty /\ x.text.body = k /\ x.deleted = r.deleted
              /\ x.file = r.file /\ x.synced = r.synced /\ x.path = r.path
      BY <1>2, <2>1, UserRow
    <2> QED BY <2>2 DEF k, r
  <1> HIDE DEF row
  <1>4. row.path \in Paths
    BY <1>3 DEF NoteRows
  <1>5. OpsFine(q)
    BY <1>2, <1>4, EditFine
  <1> HIDE DEF q
  <1>6. RowFine(remote, spent', row)
    BY <1>1, <1>2, <1>3 DEF RowFine, SyncFine, BasedOn
  <1>7. BasedOn(spent', row.text, r.text) /\ Live(row)
    BY <1>1, <1>2, <1>3, MarkersAssumption DEF BasedOn, Live
  <1> QED BY <1>1, <1>2, <1>3, <1>5, <1>6, <1>7, ActKept

LEMMA RenameKept ==
  ASSUME IInv, KInv, NEW d \in Devices, NEW n \in NoteIds, NEW p \in Paths, Rename(d, n, p)
  PROVE  KInv'
  <1> DEFINE r == rows[d][n]
             row == [rows[d][n] EXCEPT !.path = p, !.dirty = TRUE]
             q == QueueEdit(ops[d], NextOp(d), n, row, rows[d][n].path)
  <1>1. Live(r) /\ UserActs(d, [rows[d] EXCEPT ![n] = row], q) /\ body' = body /\ spent' = spent
    BY DEF Rename, Saves
  <1>2. r # NoRow /\ RowFine(remote, spent, r) /\ r \in NoteRows /\ OpsFine(ops[d])
    BY <1>1, DeviceKept DEF TableFine, Live, RowFine
  <1>3. /\ row \in NoteRows /\ row.dirty /\ row.text = r.text /\ row.deleted = r.deleted
        /\ row.file = r.file /\ row.synced = r.synced /\ row.path = p
    <2>1. 0 \in Nat
      OBVIOUS
    <2> HIDE DEF r
    <2>2. LET x == [r EXCEPT !.path = p, !.dirty = TRUE]
          IN  /\ x \in NoteRows /\ x.dirty /\ x.text = r.text /\ x.deleted = r.deleted
              /\ x.file = r.file /\ x.synced = r.synced /\ x.path = p
      BY <1>2, <2>1, UserRow
    <2> QED BY <2>2 DEF r
  <1> HIDE DEF row
  <1>4. OpsFine(q)
    BY <1>2, <1>3, EditFine
  <1> HIDE DEF q
  <1>5. RowFine(remote, spent', row)
    BY <1>1, <1>2, <1>3 DEF RowFine, SyncFine
  <1>6. BasedOn(spent', row.text, r.text) /\ Live(row)
    BY <1>1, <1>2, <1>3, MarkersAssumption DEF BasedOn, Live
  <1> QED BY <1>1, <1>2, <1>3, <1>4, <1>5, <1>6, ActKept

LEMMA CarryKept ==
  ASSUME IInv, KInv, NEW d \in Devices, NEW n \in NoteIds, NEW p \in Paths, Carry(d, n, p)
  PROVE  KInv'
  <1> DEFINE r == rows[d][n]
             row == [rows[d][n] EXCEPT !.path = p]
             q == QueueMove(ops[d], NextOp(d), n, row, rows[d][n].path)
  <1>1. Live(r) /\ UserActs(d, [rows[d] EXCEPT ![n] = row], q) /\ body' = body /\ spent' = spent
    BY DEF Carry
  <1>2. r # NoRow /\ RowFine(remote, spent, r) /\ r \in NoteRows /\ OpsFine(ops[d])
    BY <1>1, DeviceKept DEF TableFine, Live, RowFine
  <1>3. /\ row \in NoteRows /\ row.dirty = r.dirty /\ row.text = r.text /\ row.deleted = r.deleted
        /\ row.file = r.file /\ row.synced = r.synced /\ row.path = p
    BY <1>2, PathRow
  <1> HIDE DEF row
  <1>4. OpsFine(q)
    BY <1>2, <1>3, MoveFine
  <1> HIDE DEF q
  <1>5. RowFine(remote, spent', row)
    BY <1>1, <1>2, <1>3 DEF RowFine, SyncFine, Live
  <1>6. BasedOn(spent', row.text, r.text) /\ Live(row)
    BY <1>1, <1>2, <1>3, MarkersAssumption DEF BasedOn, Live
  <1> QED BY <1>1, <1>2, <1>3, <1>4, <1>5, <1>6, ActKept

LEMMA DeleteKept ==
  ASSUME IInv, KInv, NEW d \in Devices, NEW n \in NoteIds, Delete(d, n)
  PROVE  KInv'
  <1> DEFINE r == rows[d][n]
             row == [rows[d][n] EXCEPT !.deleted = TRUE, !.dirty = TRUE]
             q == QueueDelete(ops[d], NextOp(d), n, row)
  <1>1. /\ Live(r) /\ UserActs(d, [rows[d] EXCEPT ![n] = row], q) /\ body' = body
        /\ spent' = spent \cup {row.text.body}
    BY DEF Delete
  <1>2. r # NoRow /\ RowFine(remote, spent, r) /\ r \in NoteRows /\ OpsFine(ops[d])
    BY <1>1, DeviceKept DEF TableFine, Live, RowFine
  <1>3. /\ row \in NoteRows /\ row.dirty /\ row.text = r.text /\ row.deleted
        /\ row.file = r.file /\ row.synced = r.synced /\ row.path = r.path
    <2>1. 0 \in Nat /\ <<>> \in Paths
      BY DEF Paths
    <2> HIDE DEF r
    <2>2. LET x == [r EXCEPT !.deleted = TRUE, !.dirty = TRUE]
          IN  /\ x \in NoteRows /\ x.dirty /\ x.text = r.text /\ x.deleted
              /\ x.file = r.file /\ x.synced = r.synced /\ x.path = r.path
      BY <1>2, <2>1, UserRow
    <2> QED BY <2>2 DEF r
  <1> HIDE DEF row
  <1>4. OpsFine(q)
    BY <1>2, DeleteFine
  <1> HIDE DEF q
  <1>5. RowFine(remote, spent', row)
    BY <1>1, <1>2, <1>3 DEF RowFine, SyncFine, BasedOn
  <1>6. BasedOn(spent', row.text, r.text) /\ r.text.body \in spent'
    BY <1>1, <1>3 DEF BasedOn
  <1> QED BY <1>1, <1>2, <1>3, <1>4, <1>5, <1>6, ActKept

LEMMA CreateKept ==
  ASSUME IInv, KInv, NEW d \in Devices, NEW p \in Paths, Create(d, p)
  PROVE  KInv'
  <1> DEFINE n == NewId
             row == [path |-> p, text |-> Text(n, body + 1), dirty |-> TRUE, deleted |-> FALSE,
                     file |-> NoFile, synced |-> NoSynced]
             q == QueueWrite(ops[d], NextOp(d), n, row, NoSeq)
  <1>1. UserActs(d, [rows[d] EXCEPT ![n] = row], q) /\ body' = body + 1 /\ spent' = spent /\ IdsLeft
    BY DEF Create
  <1>2. n \in NoteIds /\ rows[d][n] = NoRow
    BY <1>1, FreshIs
  <1>3. n \notin IdsIn(eng[d])
    <2>1. n \notin UsedIds
      BY <1>1, NewIdIs
    <2> HIDE DEF n
    <2> QED BY <2>1 DEF UsedIds
  <1>4. body + 1 \in Nat /\ OpsFine(ops[d])
    BY DeviceKept
  <1> HIDE DEF n
  <1>5. OpsFine(q)
    <2> HIDE DEF row
    <2> QED BY <1>4, WriteFine
  <1>6. /\ row \in NoteRows /\ row.text.body = body + 1 /\ row.dirty /\ ~row.deleted
        /\ row.file = NoFile /\ row.synced = NoSynced
    BY <1>2, <1>4 DEF NoteRows, Texts, Text
  <1> HIDE DEF row, q
  <1>7. RowFine(remote, spent', row) /\ Live(row)
    BY <1>6, MarkersAssumption DEF RowFine, SyncFine, Live
  <1> QED BY <1>1, <1>2, <1>3, <1>5, <1>6, <1>7, ActKept DEF Live

LEMMA UserKept ==
  ASSUME IInv, KInv, NEW d \in Devices, UserStep(d)
  PROVE  KInv'
  <1>1. \A b \in Names : <<b>> \in Paths
    BY NamePath
  <1>2. ASSUME NEW n \in NoteIds, NEW b \in Names, Rename(d, n, <<b>>) \/ Carry(d, n, <<b>>)
        PROVE  KInv'
    <2> DEFINE p == <<b>>
    <2>1. p \in Paths /\ (Rename(d, n, p) \/ Carry(d, n, p))
      BY <1>1, <1>2
    <2> HIDE DEF p
    <2> QED BY <2>1, RenameKept, CarryKept
  <1>3. ASSUME NEW b \in Names, Create(d, <<b>>) PROVE KInv'
    <2> DEFINE p == <<b>>
    <2>1. p \in Paths /\ Create(d, p)
      BY <1>1, <1>3
    <2> HIDE DEF p
    <2> QED BY <2>1, CreateKept
  <1> QED BY <1>2, <1>3, EditKept, DeleteKept DEF UserStep

-----------------------------------------------------------------------------
(* The push: what is held while a request is under way.                      *)

\* What stays so of it wherever the request has got to.
HoldBase(sp, t, e) ==
  /\ e.row \in NoteRows /\ SyncFine(sp, e.row) /\ (e.row.file # NoFile => e.row.synced # NoSynced)
  /\ t[e.op.note] # NoRow /\ BasedOn(sp, t[e.op.note].text, e.row.text)
  /\ IsFiniteSet(e.taken) /\ (e.op.kind = "move" => e.op.target \in Paths)

LEMMA HoldIs ==
  ASSUME IInv, KInv, NEW d \in Devices, eng[d].pc \in Pending
  PROVE  /\ Held(remote, rows[d], eng[d]) /\ HoldTrue(remote, rows[d], eng[d])
         /\ HoldFine(remote, spent, rows[d], eng[d]) /\ HoldBase(spent, rows[d], eng[d])
         /\ eng[d].at \in Paths
  BY HeldIs, DeviceKept DEF EngFine, HoldFine, HoldBase

LEMMA NextFine ==
  ASSUME NEW w, NEW sp, NEW t, NEW e, HoldBase(sp, t, e), NEW next, next.op = e.op, next.row = e.row,
         next.taken = e.taken, next.at \in Paths, next.pc \in Pending \ {"weigh"},
         next.pc \in {"aside", "moved"} => e.op.kind = "move",
         next.pc = "landed" => Safe(w, sp, e.row.text.body)
  PROVE  EngFine(w, sp, t, next)
  <1>1. HoldFine(w, sp, t, next)
    BY DEF HoldBase, HoldFine
  <1> QED BY <1>1 DEF EngFine, Pending

\* An op taken up: what is held is what was read of its row.
LEMMA SendingBase ==
  ASSUME IInv, KInv, NEW d \in Devices, NEW op \in ops[d], rows[d][op.note] # NoRow
  PROVE  LET row == rows[d][op.note]  e == Holding(d, op, row)
         IN  /\ HoldBase(spent, rows[d], e) /\ RowFine(remote, spent, row)
             /\ e.op = op /\ e.row = row /\ e.file = row.file /\ e.at = row.path /\ row.path \in Paths
  <1> DEFINE row == rows[d][op.note]  e == Holding(d, op, row)
  <1>1. op.note \in NoteIds /\ RowFine(remote, spent, row)
    <2>1. op.note \in NoteIds
      BY DeviceTrue DEF OpsTrue, OpTrue
    <2> QED BY <2>1, DeviceKept DEF TableFine
  <1>2. row.path \in Paths
    BY <1>1 DEF RowFine, NoteRows
  <1>3. e.op = op /\ e.row = row /\ e.file = row.file /\ e.at = row.path /\ e.taken = {}
    BY DEF Holding
  <1>4. (op.kind = "move" => op.target \in Paths) /\ IsFiniteSet({})
    BY DeviceKept, FS_EmptySet DEF OpsFine
  <1> HIDE DEF e
  <1>5. HoldBase(spent, rows[d], e)
    BY <1>1, <1>3, <1>4 DEF HoldBase, RowFine, BasedOn
  <1> QED BY <1>1, <1>2, <1>3, <1>5 DEF e

\* A request under way that keeps the store and, of the texts, what is wanted.
LEMMA RequestKept ==
  ASSUME IInv, KInv, NEW d \in Devices, NEW e, HoldBase(spent, rows[d], e), NEW next, Goes(d, next),
         RemoteFine(remote'), NewsOnce', Kept(remote, spent, remote', spent),
         next.op = e.op, next.row = e.row, next.taken = e.taken, next.at \in Paths,
         next.pc \in Pending \ {"weigh"}, next.pc \in {"aside", "moved"} => e.op.kind = "move",
         next.pc = "landed" => Safe(remote', spent, e.row.text.body)
  PROVE  KInv'
  <1>1. spent' = spent /\ body' = body /\ EngineAt(d, next) /\ StoreSame
    BY DEF Goes, UsersSame
  <1>2. EngFine(remote', spent, rows[d], next)
    BY NextFine
  <1> QED BY <1>1, <1>2, AskKept

LEMMA RemoteStays ==
  ASSUME KInv, RemoteSame
  PROVE  RemoteFine(remote') /\ NewsOnce' /\ Kept(remote, spent, remote', spent)
  BY KeptSame DEF RemoteSame, KInv, NewsOnce

\* A text put up is there, over one its note's text came of.
LEMMA LandsKept ==
  ASSUME IInv, KInv, NEW d \in Devices, NEW e, Held(remote, rows[d], e), HoldBase(spent, rows[d], e),
         NEW p \in Paths, NEW held, held # NoFile => Reads(remote, held, e.row.synced), Lands(d, e, p, held)
  PROVE  KInv'
  <1>1. e.row.text \in Texts
    BY DEF HoldBase, NoteRows
  <1>2. CASE /\ FilesAt(p) = {} /\ RemoteMakes(p, e.row.text)
             /\ Goes(d, [e EXCEPT !.pc = "landed", !.at = p, !.file = [id |-> Len(remote) + 1, version |-> 0]])
    <2> DEFINE g == [id |-> Len(remote) + 1, version |-> 0]
               next == [e EXCEPT !.pc = "landed", !.at = p, !.file = g]
    <2>1. /\ RemoteFine(remote') /\ NewsOnce' /\ Kept(remote, spent, remote', spent)
          /\ Safe(remote', spent, e.row.text.body)
      BY <1>1, <1>2, MakesKept
    <2>2. Goes(d, next)
      BY <1>2
    <2> HIDE DEF g
    <2>3. next.op = e.op /\ next.row = e.row /\ next.taken = e.taken /\ next.at = p /\ next.pc = "landed"
      BY DEF Held
    <2> HIDE DEF next
    <2> QED BY <2>1, <2>2, <2>3, RequestKept DEF Pending
  <1>3. CASE /\ held # NoFile /\ FilesAt(p) # {} /\ MetAt(p) = held
             /\ RemoteWrites(held.id, e.row.text)
             /\ Goes(d, [e EXCEPT !.pc = "landed", !.at = p, !.file = [held EXCEPT !.version = @ + 1]])
    <2> DEFINE f == FileAt(p)
               g == [held EXCEPT !.version = @ + 1]
               next == [e EXCEPT !.pc = "landed", !.at = p, !.file = g]
    <2>1. f \in Files /\ Alive(f) /\ held = [id |-> f, version |-> remote[f].version]
      BY <1>3, MetIs
    <2>2. held.id = f /\ held.version = remote[f].version
      BY <2>1
    <2>3. remote[f].text = e.row.synced
      BY <1>3, <2>1, <2>2 DEF Reads, Alive
    <2>4. remote[f].text \in Texts
      BY <2>1, DeviceKept DEF RemoteFine, Files, Alive, RemoteFiles
    <2>5. BasedOn(spent, e.row.text, remote[f].text)
      BY <2>3, <2>4, MarkersAssumption DEF HoldBase, SyncFine
    <2>6. /\ RemoteFine(remote') /\ NewsOnce' /\ Kept(remote, spent, remote', spent)
          /\ Safe(remote', spent, e.row.text.body)
      BY <1>1, <1>3, <2>1, <2>2, <2>5, WritesKept
    <2>7. Goes(d, next)
      BY <1>3
    <2> HIDE DEF g
    <2>8. next.op = e.op /\ next.row = e.row /\ next.taken = e.taken /\ next.at = p /\ next.pc = "landed"
      BY DEF Held
    <2> HIDE DEF next
    <2> QED BY <2>6, <2>7, <2>8, RequestKept DEF Pending
  <1> QED BY <1>2, <1>3 DEF Lands

LEMMA MetKept ==
  ASSUME IInv, KInv, NEW d \in Devices, NEW e, Held(remote, rows[d], e), HoldBase(spent, rows[d], e),
         NEW p \in Paths, NEW f, Goes(d, [e EXCEPT !.pc = "met", !.file = f, !.at = p]), RemoteSame
  PROVE  KInv'
  <1> DEFINE next == [e EXCEPT !.pc = "met", !.file = f, !.at = p]
  <1>1. next.op = e.op /\ next.row = e.row /\ next.taken = e.taken /\ next.at = p /\ next.pc = "met"
    BY DEF Held
  <1>2. Goes(d, next)
    OBVIOUS
  <1> HIDE DEF next
  <1> QED BY <1>1, <1>2, RemoteStays, RequestKept DEF Pending

LEMMA MeetsKept ==
  ASSUME IInv, KInv, NEW d \in Devices, NEW e, Held(remote, rows[d], e), HoldBase(spent, rows[d], e),
         NEW p \in Paths, Meets(d, e, p)
  PROVE  KInv'
  <1> DEFINE f == MetAt(p)
  <1>1. Goes(d, [e EXCEPT !.pc = "met", !.file = f, !.at = p]) /\ RemoteSame
    BY DEF Meets
  <1> HIDE DEF f
  <1> QED BY <1>1, MetKept

\* The engine turns to its next request, with nothing else changed.
LEMMA TurnKept ==
  ASSUME IInv, KInv, NEW d \in Devices, NEW e, Held(remote, rows[d], e), HoldBase(spent, rows[d], e),
         e.at \in Paths, NEW pc \in {"create", "missing", "follow", "aside"}, pc = "aside" => e.op.kind = "move",
         Goes(d, [e EXCEPT !.pc = pc]), RemoteSame
  PROVE  KInv'
  <1> DEFINE next == [e EXCEPT !.pc = pc]
  <1>1. next.op = e.op /\ next.row = e.row /\ next.taken = e.taken /\ next.at = e.at /\ next.pc = pc
    BY DEF Held
  <1>2. Goes(d, next)
    OBVIOUS
  <1> HIDE DEF next
  <1> QED BY <1>1, <1>2, RemoteStays, RequestKept DEF Pending

-----------------------------------------------------------------------------
(* What an op achieved, recorded.                                            *)

LEMMA OneRowFine ==
  ASSUME NEW w, NEW sp, NEW t, t = [m \in NoteIds |-> t[m]], TableFine(w, sp, t), NEW n \in NoteIds,
         NEW row, row = NoRow \/ RowFine(w, sp, row),
         Live(t[n]) => Safe(w, sp, t[n].text.body) \/ (Live(row) /\ row.text.body = t[n].text.body)
  PROVE  LET u == [t EXCEPT ![n] = row] IN TableFine(w, sp, u) /\ Carried(w, sp, t, u)
  <1> DEFINE u == [t EXCEPT ![n] = row]
  <1>1. u[n] = row /\ \A m \in NoteIds : m # n => u[m] = t[m]
    OBVIOUS
  <1> HIDE DEF u
  <1>2. TableFine(w, sp, u)
    BY <1>1 DEF TableFine
  <1>3. Carried(w, sp, t, u)
    BY <1>1, CarriedPut
  <1> QED BY <1>2, <1>3 DEF u

LEMMA PushedFine ==
  ASSUME NEW w, RemoteTrue(w), NEW sp, NEW st, StoreTrue(w, st), TableFine(w, sp, st.rows),
         OpsFine(st.ops), NEW s, NEW seq, NEW n \in NoteIds, st.rows[n] # NoRow, NEW sent \in Texts,
         Safe(w, sp, sent.body), BasedOn(sp, st.rows[n].text, sent), NEW at, NEW file, Reads(w, file, sent)
  PROVE  LET u == Pushed(st, s, seq, n, sent, at, file)
         IN  TableFine(w, sp, u.rows) /\ OpsFine(u.ops) /\ Carried(w, sp, st.rows, u.rows)
  <1> DEFINE r == st.rows[n]
             same == r.text = sent
             pushed == [st.rows[n] EXCEPT !.file = file, !.synced = sent, !.dirty = @ /\ ~same]
             q == IF same THEN st.ops ELSE QueueWrite(st.ops, s, n, pushed, seq)
             x == IF pushed.path = at THEN q ELSE QueueMove(q, s + 1, n, pushed, at)
             u == [rows |-> [st.rows EXCEPT ![n] = pushed], ops |-> Without(x, seq)]
  <1>1. u = Pushed(st, s, seq, n, sent, at, file)
    BY DEF Pushed
  <1>2. RowFine(w, sp, r) /\ r \in NoteRows /\ file \in Versions
    BY FileTyped DEF TableFine, RowFine
  <1>3. /\ pushed \in NoteRows /\ pushed.path = r.path /\ pushed.text = r.text
        /\ pushed.dirty = (r.dirty /\ ~same) /\ pushed.deleted = r.deleted /\ pushed.file = file
        /\ pushed.synced = sent
    <2>1. PICK k \in BOOLEAN : k = (r.dirty /\ ~same)
      OBVIOUS
    <2>2. pushed = [r EXCEPT !.file = file, !.synced = sent, !.dirty = k]
      BY <2>1
    <2> HIDE DEF r, same, pushed
    <2>3. /\ pushed \in NoteRows /\ pushed.path = r.path /\ pushed.text = r.text /\ pushed.dirty = k
          /\ pushed.deleted = r.deleted /\ pushed.file = file /\ pushed.synced = sent
      BY <1>2, <2>1, <2>2 DEF NoteRows, Versions
    <2> QED BY <2>1, <2>2, <2>3
  <1> HIDE DEF pushed
  <1>4. RowFine(w, sp, pushed)
    <2>1. SyncFine(sp, pushed)
      BY <1>3 DEF SyncFine
    <2>2. pushed.synced # NoSynced
      BY <1>3, MarkersAssumption
    <2>3. Live(pushed) /\ ~pushed.dirty => Safe(w, sp, pushed.text.body)
      <3>1. CASE same
        BY <1>3, <3>1
      <3>2. CASE ~same
        BY <1>2, <1>3, <3>2 DEF RowFine, Live
      <3> QED BY <3>1, <3>2
    <2> QED BY <1>3, <2>1, <2>2, <2>3 DEF RowFine
  <1>5. Live(r) => Live(pushed) /\ pushed.text.body = r.text.body
    BY <1>3, MarkersAssumption DEF Live
  <1>6. pushed.path \in Paths
    BY <1>3 DEF NoteRows
  <1>7. OpsFine(Without(x, seq))
    <2>1. OpsFine(q)
      BY WriteFine
    <2> HIDE DEF q
    <2>2. OpsFine(x)
      BY <1>6, <2>1, MoveFine
    <2> QED BY <2>2, WithoutFine
  <1> HIDE DEF x
  <1>8. st.rows = [m \in NoteIds |-> st.rows[m]]
    BY DEF StoreTrue, TableTrue
  <1>9. LET y == [st.rows EXCEPT ![n] = pushed] IN TableFine(w, sp, y) /\ Carried(w, sp, st.rows, y)
    BY <1>4, <1>5, <1>8, OneRowFine
  <1> QED BY <1>1, <1>7, <1>9

LEMMA MovedFine ==
  ASSUME NEW w, NEW sp, NEW st, StoreTrue(w, st), TableFine(w, sp, st.rows),
         OpsFine(st.ops), NEW s, NEW seq, NEW n \in NoteIds, st.rows[n] # NoRow,
         st.rows[n].synced # NoSynced, NEW at \in Paths, NEW file \in Versions
  PROVE  LET u == Moved(st, s, seq, n, at, file)
         IN  TableFine(w, sp, u.rows) /\ OpsFine(u.ops) /\ Carried(w, sp, st.rows, u.rows)
  <1> DEFINE r == st.rows[n]
             bound == [st.rows[n] EXCEPT !.file = file]
             there == [bound EXCEPT !.path = at]
             u == Moved(st, s, seq, n, at, file)
  <1>1. u = IF Queued(st.ops, seq)
            THEN [rows |-> [st.rows EXCEPT ![n] = there], ops |-> Without(st.ops, seq)]
            ELSE [rows |-> [st.rows EXCEPT ![n] = bound], ops |-> QueueMove(st.ops, s, n, bound, at)]
    BY DEF Moved
  <1> HIDE DEF u
  <1>2. RowFine(w, sp, r) /\ r \in NoteRows
    BY DEF TableFine, RowFine
  <1>3. /\ bound \in NoteRows /\ bound # NoRow /\ bound.path = r.path /\ bound.text = r.text
        /\ bound.dirty = r.dirty /\ bound.deleted = r.deleted /\ bound.file = file /\ bound.synced = r.synced
    BY <1>2, FileRow
  <1> HIDE DEF bound
  <1>4. /\ there \in NoteRows /\ there # NoRow /\ there.path = at /\ there.text = r.text
        /\ there.dirty = r.dirty /\ there.deleted = r.deleted /\ there.file = file /\ there.synced = r.synced
    BY <1>3, PathRow
  <1> HIDE DEF there
  <1>5. ASSUME NEW x, x \in {bound, there}
        PROVE  /\ RowFine(w, sp, x)
               /\ Live(r) => Live(x) /\ x.text.body = r.text.body
    BY <1>2, <1>3, <1>4, <1>5 DEF RowFine, SyncFine, Live
  <1>6. bound.path \in Paths
    BY <1>3 DEF NoteRows
  <1>7. OpsFine(Without(st.ops, seq)) /\ OpsFine(QueueMove(st.ops, s, n, bound, at))
    BY <1>6, WithoutFine, MoveFine
  <1>8. st.rows = [m \in NoteIds |-> st.rows[m]]
    BY DEF StoreTrue, TableTrue
  <1>9. ASSUME NEW x, x \in {bound, there}
        PROVE  LET y == [st.rows EXCEPT ![n] = x] IN TableFine(w, sp, y) /\ Carried(w, sp, st.rows, y)
    BY <1>5, <1>8, <1>9, OneRowFine
  <1>10. CASE Queued(st.ops, seq)
    <2>1. u.rows = [st.rows EXCEPT ![n] = there] /\ u.ops = Without(st.ops, seq)
      BY <1>1, <1>10
    <2> QED BY <2>1, <1>7, <1>9 DEF u
  <1>11. CASE ~Queued(st.ops, seq)
    <2>1. u.rows = [st.rows EXCEPT ![n] = bound] /\ u.ops = QueueMove(st.ops, s, n, bound, at)
      BY <1>1, <1>11
    <2> QED BY <2>1, <1>7, <1>9 DEF u
  <1> QED BY <1>10, <1>11

LEMMA PurgedFine ==
  ASSUME NEW w, NEW sp, NEW st, StoreTrue(w, st), TableFine(w, sp, st.rows), OpsFine(st.ops),
         NEW s, NEW seq, NEW n \in NoteIds, st.rows[n] # NoRow
  PROVE  LET u == Purged(st, s, seq, n)
         IN  TableFine(w, sp, u.rows) /\ OpsFine(u.ops) /\ Carried(w, sp, st.rows, u.rows)
  <1> DEFINE r == st.rows[n]
             restored == [WithoutRemote(st.rows[n]) EXCEPT !.dirty = TRUE]
             u == Purged(st, s, seq, n)
  <1>1. u = IF Live(r)
            THEN [rows |-> [st.rows EXCEPT ![n] = restored],
                  ops |-> Without(QueueWrite(st.ops, s, n, restored, NoSeq), seq)]
            ELSE [rows |-> [st.rows EXCEPT ![n] = NoRow], ops |-> Without(st.ops, seq)]
    BY DEF Purged
  <1> HIDE DEF u
  <1>2. RowFine(w, sp, r) /\ r \in NoteRows
    BY DEF TableFine, RowFine
  <1>3. /\ restored \in NoteRows /\ restored.text = r.text /\ restored.dirty
        /\ restored.deleted = r.deleted /\ restored.file = NoFile /\ restored.synced = NoSynced
    BY <1>2, LooseRow
  <1> HIDE DEF restored
  <1>4. RowFine(w, sp, restored) /\ (Live(r) => Live(restored) /\ restored.text.body = r.text.body)
    BY <1>2, <1>3, MarkersAssumption DEF RowFine, SyncFine, Live
  <1>5. st.rows = [m \in NoteIds |-> st.rows[m]]
    BY DEF StoreTrue, TableTrue
  <1>6. CASE Live(r)
    <2>1. /\ u.rows = [st.rows EXCEPT ![n] = restored]
          /\ u.ops = Without(QueueWrite(st.ops, s, n, restored, NoSeq), seq)
      BY <1>1, <1>6
    <2>2. OpsFine(u.ops)
      BY <2>1, WriteFine, WithoutFine
    <2>3. LET y == [st.rows EXCEPT ![n] = restored] IN TableFine(w, sp, y) /\ Carried(w, sp, st.rows, y)
      BY <1>4, <1>5, <1>6, OneRowFine
    <2> QED BY <2>1, <2>2, <2>3 DEF u
  <1>7. CASE ~Live(r)
    <2>1. u.rows = [st.rows EXCEPT ![n] = NoRow] /\ u.ops = Without(st.ops, seq)
      BY <1>1, <1>7
    <2>2. OpsFine(u.ops)
      BY <2>1, WithoutFine
    <2>3. LET y == [st.rows EXCEPT ![n] = NoRow] IN TableFine(w, sp, y) /\ Carried(w, sp, st.rows, y)
      BY <1>5, <1>7, OneRowFine
    <2> QED BY <2>1, <2>2, <2>3 DEF u
  <1> QED BY <1>6, <1>7

-----------------------------------------------------------------------------
(* The push, step by step.                                                   *)

LEMMA PassKept ==
  ASSUME IInv, KInv, NEW d \in Devices, PassOver(d)
  PROVE  KInv'
  <1>1. PICK s : Settle(d, s, Store(d))
    BY DEF PassOver
  <1> QED BY <1>1, DeviceKept, CarriedSame, SettleKept

LEMMA NothingKept ==
  ASSUME IInv, KInv, NEW d \in Devices, NEW op \in ops[d], SendNothing(d, op)
  PROVE  KInv'
  <1>1. StoreTrue(remote, Store(d)) /\ op.note \in NoteIds
    BY DeviceTrue DEF OpsTrue, OpTrue
  <1>2. CASE Settle(d, op.seq, Done(Store(d), op.seq))
    <2> DEFINE u == Done(Store(d), op.seq)
    <2>1. u.rows = rows[d] /\ u.ops = Without(ops[d], op.seq)
      BY DEF Done, Store
    <2>2. TableFine(remote, spent, u.rows) /\ Carried(remote, spent, rows[d], u.rows)
      BY <2>1, DeviceKept, CarriedSame
    <2>3. OpsFine(u.ops)
      BY <2>1, DeviceKept, WithoutFine
    <2> HIDE DEF u
    <2> QED BY <1>2, <2>2, <2>3, SettleKept DEF u
  <1>3. CASE rows[d][op.note] # NoRow /\ Settle(d, op.seq, Purged(Store(d), NextOp(d), op.seq, op.note))
    <2> DEFINE n == op.note  st == Store(d)  s == NextOp(d)  seq == op.seq
               u == Purged(st, s, seq, n)
    <2>1. TableFine(remote, spent, st.rows) /\ OpsFine(st.ops) /\ st.rows = rows[d]
      BY DeviceKept
    <2>2. n \in NoteIds /\ st.rows[n] # NoRow /\ StoreTrue(remote, st) /\ Settle(d, seq, u)
      BY <1>1, <1>3, <2>1
    <2> HIDE DEF n, st, s, seq
    <2>3. TableFine(remote, spent, u.rows) /\ OpsFine(u.ops) /\ Carried(remote, spent, st.rows, u.rows)
      BY <2>1, <2>2, PurgedFine
    <2> HIDE DEF u
    <2> QED BY <2>1, <2>2, <2>3, SettleKept
  <1> QED BY <1>2, <1>3 DEF SendNothing

LEMMA WriteKept ==
  ASSUME IInv, KInv, NEW d \in Devices, NEW op \in ops[d], SendWrite(d, op)
  PROVE  KInv'
  <1> DEFINE row == rows[d][op.note]  e == Holding(d, op, row)
  <1>1. rows[d][op.note] # NoRow
    BY DEF SendWrite, Sending
  <1>2. Held(remote, rows[d], e) /\ RowTrue(remote, row) /\ e.row = row
    BY <1>1, SendingHeld
  <1>3. HoldBase(spent, rows[d], e) /\ e.at = row.path /\ row.path \in Paths
    BY <1>1, SendingBase
  <1>4. \/ Lands(d, e, row.path, row.file) \/ Meets(d, e, row.path)
        \/ Goes(d, [e EXCEPT !.pc = "missing"]) /\ RemoteSame
    BY DEF SendWrite
  <1>5. row.file # NoFile => Reads(remote, row.file, e.row.synced)
    BY <1>2, FileIs
  <1> HIDE DEF e, row
  <1> QED BY <1>2, <1>3, <1>4, <1>5, LandsKept, MeetsKept, TurnKept

LEMMA LookKept ==
  ASSUME IInv, KInv, NEW d \in Devices, LookForOwn(d)
  PROVE  KInv'
  <1> DEFINE e == eng[d]
  <1>1. Held(remote, rows[d], e) /\ HoldBase(spent, rows[d], e) /\ e.at \in Paths
    BY HoldIs DEF LookForOwn, At, Pending
  <1>2. \/ Goes(d, [e EXCEPT !.pc = "create"]) /\ RemoteSame
        \/ Goes(d, [e EXCEPT !.pc = "follow"]) /\ RemoteSame
        \/ Fail(d)
    BY DEF LookForOwn
  <1> HIDE DEF e
  <1> QED BY <1>1, <1>2, TurnKept, FailKept

LEMMA AgainKept ==
  ASSUME IInv, KInv, NEW d \in Devices, CreateAgain(d)
  PROVE  KInv'
  <1> DEFINE e == [eng[d] EXCEPT !.file = NoFile]
  <1>1. Held(remote, rows[d], eng[d]) /\ HoldBase(spent, rows[d], eng[d])
    BY HoldIs DEF CreateAgain, At, Pending
  <1>2. Held(remote, rows[d], e) /\ e.row = eng[d].row /\ e.op = eng[d].op /\ e.taken = eng[d].taken
    BY <1>1 DEF Held
  <1>3. Lands(d, e, e.row.path, NoFile) \/ Meets(d, e, e.row.path)
    BY DEF CreateAgain
  <1> HIDE DEF e
  <1>4. HoldBase(spent, rows[d], e) /\ e.row.path \in Paths
    BY <1>1, <1>2 DEF HoldBase, NoteRows
  <1> QED BY <1>2, <1>3, <1>4, LandsKept, MeetsKept

\* What is not blocked has the path to itself.
LEMMA FreeToMove ==
  ASSUME NEW f, NEW p, ~Blocked(f, p)
  PROVE  \A g \in Files \ {f} : Alive(g) => remote[g].path # p
  BY DEF Blocked, FilesAt

LEMMA FollowKept ==
  ASSUME IInv, KInv, NEW d \in Devices, Follow(d)
  PROVE  KInv'
  <1> DEFINE e == eng[d]  f == e.row.file.id  p == e.row.path
             pc == IF MovedVersion(f) = e.row.file.version THEN "rewrite" ELSE "followed"
             next == [e EXCEPT !.pc = pc]
  <1>1. Held(remote, rows[d], e) /\ HoldBase(spent, rows[d], e) /\ e.at \in Paths /\ e.row.file # NoFile
    BY HoldIs DEF Follow, At, Pending, HoldTrue, OwnFile
  <1>2. f \in Files /\ p \in Paths
    BY <1>1, FileIs DEF Held, HoldBase, NoteRows
  <1>3. CASE Fail(d)
    BY <1>3, FailKept
  <1>4. CASE RemoteSame /\ Goes(d, [e EXCEPT !.pc = "met", !.file = MetAt(p), !.at = p])
    <2> DEFINE g == MetAt(p)
    <2>1. Goes(d, [e EXCEPT !.pc = "met", !.file = g, !.at = p])
      BY <1>4
    <2> HIDE DEF e, g, p
    <2> QED BY <1>1, <1>2, <1>4, <2>1, MetKept
  <1>5. CASE Alive(f) /\ ~Blocked(f, p) /\ RemoteMoves(f, p) /\ Goes(d, next)
    <2>1. RemoteFine(remote') /\ NewsOnce' /\ Kept(remote, spent, remote', spent)
      <3> HIDE DEF f, p
      <3> QED BY <1>2, <1>5, FreeToMove, MovesKept
    <2>2. pc \in {"rewrite", "followed"}
      OBVIOUS
    <2> HIDE DEF pc
    <2>3. next.op = e.op /\ next.row = e.row /\ next.taken = e.taken /\ next.at = e.at /\ next.pc = pc
      BY <1>1 DEF Held
    <2> HIDE DEF next, e
    <2> QED BY <1>1, <1>5, <2>1, <2>2, <2>3, RequestKept DEF Pending
  <1> QED BY <1>3, <1>4, <1>5 DEF Follow

LEMMA AskVersionKept ==
  ASSUME IInv, KInv, NEW d \in Devices, AskVersion(d)
  PROVE  KInv'
  <1> DEFINE e == eng[d]  g == FileOf(EntryOf(e.row.file.id))
             next == [e EXCEPT !.pc = "rewrite", !.file = g]
  <1>1. Held(remote, rows[d], e) /\ HoldBase(spent, rows[d], e) /\ e.at \in Paths
    BY HoldIs DEF AskVersion, At, Pending
  <1>2. CASE Goes(d, next) /\ RemoteSame
    <2> HIDE DEF g
    <2>1. next.op = e.op /\ next.row = e.row /\ next.taken = e.taken /\ next.at = e.at /\ next.pc = "rewrite"
      BY <1>1 DEF Held
    <2> HIDE DEF next, e
    <2> QED BY <1>1, <1>2, <2>1, RemoteStays, RequestKept DEF Pending
  <1> QED BY <1>2, FailKept DEF AskVersion

LEMMA RewriteKept ==
  ASSUME IInv, KInv, NEW d \in Devices, Rewrite(d)
  PROVE  KInv'
  <1> DEFINE e == eng[d]
  <1>1. /\ Held(remote, rows[d], e) /\ Reads(remote, e.file, e.row.synced)
        /\ HoldBase(spent, rows[d], e)
    BY HoldIs DEF Rewrite, At, Pending, HoldTrue
  <1>2. Lands(d, e, e.row.path, e.file) \/ Meets(d, e, e.row.path) \/ Fail(d)
    BY DEF Rewrite
  <1>3. e.row.path \in Paths
    BY <1>1 DEF HoldBase, NoteRows
  <1> HIDE DEF e
  <1> QED BY <1>1, <1>2, <1>3, LandsKept, MeetsKept, FailKept

\* A text that is up, over the note as it now stands.
LEMMA UpKept ==
  ASSUME IInv, KInv, NEW d \in Devices, NEW e, Held(remote, rows[d], e), HoldBase(spent, rows[d], e),
         Safe(remote, spent, e.row.text.body), Reads(remote, e.file, e.row.text),
         Settle(d, e.op.seq,
                Pushed(Store(d), NextOp(d), e.op.seq, e.op.note, e.row.text, e.at, e.file))
  PROVE  KInv'
  <1> DEFINE n == e.op.note  st == Store(d)  s == NextOp(d)  seq == e.op.seq  sent == e.row.text
             at == e.at  file == e.file  u == Pushed(st, s, seq, n, sent, at, file)
  <1>1. /\ TableFine(remote, spent, st.rows) /\ OpsFine(st.ops) /\ st.rows = rows[d]
        /\ RemoteTrue(remote) /\ StoreTrue(remote, st)
    BY DeviceKept, DeviceTrue
  <1>2. /\ n \in NoteIds /\ st.rows[n] # NoRow /\ sent \in Texts /\ BasedOn(spent, st.rows[n].text, sent)
    BY <1>1 DEF Held, HoldBase, NoteRows
  <1>3. Settle(d, seq, u) /\ Safe(remote, spent, sent.body) /\ Reads(remote, file, sent)
    OBVIOUS
  <1> HIDE DEF n, st, s, seq, sent, at, file
  <1>4. TableFine(remote, spent, u.rows) /\ OpsFine(u.ops) /\ Carried(remote, spent, st.rows, u.rows)
    BY <1>1, <1>2, <1>3, PushedFine
  <1> HIDE DEF u
  <1> QED BY <1>1, <1>3, <1>4, SettleKept

LEMMA RecordPushKept ==
  ASSUME IInv, KInv, NEW d \in Devices, RecordPush(d)
  PROVE  KInv'
  <1> DEFINE e == eng[d]
  <1>1. /\ Held(remote, rows[d], e) /\ HoldBase(spent, rows[d], e) /\ Reads(remote, e.file, e.row.text)
        /\ Safe(remote, spent, e.row.text.body)
    BY HoldIs DEF RecordPush, At, Pending, HoldTrue, HoldFine
  <1>2. Settle(d, e.op.seq,
               Pushed(Store(d), NextOp(d), e.op.seq, e.op.note, e.row.text, e.at, e.file))
    BY DEF RecordPush
  <1> HIDE DEF e
  <1> QED BY <1>1, <1>2, UpKept

LEMMA MovedHeldKept ==
  ASSUME IInv, KInv, NEW d \in Devices, NEW e, Held(remote, rows[d], e), HoldBase(spent, rows[d], e),
         e.op.kind = "move", NEW f \in Files, Alive(f), NEW p \in Paths, RemoteMoves(f, p),
         \A g \in Files \ {f} : Alive(g) => remote[g].path # p, NEW v,
         Goes(d, [e EXCEPT !.pc = "moved", !.at = p, !.file.version = v])
  PROVE  KInv'
  <1> DEFINE next == [e EXCEPT !.pc = "moved", !.at = p, !.file.version = v]
  <1>1. RemoteFine(remote') /\ NewsOnce' /\ Kept(remote, spent, remote', spent)
    BY MovesKept
  <1>2. next.op = e.op /\ next.row = e.row /\ next.taken = e.taken /\ next.at = p /\ next.pc = "moved"
    BY DEF Held
  <1>3. Goes(d, next)
    OBVIOUS
  <1> HIDE DEF next
  <1> QED BY <1>1, <1>2, <1>3, RequestKept DEF Pending

LEMMA MoveKept ==
  ASSUME IInv, KInv, NEW d \in Devices, NEW op \in ops[d], SendMove(d, op)
  PROVE  KInv'
  <1> DEFINE row == rows[d][op.note]  e == Holding(d, op, row)  f == row.file.id  p == op.target
             v == MovedVersion(f)
  <1>1. rows[d][op.note] # NoRow /\ op.kind = "move" /\ row.file # NoFile /\ Alive(f)
    BY DEF SendMove, Sending
  <1>2. /\ Held(remote, rows[d], e) /\ RowTrue(remote, row) /\ e.op = op
    BY <1>1, SendingHeld
  <1>3. HoldBase(spent, rows[d], e) /\ e.at \in Paths
    BY <1>1, SendingBase
  <1>4. f \in Files /\ p \in Paths
    BY <1>1, <1>2, FileIs, DeviceKept DEF OpsFine
  <1>5. \/ Goes(d, [e EXCEPT !.pc = "aside"]) /\ RemoteSame
        \/ /\ ~Blocked(f, p) /\ RemoteMoves(f, p)
           /\ Goes(d, [e EXCEPT !.pc = "moved", !.at = p, !.file.version = v])
    BY DEF SendMove
  <1> HIDE DEF e, row, f, p, v
  <1>6. CASE Goes(d, [e EXCEPT !.pc = "aside"]) /\ RemoteSame
    BY <1>1, <1>2, <1>3, <1>6, TurnKept
  <1>7. CASE /\ ~Blocked(f, p) /\ RemoteMoves(f, p)
             /\ Goes(d, [e EXCEPT !.pc = "moved", !.at = p, !.file.version = v])
    BY <1>1, <1>2, <1>3, <1>4, <1>7, FreeToMove, MovedHeldKept
  <1> QED BY <1>5, <1>6, <1>7

LEMMA FilesFinite ==
  ASSUME IInv, NEW S \in SUBSET Files
  PROVE  IsFiniteSet({remote[g].path : g \in S})
  <1> DEFINE h == [g \in Files |-> remote[g].path]
  <1>1. IsFiniteSet(Files)
    BY SeqIs, FS_Interval DEF IInv, RemoteTrue, Files
  <1>2. IsFiniteSet(S)
    BY <1>1, FS_Subset
  <1>3. IsFiniteSet({h[g] : g \in S})
    <2> HIDE DEF h
    <2> QED BY <1>2, ImageFinite
  <1>4. {h[g] : g \in S} = {remote[g].path : g \in S}
    OBVIOUS
  <1> QED BY <1>3, <1>4

LEMMA MoveAsideKept ==
  ASSUME IInv, KInv, NEW d \in Devices, MoveAside(d)
  PROVE  KInv'
  <1> DEFINE e == eng[d]  f == e.row.file.id  S == {h \in Files \ {f} : Alive(h)}
             taken == {remote[g].path : g \in S}
             p == ConflictPath(e.op.target, taken)
             v == MovedVersion(f)
  <1>1. /\ Held(remote, rows[d], e) /\ HoldBase(spent, rows[d], e) /\ e.row.file # NoFile
        /\ e.op.kind = "move" /\ e.op.target \in Paths
    BY HoldIs DEF MoveAside, At, Pending, HoldTrue, OwnFile, HoldFine
  <1>2. f \in Files
    BY <1>1, FileIs DEF Held
  <1>3. CASE ~Alive(f)
    BY <1>3, FailKept DEF MoveAside
  <1>4. CASE Alive(f)
    <2>1. RemoteMoves(f, p) /\ Goes(d, [e EXCEPT !.pc = "moved", !.at = p, !.file.version = v])
      BY <1>4 DEF MoveAside
    <2>2. IsFiniteSet(taken)
      <3>1. S \in SUBSET Files
        OBVIOUS
      <3> HIDE DEF S
      <3> QED BY <3>1, FilesFinite
    <2>3. p \in Paths /\ p \notin taken
      <3> HIDE DEF taken
      <3> QED BY <1>1, <2>2, NameIsFree
    <2> HIDE DEF p
    <2>4. \A g \in Files \ {f} : Alive(g) => remote[g].path # p
      BY <2>3
    <2> HIDE DEF v, e, f
    <2> QED BY <1>1, <1>2, <1>4, <2>1, <2>3, <2>4, MovedHeldKept
  <1> QED BY <1>3, <1>4

LEMMA RecordMoveKept ==
  ASSUME IInv, KInv, NEW d \in Devices, RecordMove(d)
  PROVE  KInv'
  <1> DEFINE e == eng[d]  g == MovedFile(e)  n == e.op.note  st == Store(d)  s == NextOp(d)
             seq == e.op.seq  at == e.at  u == Moved(st, s, seq, n, at, g)
  <1>1. /\ Held(remote, rows[d], e) /\ HoldBase(spent, rows[d], e) /\ e.row.file # NoFile
        /\ e.file = [id |-> e.row.file.id, version |-> e.file.version]
        /\ rows[d][e.op.note].synced = e.row.synced /\ e.at \in Paths
    BY HoldIs DEF RecordMove, At, Pending, HoldTrue, OwnFile
  <1>2. /\ e.row.file = [id |-> e.row.file.id, version |-> e.row.file.version]
        /\ e.row.file.id \in Files /\ Reads(remote, e.row.file, e.row.synced)
    BY <1>1, FileIs DEF Held
  <1>3. e.file.id = e.row.file.id
    <2> DEFINE a == e.row.file.id  b == e.file.version
    <2>1. e.file = [id |-> a, version |-> b]
      BY <1>1
    <2> HIDE DEF a, b
    <2>2. e.file.id = a
      BY <2>1
    <2> QED BY <2>2 DEF a
  <1>4. g \in Versions
    <2>1. CASE e.file.version = e.row.file.version
      <3>1. e.file = e.row.file
        BY <1>1, <1>2, <2>1
      <3>2. g = e.file
        BY <2>1 DEF MovedFile
      <3> QED BY <3>1, <3>2, <1>2, FileTyped, DeviceTrue
    <2>2. CASE e.file.version # e.row.file.version /\ Alive(e.file.id) /\ remote[e.file.id].text = e.row.synced
      <3>1. Reads(remote, FileOf(EntryOf(e.file.id)), remote[e.file.id].text)
        BY <1>2, <1>3, <2>2, EntryIs
      <3>2. g = FileOf(EntryOf(e.file.id))
        BY <2>2 DEF MovedFile
      <3> QED BY <3>1, <3>2, FileTyped, DeviceTrue
    <2>3. CASE /\ e.file.version # e.row.file.version
               /\ ~(Alive(e.file.id) /\ remote[e.file.id].text = e.row.synced)
      <3>1. g = e.row.file
        BY <2>3 DEF MovedFile
      <3> QED BY <3>1, <1>2, FileTyped, DeviceTrue
    <2> QED BY <2>1, <2>2, <2>3
  <1>5. Settle(d, seq, u)
    BY DEF RecordMove
  <1>6. /\ TableFine(remote, spent, st.rows) /\ OpsFine(st.ops) /\ st.rows = rows[d]
        /\ StoreTrue(remote, st)
    BY DeviceKept, DeviceTrue
  <1>7. n \in NoteIds /\ st.rows[n] # NoRow /\ st.rows[n].synced # NoSynced /\ at \in Paths
    BY <1>1, <1>6 DEF Held, HoldBase
  <1> HIDE DEF g, n, st, s, seq, at
  <1>8. TableFine(remote, spent, u.rows) /\ OpsFine(u.ops) /\ Carried(remote, spent, st.rows, u.rows)
    BY <1>4, <1>6, <1>7, MovedFine
  <1> HIDE DEF u
  <1> QED BY <1>5, <1>6, <1>8, SettleKept

LEMMA SendDeleteKept ==
  ASSUME IInv, KInv, NEW d \in Devices, NEW op \in ops[d], SendDelete(d, op)
  PROVE  KInv'
  <1> DEFINE row == rows[d][op.note]  e == Holding(d, op, row)  f == row.file.id
             next == [e EXCEPT !.pc = "purge"]
  <1>1. /\ rows[d][op.note] # NoRow /\ row.file # NoFile /\ EngineAt(d, next) /\ StoreSame /\ body' = body
    BY DEF SendDelete, Sending
  <1>2. Held(remote, rows[d], e) /\ RowTrue(remote, row)
    BY <1>1, SendingHeld
  <1>3. HoldBase(spent, rows[d], e) /\ e.at \in Paths
    BY <1>1, SendingBase
  <1>4. f \in Files
    BY <1>1, <1>2, FileIs
  <1>5. /\ spent \subseteq spent' /\ RemoteFine(remote') /\ NewsOnce' /\ Kept(remote, spent, remote', spent')
    <2>1. CASE Alive(f)
      <3> DEFINE sq == spent \cup {remote[f].text.body}
      <3>1. RemoteSet(f, Gone) /\ spent' = sq
        BY <2>1 DEF SendDelete
      <3>2. RemoteFine(remote') /\ NewsOnce' /\ Kept(remote, spent, remote', sq)
        <4> HIDE DEF f
        <4> QED BY <1>4, <2>1, <3>1, GoneKept
      <3> QED BY <3>1, <3>2
    <2>2. CASE ~Alive(f)
      <3>1. RemoteSame /\ spent' = spent
        BY <2>2 DEF SendDelete
      <3> QED BY <3>1, RemoteStays
    <2> QED BY <2>1, <2>2
  <1>6. next.op = e.op /\ next.row = e.row /\ next.taken = e.taken /\ next.at = e.at /\ next.pc = "purge"
    BY <1>2 DEF Held
  <1> HIDE DEF next, e
  <1>7. HoldBase(spent', rows[d], e)
    BY <1>3, <1>5 DEF HoldBase, SyncFine, BasedOn
  <1>8. EngFine(remote', spent', rows[d], next)
    BY <1>3, <1>6, <1>7, NextFine DEF Pending
  <1> QED BY <1>1, <1>5, <1>8, AskKept

LEMMA RecordPurgeKept ==
  ASSUME IInv, KInv, NEW d \in Devices, RecordPurge(d)
  PROVE  KInv'
  <1> DEFINE e == eng[d]  n == e.op.note  st == Store(d)  s == NextOp(d)  seq == e.op.seq
             u == Purged(st, s, seq, n)
  <1>1. Held(remote, rows[d], e) /\ HoldBase(spent, rows[d], e)
    BY HoldIs DEF RecordPurge, At, Pending
  <1>2. /\ TableFine(remote, spent, st.rows) /\ OpsFine(st.ops) /\ st.rows = rows[d] /\ StoreTrue(remote, st)
    BY DeviceKept, DeviceTrue
  <1>3. n \in NoteIds /\ st.rows[n] # NoRow /\ Settle(d, seq, u)
    BY <1>1, <1>2 DEF Held, HoldBase, RecordPurge
  <1> HIDE DEF n, st, s, seq
  <1>4. TableFine(remote, spent, u.rows) /\ OpsFine(u.ops) /\ Carried(remote, spent, st.rows, u.rows)
    BY <1>2, <1>3, PurgedFine
  <1> HIDE DEF u
  <1> QED BY <1>2, <1>3, <1>4, SettleKept

LEMMA PushKept ==
  ASSUME IInv, KInv, NEW d \in Devices, Push(d)
  PROVE  KInv'
  <1>1. CASE \E op \in ops[d] : SendNothing(d, op) \/ SendWrite(d, op) \/ SendMove(d, op) \/ SendDelete(d, op)
    BY <1>1, NothingKept, WriteKept, MoveKept, SendDeleteKept
  <1> QED BY <1>1, PassKept, LookKept, AgainKept, FollowKept, AskVersionKept, RewriteKept, MoveAsideKept,
             RecordPushKept, RecordMoveKept, RecordPurgeKept DEF Push

-----------------------------------------------------------------------------
(* A write that met another file.                                            *)

LEMMA MeetKept ==
  ASSUME IInv, KInv, NEW d \in Devices, Meet(d)
  PROVE  KInv'
  <1> DEFINE e == eng[d]  f == e.file.id  v == remote[f].version  text == remote[f].text
             row == rows[d][e.op.note]
             next == [pc |-> "weigh", left |-> e.left, op |-> e.op, row |-> row, file |-> e.file,
                      at |-> e.at, taken |-> {}, text |-> text, version |-> v]
  <1>1. /\ Held(remote, rows[d], e) /\ Known(remote, e.file) /\ HoldBase(spent, rows[d], e)
        /\ e.at \in Paths
    BY HoldIs DEF Meet, At, Pending, HoldTrue
  <1>2. CASE ~Alive(f)
    BY <1>2, FailKept DEF Meet
  <1>3. CASE Alive(f)
    <2>1. EngineAt(d, next) /\ StoreSame /\ RemoteSame /\ UNCHANGED <<body, spent>>
      BY <1>3 DEF Meet, UsersSame
    <2>2. text \in Texts /\ Safe(remote, spent, text.body)
      <3>1. f \in DOMAIN remote /\ remote[f] # Gone
        BY <1>1, <1>3 DEF Known, Alive
      <3> QED BY <3>1, DeviceKept DEF RemoteFine, RemoteFiles, Safe
    <2>3. row # NoRow /\ RowFine(remote, spent, row)
      BY <1>1, DeviceKept DEF HoldBase, Held, TableFine
    <2>4. EngFine(remote, spent, rows[d], next)
      <3> DEFINE op == e.op  at == e.at
      <3>1. op = e.op /\ at = e.at /\ row = rows[d][op.note]
        OBVIOUS
      <3> HIDE DEF v, text, e, f, row, op, at
      <3>2. /\ next.pc = "weigh" /\ next.op = op /\ next.row = row /\ next.at = at /\ next.taken = {}
            /\ next.text = text
        BY <3>1
      <3> HIDE DEF next
      <3>3. HoldFine(remote, spent, rows[d], next)
        BY <1>1, <2>2, <2>3, <3>1, <3>2, FS_EmptySet DEF HoldFine, HoldBase, RowFine, BasedOn
      <3> QED BY <3>2, <3>3 DEF EngFine
    <2> HIDE DEF next
    <2> QED BY <2>1, <2>4, ThinkKept
  <1> QED BY <1>2, <1>3

\* What was read of the file in the way.
LEMMA WeighFine ==
  ASSUME IInv, KInv, NEW d \in Devices, At(d, "weigh")
  PROVE  LET e == eng[d]
         IN  /\ Held(remote, rows[d], e) /\ HoldBase(spent, rows[d], e) /\ e.at \in Paths
             /\ e.text \in Texts /\ Safe(remote, spent, e.text.body)
  BY HoldIs DEF At, Pending, HoldFine

LEMMA OverKept ==
  ASSUME IInv, KInv, NEW d \in Devices, PushOver(d)
  PROVE  KInv'
  <1> DEFINE e == eng[d]  read == [e.file EXCEPT !.version = e.version]
  <1>1. At(d, "weigh") /\ e.text = e.row.synced
    BY DEF PushOver, OwnUnchanged
  <1>2. Held(remote, rows[d], e) /\ HoldBase(spent, rows[d], e) /\ Reads(remote, read, e.row.synced)
    BY <1>1, WeighIs, WeighFine
  <1>3. Lands(d, e, e.row.path, read) \/ Fail(d)
    BY DEF PushOver
  <1>4. e.row.path \in Paths
    BY <1>2 DEF HoldBase, NoteRows
  <1> HIDE DEF e, read
  <1> QED BY <1>2, <1>3, <1>4, LandsKept, FailKept

LEMMA SameKept ==
  ASSUME IInv, KInv, NEW d \in Devices, SameBytes(d)
  PROVE  KInv'
  <1> DEFINE e == eng[d]
  <1>1. At(d, "weigh") /\ e.text = e.row.text
    BY DEF SameBytes
  <1>2. /\ Held(remote, rows[d], e) /\ HoldBase(spent, rows[d], e) /\ Reads(remote, e.file, e.row.text)
        /\ Safe(remote, spent, e.row.text.body)
    BY <1>1, WeighIs, WeighFine
  <1>3. Settle(d, e.op.seq,
               Pushed(Store(d), NextOp(d), e.op.seq, e.op.note, e.row.text, e.at, e.file))
    BY DEF SameBytes
  <1> HIDE DEF e
  <1> QED BY <1>2, <1>3, UpKept

\* A note put at another path, bound as it was or to nothing.
LEMMA DisplacedFine ==
  ASSUME NEW w, NEW sp, NEW st, st.rows = [m \in NoteIds |-> st.rows[m]], OpsTrue(st.ops),
         TableFine(w, sp, st.rows), OpsFine(st.ops), NEW c, c.note \in NoteIds, c.path \in Paths,
         st.rows[c.note] # NoRow
  PROVE  LET u == DisplaceNote(st, c)
         IN  /\ TableFine(w, sp, u.rows) /\ OpsFine(u.ops) /\ Carried(w, sp, st.rows, u.rows)
             /\ u.rows[c.note] # NoRow /\ u.rows[c.note].text = st.rows[c.note].text
  <1> DEFINE n == c.note  r == st.rows[n]
             row == [st.rows[n] EXCEPT !.path = c.path]
             q == RebaseOwnOps(st.ops, n, r.path, c.path)
             t == [st.rows EXCEPT ![n] = row]
             u == DisplaceNote(st, c)
  <1>1. u.rows = t /\ u.ops = q
    BY DEF DisplaceNote
  <1> HIDE DEF u
  <1>2. RowFine(w, sp, r) /\ r \in NoteRows
    BY DEF TableFine, RowFine
  <1>3. OpsFine(q)
    BY RebaseFine
  <1> HIDE DEF q
  <1>4. /\ row \in NoteRows /\ row # NoRow /\ row.path = c.path /\ row.text = r.text /\ row.dirty = r.dirty
        /\ row.deleted = r.deleted /\ row.file = r.file /\ row.synced = r.synced
    BY <1>2, PathRow
  <1> HIDE DEF row
  <1>5. RowFine(w, sp, row) /\ (Live(r) => Live(row) /\ row.text.body = r.text.body)
    BY <1>2, <1>4 DEF RowFine, SyncFine, Live
  <1>6. t[n] = row
    OBVIOUS
  <1>7. TableFine(w, sp, t) /\ Carried(w, sp, st.rows, t)
    <2>1. n \in NoteIds
      OBVIOUS
    <2> HIDE DEF n
    <2>2. LET y == [st.rows EXCEPT ![n] = row] IN TableFine(w, sp, y) /\ Carried(w, sp, st.rows, y)
      BY <1>5, <2>1, OneRowFine
    <2> QED BY <2>2
  <1> HIDE DEF t
  <1> QED BY <1>1, <1>3, <1>4, <1>6, <1>7 DEF u

LEMMA LoosedFine ==
  ASSUME NEW w, NEW sp, NEW st, st.rows = [m \in NoteIds |-> st.rows[m]],
         TableFine(w, sp, st.rows), OpsFine(st.ops), NEW c, c.note \in NoteIds,
         st.rows[c.note] # NoRow
  PROVE  LET u == DetachNote(st, c)
         IN  /\ TableFine(w, sp, u.rows) /\ u.ops = st.ops /\ Carried(w, sp, st.rows, u.rows)
             /\ u.rows = [m \in NoteIds |-> u.rows[m]]
             /\ u.rows[c.note] # NoRow /\ u.rows[c.note].text = st.rows[c.note].text
  <1> DEFINE n == c.note  r == st.rows[n]
             row == WithoutRemote(st.rows[n])
             t == [st.rows EXCEPT ![n] = row]
             u == DetachNote(st, c)
  <1>1. u.rows = t /\ u.ops = st.ops
    BY DEF DetachNote
  <1> HIDE DEF u
  <1>2. RowFine(w, sp, r) /\ r \in NoteRows
    BY DEF TableFine, RowFine
  <1>3. /\ row \in NoteRows /\ row.text = r.text /\ row.dirty = r.dirty
        /\ row.deleted = r.deleted /\ row.file = NoFile /\ row.synced = NoSynced
    BY <1>2, LooseRow
  <1> HIDE DEF row
  <1>4. row # NoRow
    BY <1>3, MarkersAssumption
  <1>5. RowFine(w, sp, row) /\ (Live(r) => Live(row) /\ row.text.body = r.text.body)
    BY <1>2, <1>3, <1>4 DEF RowFine, SyncFine, Live
  <1>6. t[n] = row /\ t = [m \in NoteIds |-> t[m]]
    OBVIOUS
  <1>7. TableFine(w, sp, t) /\ Carried(w, sp, st.rows, t)
    <2>1. n \in NoteIds
      OBVIOUS
    <2> HIDE DEF n
    <2>2. LET y == [st.rows EXCEPT ![n] = row] IN TableFine(w, sp, y) /\ Carried(w, sp, st.rows, y)
      BY <1>5, <2>1, OneRowFine
    <2> QED BY <2>2
  <1> HIDE DEF t
  <1> QED BY <1>1, <1>3, <1>4, <1>6, <1>7 DEF u

LEMMA DisplaceHas ==
  ASSUME NEW n, NEW p
  PROVE  DisplaceOf(n, p).note = n /\ DisplaceOf(n, p).path = p
  BY DEF DisplaceOf, Change

\* A name taken for the note: its row is put there, bound to nothing.
LEMMA NameKept ==
  ASSUME IInv, KInv, NEW d \in Devices, eng[d].pc \in Pending, NEW taken, IsFiniteSet(taken),
         TakeName(d, taken)
  PROVE  KInv'
  <1> DEFINE e == eng[d]  n == e.op.note
             p == ConflictPath(e.row.path, PathsOf(rows[d]) \cup taken)
             c == DisplaceOf(n, p)
             st == Store(d)
             y == DetachNote(st, c)
             x == DisplaceNote(y, c)
             t == taken \cup {p}
             next == [e EXCEPT !.pc = "setaside", !.at = p, !.taken = t]
  <1>1. Held(remote, rows[d], e) /\ HoldBase(spent, rows[d], e)
    BY HoldIs
  <1>2. n \in NoteIds /\ rows[d][n] # NoRow /\ e.row.path \in Paths
    BY <1>1 DEF Held, HoldBase, NoteRows
  <1>3. StoreSet(d, x) /\ EngineAt(d, next) /\ RemoteSame /\ UNCHANGED <<body, spent>>
    BY DEF TakeName, UsersSame
  <1>4. p \in Paths
    <2>1. IsFiniteSet(PathsOf(rows[d]) \cup taken)
      BY PathsFinite, FS_Union
    <2> QED BY <1>2, <2>1, NameIsFree
  <1>5. c.note = n /\ c.path = p
    <2> HIDE DEF n, p
    <2> QED BY DisplaceHas
  <1>6. IsFiniteSet(t)
    BY FS_AddElement
  <1>7. /\ st.rows = rows[d] /\ TableFine(remote, spent, st.rows) /\ OpsFine(st.ops)
        /\ st.rows = [m \in NoteIds |-> st.rows[m]] /\ OpsTrue(st.ops)
    BY DeviceKept, DeviceTrue DEF TableTrue
  <1> HIDE DEF c, st, p, t
  <1>8. /\ TableFine(remote, spent, y.rows) /\ y.ops = st.ops /\ Carried(remote, spent, st.rows, y.rows)
        /\ y.rows = [m \in NoteIds |-> y.rows[m]]
        /\ y.rows[n] # NoRow /\ y.rows[n].text = st.rows[n].text
    BY <1>2, <1>5, <1>7, LoosedFine
  <1> HIDE DEF y
  <1>9. /\ TableFine(remote, spent, x.rows) /\ OpsFine(x.ops) /\ Carried(remote, spent, y.rows, x.rows)
        /\ x.rows[n] # NoRow /\ x.rows[n].text = y.rows[n].text
    <2>1. /\ OpsTrue(y.ops) /\ OpsFine(y.ops) /\ c.note \in NoteIds /\ c.path \in Paths
          /\ y.rows = [m \in NoteIds |-> y.rows[m]] /\ TableFine(remote, spent, y.rows)
          /\ y.rows[c.note] # NoRow
      BY <1>2, <1>4, <1>5, <1>7, <1>8
    <2>2. LET u == DisplaceNote(y, c)
          IN  /\ TableFine(remote, spent, u.rows) /\ OpsFine(u.ops) /\ Carried(remote, spent, y.rows, u.rows)
              /\ u.rows[c.note] # NoRow /\ u.rows[c.note].text = y.rows[c.note].text
      BY <2>1, DisplacedFine
    <2> QED BY <1>5, <2>2
  <1> HIDE DEF x
  <1>10. next.op = e.op /\ next.row = e.row /\ next.taken = t /\ next.at = p /\ next.pc = "setaside"
    BY <1>1 DEF Held
  <1> HIDE DEF next
  <1>11. HoldBase(spent, x.rows, next)
    BY <1>1, <1>6, <1>7, <1>8, <1>9, <1>10 DEF HoldBase
  <1>12. EngFine(remote, spent, x.rows, next)
    BY <1>4, <1>10, <1>11, NextFine DEF Pending
  <1>13. Carried(remote, spent, rows[d], x.rows)
    BY <1>7, <1>8, <1>9, CarriedOn
  <1> QED BY <1>3, <1>9, <1>12, <1>13, HereKept

LEMMA SetAsideKept ==
  ASSUME IInv, KInv, NEW d \in Devices, SetAside(d)
  PROVE  KInv'
  <1>1. eng[d].pc \in Pending /\ TakeName(d, {}) /\ IsFiniteSet({})
    BY FS_EmptySet DEF SetAside, Clashes, At, Pending
  <1> QED BY <1>1, NameKept

LEMMA AsideUpKept ==
  ASSUME IInv, KInv, NEW d \in Devices, CreateAside(d)
  PROVE  KInv'
  <1> DEFINE e == [eng[d] EXCEPT !.file = NoFile]
  <1>1. /\ eng[d].pc \in Pending /\ Held(remote, rows[d], eng[d]) /\ HoldBase(spent, rows[d], eng[d])
        /\ eng[d].at \in Paths
    BY HoldIs DEF CreateAside, At, Pending
  <1>2. /\ Held(remote, rows[d], e) /\ e.row = eng[d].row /\ e.op = eng[d].op /\ e.taken = eng[d].taken
        /\ e.at = eng[d].at
    BY <1>1 DEF Held
  <1>3. Lands(d, e, e.at, NoFile) \/ TakeName(d, e.taken)
    BY DEF CreateAside
  <1> HIDE DEF e
  <1>4. HoldBase(spent, rows[d], e) /\ IsFiniteSet(e.taken)
    BY <1>1, <1>2 DEF HoldBase
  <1> QED BY <1>1, <1>2, <1>3, <1>4, LandsKept, NameKept

LEMMA StepAsideKept ==
  ASSUME IInv, KInv, NEW d \in Devices, StepAside(d)
  PROVE  KInv'
  <1> DEFINE e == eng[d]  n == e.op.note
             there == {remote[f].path : f \in {g \in Files : Alive(g)}}
             p == ConflictPath(e.row.path, PathsOf(rows[d]) \cup there)
             c == DisplaceOf(n, p)
             st == Store(d)
             x == DisplaceNote(st, c)
  <1>1. Held(remote, rows[d], e) /\ HoldBase(spent, rows[d], e)
    BY HoldIs DEF StepAside, Clashes, At, Pending
  <1>2. n \in NoteIds /\ rows[d][n] # NoRow /\ e.row.path \in Paths
    BY <1>1 DEF Held, HoldBase, NoteRows
  <1>3. StoreSet(d, x) /\ EngineAt(d, Idle) /\ RemoteSame /\ UNCHANGED <<body, spent>>
    BY DEF StepAside, UsersSame
  <1>4. p \in Paths
    <2> DEFINE S == {g \in Files : Alive(g)}
    <2>1. S \in SUBSET Files
      OBVIOUS
    <2> HIDE DEF S
    <2>2. IsFiniteSet({remote[f].path : f \in S})
      BY <2>1, FilesFinite
    <2>3. IsFiniteSet(PathsOf(rows[d]) \cup there)
      BY <2>2, PathsFinite, FS_Union DEF S
    <2> HIDE DEF there
    <2> QED BY <1>2, <2>3, NameIsFree
  <1>5. c.note = n /\ c.path = p
    <2> HIDE DEF n, p
    <2> QED BY DisplaceHas
  <1>6. /\ st.rows = rows[d] /\ TableFine(remote, spent, st.rows) /\ OpsFine(st.ops)
        /\ st.rows = [m \in NoteIds |-> st.rows[m]] /\ OpsTrue(st.ops)
    BY DeviceKept, DeviceTrue DEF TableTrue
  <1> HIDE DEF c, st, p
  <1>7. TableFine(remote, spent, x.rows) /\ OpsFine(x.ops) /\ Carried(remote, spent, st.rows, x.rows)
    BY <1>2, <1>4, <1>5, <1>6, DisplacedFine
  <1> HIDE DEF x
  <1>8. EngFine(remote, spent, x.rows, Idle)
    BY RestKept
  <1> QED BY <1>3, <1>6, <1>7, <1>8, HereKept

\* The op done with the conflict: its store is the conflict's, less the op.
LEMMA ResolvedFine ==
  ASSUME NEW w, RemoteTrue(w), NEW sp, NEW st, StoreTrue(w, st), TableFine(w, sp, st.rows),
         OpsFine(st.ops), NEW s, NEW seq, NEW c, ChangeTrue(w, c), Fits(w, sp, c), c.kind = "conflict",
         st.rows[c.note] # NoRow, Live(st.rows[c.note]) => st.rows[c.copy] = NoRow
  PROVE  LET u == WithOwnId(ResolveConflict(st, s, seq, c), c)
         IN  TableFine(w, sp, u.rows) /\ OpsFine(u.ops) /\ Carried(w, sp, st.rows, u.rows)
  <1> DEFINE met == Conflict(st, s, c)
             y == [met EXCEPT !.ops = Without(@, seq)]
             u == WithOwnId(y, c)
             x == WithOwnId(met, c)
  <1>1. TableFine(w, sp, x.rows) /\ Carried(w, sp, st.rows, x.rows)
    BY ConflictFine
  <1>2. OpsFine(met.ops) /\ StoreTrue(w, met)
    BY ConflictOpsFine, ConflictTrue DEF StoreTrue
  <1>3. y = ResolveConflict(st, s, seq, c)
    BY DEF ResolveConflict
  <1> HIDE DEF met
  <1>4. met = [rows |-> met.rows, ops |-> met.ops]
    BY <1>2 DEF StoreTrue
  <1>5. /\ y.rows = met.rows /\ y.ops = Without(met.ops, seq)
        /\ DOMAIN y = {"rows", "ops"} /\ DOMAIN met = {"rows", "ops"}
    BY <1>4
  <1> HIDE DEF y
  <1>6. u.rows = x.rows /\ u.ops = y.ops
    BY <1>5 DEF WithOwnId
  <1>7. OpsFine(u.ops)
    BY <1>2, <1>5, <1>6, WithoutFine
  <1> HIDE DEF u, x
  <1>8. TableFine(w, sp, u.rows) /\ OpsFine(u.ops) /\ Carried(w, sp, st.rows, u.rows)
    BY <1>1, <1>6, <1>7
  <1> QED BY <1>3, <1>8 DEF u

LEMMA ResolveKept ==
  ASSUME IInv, KInv, NEW d \in Devices, Resolve(d)
  PROVE  KInv'
  <1> DEFINE e == eng[d]  n == e.op.note  text == e.text  k == NewId
             met == [id |-> e.file.id, path |-> e.at, version |-> e.file.version]
             p == ConflictPath(e.at, PathsOf(rows[d]))
             c == ConflictOf(n, met, text, k, p)
             st == Store(d)  s == NextOp(d)  seq == e.op.seq
             after == WithOwnId(ResolveConflict(st, s, seq, c), c)
  <1>1. At(d, "weigh") /\ Settle(d, seq, after) /\ k \in NoteIds /\ rows[d][k] = NoRow
    BY FreshIs DEF Resolve, Clashes
  <1>2. Known(remote, e.file) /\ Reads(remote, e.file, text)
    BY <1>1, WeighIs
  <1>3. /\ Held(remote, rows[d], e) /\ HoldBase(spent, rows[d], e) /\ e.at \in Paths
        /\ text \in Texts /\ Safe(remote, spent, text.body)
    BY <1>1, WeighFine
  <1>4. n \in NoteIds /\ rows[d][n] # NoRow
    BY <1>3 DEF Held, HoldBase
  <1>5. FileOf(met) = e.file /\ met.path = e.at
    BY <1>2 DEF Known, FileOf
  <1>6. p \in Paths
    BY <1>3, PathsFinite, NameIsFree
  <1> HIDE DEF met, p, text, k
  <1>7. ChangeTrue(remote, c)
    BY <1>1, <1>2, <1>5, ConflictIs
  <1>8. /\ c.kind = "conflict" /\ c.note = n /\ c.path = e.at /\ c.text = text /\ c.copy = k /\ c.copyPath = p
    BY <1>5, ConflictHas
  <1>9. /\ TableFine(remote, spent, st.rows) /\ OpsFine(st.ops) /\ st.rows = rows[d]
        /\ RemoteTrue(remote) /\ StoreTrue(remote, st)
    BY DeviceKept, DeviceTrue
  <1> HIDE DEF c, n, st, s, seq
  <1>10. Fits(remote, spent, c)
    BY <1>3, <1>4, <1>6, <1>8 DEF Fits, Puts, Binds
  <1>11. st.rows[c.note] # NoRow /\ (Live(st.rows[c.note]) => st.rows[c.copy] = NoRow)
    BY <1>1, <1>4, <1>8, <1>9
  <1>12. TableFine(remote, spent, after.rows) /\ OpsFine(after.ops) /\ Carried(remote, spent, st.rows, after.rows)
    BY <1>7, <1>8, <1>9, <1>10, <1>11, ResolvedFine
  <1> HIDE DEF after
  <1> QED BY <1>1, <1>9, <1>12, SettleKept

LEMMA ConflictedKept ==
  ASSUME IInv, KInv, NEW d \in Devices, Conflicted(d)
  PROVE  KInv'
  BY MeetKept, OverKept, SameKept, SetAsideKept, AsideUpKept, StepAsideKept, ResolveKept DEF Conflicted

-----------------------------------------------------------------------------
(* The whole.                                                                *)

LEMMA PullKept ==
  ASSUME IInv, KInv, NEW d \in Devices, Pull(d)
  PROVE  KInv'
  BY StartKept, DecideStepKept, EndDecideKept, ApplyKept DEF Pull

LEMMA FaultKept ==
  ASSUME IInv, KInv, NEW d \in Devices,
         Interrupted(d) \/ FeedLags(d) \/ \E how \in Deaths : CursorDies(d, how)
  PROVE  KInv'
  <1>1. CASE Interrupted(d)
    BY <1>1, RestKept, ThinkKept DEF Interrupted
  <1>2. CASE FeedLags(d)
    BY <1>2, RestKept, ThinkKept DEF FeedLags
  <1>3. CASE \E how \in Deaths : CursorDies(d, how)
    <2>1. UNCHANGED <<remote, news, rows, ops, eng, body, spent>>
      BY <1>3 DEF CursorDies, StoreSame, RemoteSame
    <2> QED BY <2>1 DEF KInv, NewsOnce, DeviceFine, NoEditLost, Files, Alive
  <1> QED BY <1>1, <1>2, <1>3

LEMMA StepsKept ==
  ASSUME IInv, KInv, [Next]_vars
  PROVE  KInv'
  <1>1. CASE UNCHANGED vars
    BY <1>1 DEF vars, KInv, NewsOnce, DeviceFine, NoEditLost, Files, Alive
  <1>2. CASE Next
    <2>1. PICK d \in Devices :
            \/ UserStep(d) \/ Pull(d) \/ Push(d) \/ Conflicted(d)
            \/ Interrupted(d) \/ FeedLags(d) \/ \E how \in Deaths : CursorDies(d, how)
      BY <1>2 DEF Next, EngineStep
    <2> QED BY <2>1, UserKept, PullKept, PushKept, ConflictedKept, FaultKept
  <1> QED BY <1>1, <1>2

\* At first every note is synced, and every file at the path of its own name.
LEMMA FirstKept ==
  ASSUME Init
  PROVE  KInv
  <1> DEFINE file(n) == [path |-> <<n>>, text |-> Text(n, n), version |-> 0]
             row(n) == [path |-> <<n>>, text |-> Text(n, n), dirty |-> FALSE, deleted |-> FALSE,
                        file |-> [id |-> n, version |-> 0], synced |-> Text(n, n)]
             N == Cardinality(Start)
  <1>1. Start = 1..N /\ N \in Nat /\ Start \subseteq NoteIds
    BY SyncAssumption, FS_CardinalityType, FS_Subset
  <1>2. remote = [n \in 1..N |-> file(n)] /\ Files = Start /\ DOMAIN remote = Start
    BY <1>1 DEF Init, Files
  <1>3. \A n \in Start : <<n>> \in Paths /\ Text(n, n) \in Texts /\ Text(n, n).body = n
    BY <1>1 DEF Paths, Text, Texts
  <1>4. \A n \in Start : file(n) \in RemoteFiles
    BY <1>3 DEF RemoteFiles
  <1>5. \A n \in Start : remote[n] = file(n) /\ remote[n] # Gone
    BY <1>1, <1>2, <1>4, MarkersAssumption
  <1>6. RemoteFine(remote)
    <2>1. \A n, m \in Start : remote[n].path = remote[m].path => n = m
      <3>1. ASSUME NEW n \in Start PROVE remote[n].path = <<n>>
        <4> DEFINE p == <<n>>  t == Text(n, n)
        <4>1. remote[n] = [path |-> p, text |-> t, version |-> 0]
          BY <1>5
        <4> HIDE DEF p, t
        <4>2. remote[n].path = p
          BY <4>1
        <4> QED BY <4>2 DEF p
      <3>2. \A n, m \in Start : <<n>> = <<m>> => n = m
        OBVIOUS
      <3> QED BY <3>1, <3>2
    <2> QED BY <1>2, <1>4, <1>5, <2>1 DEF RemoteFine
  <1>7. \A n \in Start : Safe(remote, spent, n)
    BY <1>2, <1>3, <1>5 DEF Safe
  <1>8. ASSUME NEW n \in Start PROVE RowFine(remote, spent, row(n))
    <2> DEFINE r == row(n)  t == Text(n, n)  p == <<n>>  g == [id |-> n, version |-> 0]
    <2>1. t \in Texts /\ t.body = n /\ p \in Paths /\ g \in [id : Nat, version : Nat]
      BY <1>1, <1>3
    <2>2. r = [path |-> p, text |-> t, dirty |-> FALSE, deleted |-> FALSE, file |-> g, synced |-> t]
      OBVIOUS
    <2> HIDE DEF r, t, p, g
    <2>3. r \in NoteRows
      BY <2>1, <2>2 DEF NoteRows
    <2>4. r.text = t /\ r.synced = t
      BY <2>2
    <2>5. RowFine(remote, spent, r)
      BY <1>7, <2>1, <2>3, <2>4, MarkersAssumption DEF RowFine, SyncFine, BasedOn
    <2> QED BY <2>5 DEF r
  <1>9. ASSUME NEW d \in Devices PROVE DeviceFine(remote, spent, d)
    <2>1. rows[d] = [n \in NoteIds |-> IF n \in Start THEN row(n) ELSE NoRow]
      BY DEF Init
    <2>2. ops[d] = {} /\ eng[d] = Idle
      BY DEF Init
    <2> HIDE DEF row
    <2>3. TableFine(remote, spent, rows[d])
      BY <1>8, <2>1 DEF TableFine
    <2>4. OpsFine({})
      BY FS_EmptySet DEF OpsFine
    <2> QED BY <2>2, <2>3, <2>4, RestKept DEF DeviceFine
  <1>10. body = N /\ body \in Nat
    BY <1>1 DEF Init
  <1>11. NewsOnce
    <2>1. ASSUME NEW d \in Devices PROVE Once(news[d])
      <3>1. news[d] = <<>>
        BY DEF Init
      <3> QED BY <3>1, Empty DEF Once
    <2> QED BY <2>1 DEF NewsOnce
  <1>12. NoEditLost
    BY <1>1, <1>7, <1>10 DEF NoEditLost, Safe, Alive, Files
  <1> QED BY <1>6, <1>9, <1>10, <1>11, <1>12 DEF KInv

\* What a user typed and has not replaced or deleted is in a live note of some
\* device or in a file of the remote, whatever the devices do and in whatever
\* order, and whichever rounds are cut short (CLAUDE.md's "never lose user data":
\* push/drain.ts, push/conflicts.ts, pull/run.ts and the store's applyChanges).
THEOREM NoEditIsLost ==
  Spec => []NoEditLost
  <1>1. Init => KInv
    BY FirstKept
  <1>2. IInv /\ KInv /\ [Next]_vars => KInv'
    BY StepsKept
  <1>3. KInv => NoEditLost
    BY DEF KInv
  <1> QED BY <1>1, <1>2, <1>3, Inductive, PTL DEF Spec
=============================================================================

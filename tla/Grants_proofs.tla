---------------------------- MODULE Grants_proofs ----------------------------
(***************************************************************************)
(* For any number of credentials, accounts, requests and row ids, and any  *)
(* cap: the server's tables keep their promise about hashes, no connection *)
(* row outlives the grants that reach it, and the relay's sockets follow   *)
(* the grants.                                                             *)
(***************************************************************************)
EXTENDS Grants, TLAPS

(* What a request knows by the step it is at. *)
Fits(q) ==
  /\ q.at \in {"existing", "held", "commit"} => q.hash \in Hashes /\ q.account \in Accounts
  /\ q.at \in {"find", "revoke", "check", "connect"} => q.hash \in Hashes
  /\ q.at \notin {"free", "existing"} => q.conn \in Ids
  /\ q.at = "connect" => q.held = q.conn

Typed == TypeOK /\ \A r \in Requests : Fits(req[r])

-----------------------------------------------------------------------------
(* Requests. *)

LEMMA FreeFits == Free \in Request /\ Fits(Free)
  BY DEF Free, Request, Steps, Fits

LEMMA Put ==
  ASSUME Typed, NEW r \in Requests, NEW q \in Request, Fits(q),
         req' = [req EXCEPT ![r] = q]
  PROVE  req' \in [Requests -> Request] /\ \A x \in Requests : Fits(req'[x])
  BY DEF Typed, TypeOK

LEMMA DoneTyped ==
  ASSUME Typed, NEW r \in Requests, Done(r)
  PROVE  req' \in [Requests -> Request] /\ \A x \in Requests : Fits(req'[x])
  BY FreeFits, Put DEF Done

LEMMA TryAgainTyped ==
  ASSUME Typed, NEW r \in Requests, req[r].at \in {"existing", "held", "commit"}, TryAgain(r)
  PROVE  req' \in [Requests -> Request] /\ \A x \in Requests : Fits(req'[x])
  <1>1. CASE req[r].again
    BY <1>1, DoneTyped DEF TryAgain
  <1>2. CASE ~req[r].again
    <2> DEFINE q == [Free EXCEPT !.at = "existing", !.hash = req[r].hash,
                                 !.account = req[r].account, !.again = TRUE]
    <2>1. req[r].hash \in Hashes /\ req[r].account \in Accounts
      BY DEF Typed, Fits
    <2>2. q \in Request /\ Fits(q)
      BY <2>1 DEF Free, Request, Steps, Fits
    <2>3. req' = [req EXCEPT ![r] = q]
      BY <1>2 DEF TryAgain
    <2> HIDE DEF q
    <2> QED BY <2>2, <2>3, Put
  <1> QED BY <1>1, <1>2

(* Beginning a request: a record written out whole. *)
LEMMA BeginTyped ==
  ASSUME Typed, NEW r \in Requests, Begin(r)
  PROVE  Typed'
  <1>1. SUFFICES ASSUME NEW q \in Request, Fits(q), req' = [req EXCEPT ![r] = q],
                        UNCHANGED <<rows, grants, idle, drawn, sockets, revived>>
                 PROVE  Typed'
    <2>1. ASSUME NEW h \in Hashes, NEW a \in Accounts, Callback(r, h, a)
          PROVE  Typed'
      <3> DEFINE q == [Free EXCEPT !.at = "existing", !.hash = h, !.account = a]
      <3>1. q \in Request /\ Fits(q)
        BY <2>1 DEF Free, Request, Steps, Fits
      <3>2. req' = [req EXCEPT ![r] = q] /\ UNCHANGED <<rows, grants, idle, drawn, sockets, revived>>
        BY <2>1 DEF Callback
      <3> HIDE DEF q
      <3> QED BY <3>1, <3>2, <1>1
    <2>2. ASSUME NEW h \in Hashes, NEW t \in Hashes, RemoveDevice(r, h, t)
          PROVE  Typed'
      <3>1. PICK c \in Ids : req' = [req EXCEPT ![r] = [Free EXCEPT !.at = "find", !.hash = t, !.conn = c]]
        BY <2>2 DEF RemoveDevice
      <3> DEFINE q == [Free EXCEPT !.at = "find", !.hash = t, !.conn = c]
      <3>2. q \in Request /\ Fits(q)
        BY <2>2 DEF Free, Request, Steps, Fits
      <3>3. req' = [req EXCEPT ![r] = q] /\ UNCHANGED <<rows, grants, idle, drawn, sockets, revived>>
        BY <2>2, <3>1 DEF RemoveDevice
      <3> HIDE DEF q
      <3> QED BY <3>2, <3>3, <1>1
    <2>3. ASSUME NEW h \in Hashes, Disconnect(r, h)
          PROVE  Typed'
      <3>1. PICK c \in Ids : req' = [req EXCEPT ![r] = [Free EXCEPT !.at = "delete", !.conn = c]]
        BY <2>3 DEF Disconnect
      <3> DEFINE q == [Free EXCEPT !.at = "delete", !.conn = c]
      <3>2. q \in Request /\ Fits(q)
        BY <2>3 DEF Free, Request, Steps, Fits
      <3>3. req' = [req EXCEPT ![r] = q] /\ UNCHANGED <<rows, grants, idle, drawn, sockets, revived>>
        BY <2>3, <3>1 DEF Disconnect
      <3> HIDE DEF q
      <3> QED BY <3>2, <3>3, <1>1
    <2>4. ASSUME NEW h \in Hashes, Ticket(r, h)
          PROVE  Typed'
      <3>1. PICK c \in Ids : req' = [req EXCEPT ![r] = [Free EXCEPT !.at = "check", !.hash = h, !.conn = c]]
        BY <2>4 DEF Ticket
      <3> DEFINE q == [Free EXCEPT !.at = "check", !.hash = h, !.conn = c]
      <3>2. q \in Request /\ Fits(q)
        BY <2>4 DEF Free, Request, Steps, Fits
      <3>3. req' = [req EXCEPT ![r] = q] /\ UNCHANGED <<rows, grants, idle, drawn, sockets, revived>>
        BY <2>4, <3>1 DEF Ticket
      <3> HIDE DEF q
      <3> QED BY <3>2, <3>3, <1>1
    <2> QED BY <2>1, <2>2, <2>3, <2>4 DEF Begin
  <1>2. req' \in [Requests -> Request] /\ \A x \in Requests : Fits(req'[x])
    BY <1>1, Put
  <1> QED BY <1>1, <1>2 DEF Typed, TypeOK

(* What a batch writes, its grant having been read with a type. *)
LEMMA WrittenTyped ==
  ASSUME Typed, NEW r \in Requests, req[r].at = "commit",
         NEW kept \in SUBSET Hashes, Written(r, kept)
  PROVE  /\ rows' \in [Ids -> Accounts \cup {NoRow}]
         /\ grants' \in [Hashes -> Ids \cup {NoRow, Null}]
         /\ idle' \in SUBSET Hashes
         /\ revived' \in SUBSET Ids
         /\ Pruned(r, kept) \in SUBSET Hashes
  <1>0. req[r].hash \in Hashes /\ req[r].account \in Accounts /\ req[r].conn \in Ids
    BY DEF Typed, Fits
  <1>1. Upserted(r) \in [Ids -> Accounts \cup {NoRow}]
    BY <1>0 DEF Typed, TypeOK, Upserted
  <1>2. Granted(r) \in [Hashes -> Ids \cup {NoRow, Null}]
    BY <1>0 DEF Typed, TypeOK, Granted
  <1>3. Pruned(r, kept) \in SUBSET Hashes
    BY DEF Pruned
  <1> QED BY <1>0, <1>1, <1>2, <1>3 DEF Typed, TypeOK, Written

LEMMA UntoldTyped ==
  ASSUME Typed, NEW c, NEW all, NEW gone, Untold(c, all, gone)
  PROVE  sockets' \in SUBSET Socket
  BY DEF Typed, TypeOK, Untold, Socket

LEMMA WithoutTyped ==
  ASSUME Typed, NEW c
  PROVE  Without(c) \in [Hashes -> Ids \cup {NoRow, Null}]
  BY DEF Typed, TypeOK, Without

(* The steps of a callback. *)
LEMMA CallbackTyped ==
  ASSUME Typed, NEW r \in Requests,
         ReadExisting(r) \/ ReadHeld(r) \/ Commit(r) \/ CommitUnheard(r) \/ Throws(r)
  PROVE  Typed'
  <1>0. req[r] \in Request /\ Fits(req[r])
    BY DEF Typed, TypeOK
  <1>1. CASE ReadExisting(r)
    <2>1. PICK c \in Ids : /\ drawn' \in {drawn, drawn \cup {c}}
                           /\ req' = [req EXCEPT ![r].at = "held", ![r].conn = c]
      BY <1>1 DEF ReadExisting
    <2> DEFINE q == [req[r] EXCEPT !.at = "held", !.conn = c]
    <2>2. q \in Request /\ Fits(q)
      BY <1>0, <1>1 DEF ReadExisting, Request, Steps, Fits
    <2>3. req' = [req EXCEPT ![r] = q]
      BY <2>1 DEF Typed, TypeOK
    <2> HIDE DEF q
    <2>4. req' \in [Requests -> Request] /\ \A x \in Requests : Fits(req'[x])
      BY <2>2, <2>3, Put
    <2> QED BY <1>1, <2>1, <2>4 DEF ReadExisting, Typed, TypeOK
  <1>2. CASE ReadHeld(r)
    <2>1. req' \in [Requests -> Request] /\ \A x \in Requests : Fits(req'[x])
      <3>1. CASE ClaimedElsewhere(req[r].hash, req[r].conn)
        BY <1>2, <3>1, TryAgainTyped DEF ReadHeld
      <3>2. CASE ~ClaimedElsewhere(req[r].hash, req[r].conn)
        <4> DEFINE q == [req[r] EXCEPT !.at = "commit", !.held = grants[req[r].hash]]
        <4>1. grants[req[r].hash] \in Ids \cup {NoRow, Null}
          BY <1>0, <1>2 DEF ReadHeld, Fits, Typed, TypeOK
        <4>2. q \in Request /\ Fits(q)
          BY <1>0, <1>2, <4>1 DEF ReadHeld, Request, Steps, Fits
        <4>3. req' = [req EXCEPT ![r] = q]
          BY <1>2, <3>2 DEF ReadHeld, Typed, TypeOK
        <4> HIDE DEF q
        <4> QED BY <4>2, <4>3, Put
      <3> QED BY <3>1, <3>2
    <2> QED BY <1>2, <2>1 DEF ReadHeld, Typed, TypeOK
  <1>3. CASE Commit(r)
    <2>1. PICK kept \in Kept(r) :
            Written(r, kept) /\ req' = [req EXCEPT ![r].at = "close", ![r].gone = Pruned(r, kept)]
      BY <1>3 DEF Commit
    <2>2. kept \in SUBSET Hashes
      BY <2>1 DEF Kept
    <2>3. req[r].at = "commit" /\ UNCHANGED <<drawn, sockets>>
      BY <1>3 DEF Commit
    <2>4. Pruned(r, kept) \in SUBSET Hashes
      BY DEF Pruned
    <2> DEFINE gone == Pruned(r, kept)
               q == [req[r] EXCEPT !.at = "close", !.gone = gone]
    <2> HIDE DEF gone
    <2>5. q \in Request /\ Fits(q)
      BY <1>0, <2>3, <2>4 DEF gone, Request, Steps, Fits
    <2>6. req' = [req EXCEPT ![r] = q]
      BY <2>1 DEF gone, Typed, TypeOK
    <2> HIDE DEF q
    <2>7. req' \in [Requests -> Request] /\ \A x \in Requests : Fits(req'[x])
      BY <2>5, <2>6, Put
    <2> QED BY <2>1, <2>2, <2>3, <2>7, WrittenTyped DEF Typed, TypeOK
  <1>4. CASE CommitUnheard(r)
    <2>1. PICK kept \in Kept(r) : Written(r, kept) /\ Untold(req[r].conn, FALSE, Pruned(r, kept))
      BY <1>4 DEF CommitUnheard
    <2>2. kept \in SUBSET Hashes
      BY <2>1 DEF Kept
    <2>3. req[r].at = "commit" /\ drawn' = drawn /\ TryAgain(r)
      BY <1>4 DEF CommitUnheard
    <2>4. req' \in [Requests -> Request] /\ \A x \in Requests : Fits(req'[x])
      BY <2>3, TryAgainTyped
    <2>5. sockets' \in SUBSET Socket
      BY <2>1, UntoldTyped
    <2> QED BY <2>1, <2>2, <2>3, <2>4, <2>5, WrittenTyped DEF Typed, TypeOK
  <1>5. CASE Throws(r)
    BY <1>5, TryAgainTyped DEF Throws, Typed, TypeOK
  <1> QED BY <1>1, <1>2, <1>3, <1>4, <1>5

(* A step that only moves a request on. *)
LEMMA GoesTyped ==
  ASSUME Typed, NEW r \in Requests, NEW step \in Steps, Goes(r, step),
         req[r].at # "free", req[r].at # "existing",
         step = "revoke" => req[r].hash \in Hashes,
         step \notin {"existing", "held", "commit", "find", "check", "connect"}
  PROVE  req' \in [Requests -> Request] /\ \A x \in Requests : Fits(req'[x])
  <1> DEFINE q == [req[r] EXCEPT !.at = step]
  <1>1. q \in Request /\ Fits(q)
    BY DEF Typed, TypeOK, Request, Fits
  <1>2. req' = [req EXCEPT ![r] = q]
    BY DEF Goes, Typed, TypeOK
  <1> HIDE DEF q
  <1> QED BY <1>1, <1>2, Put

(* The steps of the two deletes. *)
LEMMA RemovalTyped ==
  ASSUME Typed, NEW r \in Requests, Find(r) \/ Revoke(r) \/ Delete(r) \/ Close(r)
  PROVE  Typed'
  <1>0. req[r] \in Request /\ Fits(req[r])
    BY DEF Typed, TypeOK
  <1>1. CASE Find(r)
    <2>1. req' \in [Requests -> Request] /\ \A x \in Requests : Fits(req'[x])
      BY <1>0, <1>1, GoesTyped, DoneTyped DEF Find, Steps, Fits
    <2> QED BY <1>1, <2>1 DEF Find, Typed, TypeOK
  <1>2. CASE Revoke(r)
    <2> DEFINE h == req[r].hash
               c == req[r].conn
               all == LastOne(h, c) /\ rows[c] # NoRow
               q == [req[r] EXCEPT !.at = "close", !.gone = {h}, !.all = all]
    <2>1. h \in Hashes /\ c \in Ids
      BY <1>0, <1>2 DEF Revoke, Fits
    <2>2. grants' = Revoked(h, c)
      BY <1>2 DEF Revoke
    <2>3. grants' \in [Hashes -> Ids \cup {NoRow, Null}]
      BY <2>1, <2>2, WithoutTyped DEF Revoked, Typed, TypeOK
    <2>4. rows' \in [Ids -> Accounts \cup {NoRow}]
      BY <1>2, <2>1 DEF Revoke, Typed, TypeOK
    <2>5. all \in BOOLEAN
      BY DEF LastOne
    <2>6. q \in Request /\ Fits(q)
      <3> HIDE DEF all
      <3> QED BY <1>0, <2>1, <2>5 DEF Request, Steps, Fits
    <2>7. req' = [req EXCEPT ![r] = q]
      <3>1. req' = [req EXCEPT ![r].at = "close", ![r].gone = {h}, ![r].all = all]
        BY <1>2 DEF Revoke
      <3> HIDE DEF all, h
      <3> QED BY <3>1 DEF Typed, TypeOK
    <2> HIDE DEF q
    <2>8. req' \in [Requests -> Request] /\ \A x \in Requests : Fits(req'[x])
      BY <2>6, <2>7, Put
    <2> QED BY <1>2, <2>3, <2>4, <2>8 DEF Revoke, Typed, TypeOK
  <1>3. CASE Delete(r)
    <2> DEFINE q == [req[r] EXCEPT !.at = "close", !.all = TRUE]
    <2>1. q \in Request /\ Fits(q)
      BY <1>0, <1>3 DEF Delete, Request, Steps, Fits
    <2>2. req' = [req EXCEPT ![r] = q]
      BY <1>3 DEF Delete, Typed, TypeOK
    <2> HIDE DEF q
    <2>3. req' \in [Requests -> Request] /\ \A x \in Requests : Fits(req'[x])
      BY <2>1, <2>2, Put
    <2>4. rows' \in [Ids -> Accounts \cup {NoRow}]
      BY <1>3 DEF Delete, Typed, TypeOK
    <2>5. grants' \in [Hashes -> Ids \cup {NoRow, Null}]
      BY <1>3, WithoutTyped DEF Delete
    <2> QED BY <1>3, <2>3, <2>4, <2>5 DEF Delete, Typed, TypeOK
  <1>4. CASE Close(r)
    BY <1>4, DoneTyped DEF Close, Typed, TypeOK
  <1> QED BY <1>1, <1>2, <1>3, <1>4

(* The relay's steps. *)
LEMMA RelayTyped ==
  ASSUME Typed, NEW r \in Requests, Check(r) \/ Connect(r) \/ CutOff(r)
  PROVE  Typed'
  <1>0. req[r] \in Request /\ Fits(req[r])
    BY DEF Typed, TypeOK
  <1>1. CASE Check(r)
    <2>1. req' \in [Requests -> Request] /\ \A x \in Requests : Fits(req'[x])
      <3>1. CASE LiveGrant(req[r].hash, req[r].conn)
        <4> DEFINE q == [req[r] EXCEPT !.at = "connect", !.held = grants[req[r].hash]]
        <4>1. grants[req[r].hash] \in Ids \cup {NoRow, Null}
          BY <1>0, <1>1 DEF Check, Fits, Typed, TypeOK
        <4>2. q \in Request /\ Fits(q)
          BY <1>0, <1>1, <3>1, <4>1 DEF Check, LiveGrant, Request, Steps, Fits
        <4>3. req' = [req EXCEPT ![r] = q]
          BY <1>1, <3>1 DEF Check, Typed, TypeOK
        <4> HIDE DEF q
        <4> QED BY <4>2, <4>3, Put
      <3>2. CASE ~LiveGrant(req[r].hash, req[r].conn)
        BY <1>1, <3>2, DoneTyped DEF Check
      <3> QED BY <3>1, <3>2
    <2> QED BY <1>1, <2>1 DEF Check, Typed, TypeOK
  <1>2. CASE Connect(r)
    <2>1. req' \in [Requests -> Request] /\ \A x \in Requests : Fits(req'[x])
      BY <1>2, DoneTyped DEF Connect
    <2>2. sockets' \in SUBSET Socket
      <3> DEFINE stray == req[r].held = req[r].conn /\ grants[req[r].hash] # req[r].conn
                 s == [grant |-> req[r].hash, conn |-> req[r].conn, stray |-> stray]
      <3>1. stray \in BOOLEAN
        OBVIOUS
      <3>2. sockets' = sockets \cup {s}
        BY <1>2 DEF Connect
      <3> HIDE DEF stray
      <3>3. s \in Socket
        BY <1>0, <1>2, <3>1 DEF Connect, Fits, Socket
      <3> QED BY <3>2, <3>3 DEF Typed, TypeOK
    <2> QED BY <1>2, <2>1, <2>2 DEF Connect, Typed, TypeOK
  <1>3. CASE CutOff(r)
    <2>1. req' \in [Requests -> Request] /\ \A x \in Requests : Fits(req'[x])
      BY <1>3, DoneTyped DEF CutOff
    <2>2. sockets' \in SUBSET Socket
      BY <1>3, UntoldTyped DEF CutOff, Typed, TypeOK
    <2> QED BY <1>3, <2>1, <2>2 DEF CutOff, Typed, TypeOK
  <1> QED BY <1>1, <1>2, <1>3

LEMMA InitTyped == Init => Typed
  BY FreeFits, GrantsAssumption DEF Init, Typed, TypeOK

LEMMA NextTyped == Typed /\ [Next]_vars => Typed'
  <1> SUFFICES ASSUME Typed, [Next]_vars PROVE Typed'
    OBVIOUS
  <1>1. ASSUME NEW r \in Requests, Begin(r) PROVE Typed'
    BY <1>1, BeginTyped
  <1>2. ASSUME NEW r \in Requests, Continue(r) PROVE Typed'
    BY <1>2, CallbackTyped, RemovalTyped, RelayTyped DEF Continue
  <1>3. ASSUME NEW s \in sockets, Leaves(s) PROVE Typed'
    BY <1>3 DEF Leaves, Typed, TypeOK
  <1>4. ASSUME NEW h \in Hashes, GoesIdle(h) PROVE Typed'
    BY <1>4 DEF GoesIdle, Typed, TypeOK
  <1>5. CASE UNCHANGED vars
    BY <1>5 DEF vars, Typed, TypeOK
  <1> QED BY <1>1, <1>2, <1>3, <1>4, <1>5 DEF Next

LEMMA AlwaysTyped == Spec => []Typed
  BY InitTyped, NextTyped, PTL DEF Spec

(* The two tables, the sockets and every request under way keep their shape
   whatever requests arrive and wherever they are cut off. *)
THEOREM TypeCorrect == Spec => []TypeOK
  <1>1. Typed => TypeOK
    BY DEF Typed
  <1> QED BY <1>1, AlwaysTyped, PTL

-----------------------------------------------------------------------------
(* A hash is claimed once. *)

-----------------------------------------------------------------------------
(* What one batch does to the grants. *)

LEMMA GrantsWritten ==
  ASSUME Typed, NEW r \in Requests, req[r].at = "commit", Stands(r),
         NEW kept \in Kept(r), Written(r, kept), NEW g \in Hashes
  PROVE  /\ g # req[r].hash => grants'[g] = grants[g] \/ (grants[g] = req[r].conn /\ grants'[g] = Null)
         /\ g = req[r].hash => \/ grants'[g] = grants[g]
                               \/ grants[g] = NoRow /\ grants'[g] = req[r].conn
  <1>0. req[r].hash \in Hashes /\ req[r].conn \in Ids
    BY DEF Typed, Fits
  <1>1. Granted(r) \in [Hashes -> Ids \cup {NoRow, Null}]
    BY <1>0 DEF Typed, TypeOK, Granted
  <1>2. grants'[g] = IF g \in Pruned(r, kept) THEN Null ELSE Granted(r)[g]
    BY DEF Written
  <1>3. g # req[r].hash => Granted(r)[g] = grants[g]
    BY <1>0 DEF Granted, Typed, TypeOK
  <1>4. \/ Granted(r)[req[r].hash] = grants[req[r].hash]
        \/ grants[req[r].hash] = NoRow /\ Granted(r)[req[r].hash] = req[r].conn
    BY <1>0 DEF Granted, Stands, Typed, TypeOK
  <1>5. req[r].hash \notin Pruned(r, kept)
    BY <1>0 DEF Kept, Pruned
  <1>6. g \in Pruned(r, kept) => Granted(r)[g] = req[r].conn
    BY DEF Pruned
  <1> QED BY <1>2, <1>3, <1>4, <1>5, <1>6

(* The server keeps its promise: whatever requests run together, fail, or are
   told that what they did has failed, a hash is claimed by one connection at
   most, and once it is let go it is spent for ever. *)
THEOREM ClaimedOnce == Spec => HashesAreClaimedOnce
  <1>1. Init => Promise!Init
    BY DEF Init, Promise!Init
  <1>2. Typed /\ [Next]_vars => [Promise!Next]_grants
    <2> SUFFICES ASSUME Typed, [Next]_vars, grants' # grants
                 PROVE  Promise!Next
      OBVIOUS
    <2>1. Typed'
      BY NextTyped
    <2>2. grants' \in [Hashes -> Promise!Claims]
      BY <2>1 DEF Typed, TypeOK, Promise!Claims
    <2>3. ASSUME NEW c, NEW g \in Hashes, c \in Ids
          PROVE  Promise!MayBecome(grants[g], Without(c)[g])
      BY <2>3 DEF Without, Promise!MayBecome
    <2>4. \A g \in Hashes : Promise!MayBecome(grants[g], grants'[g])
      <3>1. ASSUME NEW r \in Requests, Begin(r) PROVE FALSE
        BY <3>1 DEF Begin, Callback, RemoveDevice, Disconnect, Ticket
      <3>2. ASSUME NEW r \in Requests, Commit(r) \/ CommitUnheard(r)
            PROVE  \A g \in Hashes : Promise!MayBecome(grants[g], grants'[g])
        <4>1. req[r].at = "commit" /\ Stands(r)
          BY <3>2 DEF Commit, CommitUnheard
        <4>2. PICK kept \in Kept(r) : Written(r, kept)
          BY <3>2 DEF Commit, CommitUnheard
        <4>3. req[r].conn \in Ids
          BY <4>1 DEF Typed, Fits
        <4> QED BY <4>1, <4>2, <4>3, GrantsWritten DEF Promise!MayBecome
      <3>3. ASSUME NEW r \in Requests, Revoke(r)
            PROVE  \A g \in Hashes : Promise!MayBecome(grants[g], grants'[g])
        <4> DEFINE h == req[r].hash
                   c == req[r].conn
        <4>1. h \in Hashes /\ c \in Ids
          BY <3>3 DEF Revoke, Typed, Fits
        <4>2. grants' = Revoked(h, c)
          BY <3>3 DEF Revoke
        <4> HIDE DEF h, c
        <4>3. CASE LastOne(h, c)
          BY <2>3, <4>1, <4>2, <4>3 DEF Revoked
        <4>4. CASE ~LastOne(h, c)
          BY <4>1, <4>2, <4>4 DEF Revoked, Promise!MayBecome, Typed, TypeOK
        <4> QED BY <4>3, <4>4
      <3>4. ASSUME NEW r \in Requests, Delete(r)
            PROVE  \A g \in Hashes : Promise!MayBecome(grants[g], grants'[g])
        <4>1. req[r].conn \in Ids
          BY <3>4 DEF Delete, Typed, Fits
        <4> QED BY <2>3, <3>4, <4>1 DEF Delete
      <3>5. ASSUME NEW r \in Requests,
                   ReadExisting(r) \/ ReadHeld(r) \/ Throws(r) \/ Find(r) \/ Close(r)
                     \/ Check(r) \/ Connect(r) \/ CutOff(r)
            PROVE  FALSE
        BY <3>5 DEF ReadExisting, ReadHeld, Throws, Find, Close, Check, Connect, CutOff
      <3>6. ASSUME NEW s \in sockets, Leaves(s) PROVE FALSE
        BY <3>6 DEF Leaves
      <3>7. ASSUME NEW h \in Hashes, GoesIdle(h) PROVE FALSE
        BY <3>7 DEF GoesIdle
      <3>8. ~UNCHANGED vars
        BY DEF vars
      <3> QED BY <3>1, <3>2, <3>3, <3>4, <3>5, <3>6, <3>7, <3>8 DEF Next, Continue
    <2> QED BY <2>2, <2>4 DEF Promise!Next
  <1> QED BY <1>1, <1>2, AlwaysTyped, PTL DEF Spec, HashesAreClaimedOnce, Promise!Spec

-----------------------------------------------------------------------------
(* No row outlives its grants. *)

Reached(c) == rows[c] # NoRow => c \in revived \/ \E h \in Hashes : grants[h] = c

LEMMA ReachedIs == RowsAreReached <=> \A c \in Ids : Reached(c)
  BY DEF RowsAreReached, Reached, Holders

LEMMA CommitReaches ==
  ASSUME Typed, NEW r \in Requests, req[r].at = "commit", Stands(r),
         NEW kept \in Kept(r), Written(r, kept), NEW c \in Ids, Reached(c)
  PROVE  Reached(c)'
  <1>0. req[r].hash \in Hashes /\ req[r].conn \in Ids
    BY DEF Typed, Fits
  <1>1. CASE c # req[r].conn
    <2>1. rows'[c] = rows[c]
      BY <1>0, <1>1 DEF Written, Upserted, Typed, TypeOK
    <2>2. c \in revived => c \in revived'
      BY <1>1 DEF Written
    <2>3. ASSUME NEW h \in Hashes, grants[h] = c PROVE grants'[h] = c
      <3>1. grants[h] # NoRow
        BY <2>3, GrantsAssumption
      <3> QED BY <1>0, <1>1, <2>3, <3>1, GrantsWritten
    <2> QED BY <2>1, <2>2, <2>3 DEF Reached
  <1>2. CASE c = req[r].conn
    <2>1. CASE Granted(r)[req[r].hash] = c
      <3>1. req[r].hash \in kept
        BY <1>0, <1>2, <2>1 DEF Kept
      <3>2. grants'[req[r].hash] = c
        BY <1>0, <2>1, <3>1 DEF Written, Pruned
      <3> QED BY <1>0, <3>2 DEF Reached
    <2>2. CASE Granted(r)[req[r].hash] # c
      BY <1>2, <2>2 DEF Written, Reached
    <2> QED BY <2>1, <2>2
  <1> QED BY <1>1, <1>2

(* A device signed out, an account disconnected, a device pushed out by the
   cap, in any order and cut off anywhere: no connection row is left that no
   grant is on, save those a callback wrote again for a grant it read just
   before that grant was withdrawn. *)
THEOREM NoRowIsLeft == Spec => []RowsAreReached
  <1>1. Init => RowsAreReached
    BY DEF Init, RowsAreReached
  <1>2. Typed /\ RowsAreReached /\ [Next]_vars => RowsAreReached'
    <2> SUFFICES ASSUME Typed, RowsAreReached, [Next]_vars, NEW c \in Ids
                 PROVE  Reached(c)'
      BY DEF RowsAreReached, Reached, Holders
    <2>0. Reached(c)
      BY ReachedIs
    <2>1. ASSUME UNCHANGED <<rows, grants, revived>> PROVE Reached(c)'
      BY <2>0, <2>1 DEF Reached
    <2>2. ASSUME NEW r \in Requests, Begin(r) PROVE Reached(c)'
      BY <2>1, <2>2 DEF Begin, Callback, RemoveDevice, Disconnect, Ticket
    <2>3. ASSUME NEW r \in Requests, Commit(r) \/ CommitUnheard(r) PROVE Reached(c)'
      <3>1. req[r].at = "commit" /\ Stands(r)
        BY <2>3 DEF Commit, CommitUnheard
      <3>2. PICK kept \in Kept(r) : Written(r, kept)
        BY <2>3 DEF Commit, CommitUnheard
      <3> QED BY <2>0, <3>1, <3>2, CommitReaches
    <2>4. ASSUME NEW r \in Requests, Revoke(r) PROVE Reached(c)'
      <3> DEFINE h == req[r].hash
                 d == req[r].conn
      <3>1. d \in Ids /\ h \in Hashes /\ revived' = revived
        BY <2>4 DEF Revoke, Typed, Fits
      <3>2. grants' = Revoked(h, d)
        BY <2>4 DEF Revoke
      <3>3. rows' = IF LastOne(h, d) THEN [rows EXCEPT ![d] = NoRow] ELSE rows
        BY <2>4 DEF Revoke
      <3> HIDE DEF h, d
      <3>4. CASE c = d /\ LastOne(h, d)
        BY <3>1, <3>3, <3>4 DEF Reached, Typed, TypeOK
      <3>5. CASE c # d /\ LastOne(h, d)
        <4>1. rows'[c] = rows[c]
          BY <3>1, <3>3, <3>5 DEF Typed, TypeOK
        <4>2. \A g \in Hashes : grants[g] = c => grants'[g] = c
          BY <3>2, <3>5 DEF Revoked, Without
        <4> QED BY <2>0, <3>1, <4>1, <4>2 DEF Reached
      <3>6. CASE ~LastOne(h, d)
        <4>1. \A g \in Hashes : grants'[g] = IF g = h /\ grants[g] = d THEN Null ELSE grants[g]
          BY <3>1, <3>2, <3>6 DEF Revoked, Typed, TypeOK
        <4>2. CASE c = d
          <5>1. PICK g \in Hashes \ {h} : grants[g] = d
            BY <3>6 DEF LastOne, Holders
          <5> QED BY <4>1, <4>2, <5>1 DEF Reached
        <4>3. CASE c # d
          BY <2>0, <3>1, <3>3, <3>6, <4>1, <4>3 DEF Reached
        <4> QED BY <4>2, <4>3
      <3> QED BY <3>4, <3>5, <3>6
    <2>5. ASSUME NEW r \in Requests, Delete(r) PROVE Reached(c)'
      <3>1. req[r].conn \in Ids
        BY <2>5 DEF Delete, Typed, Fits
      <3>2. CASE c = req[r].conn
        BY <2>5, <3>1, <3>2 DEF Delete, Reached, Typed, TypeOK
      <3>3. CASE c # req[r].conn
        <4>1. rows'[c] = rows[c] /\ revived' = revived
          BY <2>5, <3>1, <3>3 DEF Delete, Typed, TypeOK
        <4>2. \A g \in Hashes : grants[g] = c => grants'[g] = c
          BY <2>5, <3>3 DEF Delete, Without
        <4> QED BY <2>0, <4>1, <4>2 DEF Reached
      <3> QED BY <3>2, <3>3
    <2>6. ASSUME NEW r \in Requests,
                 ReadExisting(r) \/ ReadHeld(r) \/ Throws(r) \/ Find(r) \/ Close(r)
                   \/ Check(r) \/ Connect(r) \/ CutOff(r)
          PROVE  Reached(c)'
      BY <2>1, <2>6 DEF ReadExisting, ReadHeld, Throws, Find, Close, Check, Connect, CutOff
    <2>7. ASSUME NEW s \in sockets, Leaves(s) PROVE Reached(c)'
      BY <2>1, <2>7 DEF Leaves
    <2>8. ASSUME NEW h \in Hashes, GoesIdle(h) PROVE Reached(c)'
      BY <2>1, <2>8 DEF GoesIdle
    <2>9. CASE UNCHANGED vars
      BY <2>1, <2>9 DEF vars
    <2> QED BY <2>2, <2>3, <2>4, <2>5, <2>6, <2>7, <2>8, <2>9 DEF Next, Continue
  <1> QED BY <1>1, <1>2, AlwaysTyped, PTL DEF Spec

-----------------------------------------------------------------------------
(* The foreign key: a grant that is on a connection is on one that is there.
   Needed below, where a request that found the row already gone closes the
   sockets of its own grant only. *)

Keyed == \A h \in Hashes : grants[h] \in Ids => rows[grants[h]] # NoRow

LEMMA AlwaysKeyed == Spec => []Keyed
  <1>1. Init => Keyed
    BY GrantsAssumption DEF Init, Keyed
  <1>2. Typed /\ Keyed /\ [Next]_vars => Keyed'
    <2> SUFFICES ASSUME Typed, Keyed, [Next]_vars, NEW h \in Hashes, grants'[h] \in Ids
                 PROVE  rows'[grants'[h]] # NoRow
      BY DEF Keyed
    <2>1. ASSUME NEW r \in Requests, Commit(r) \/ CommitUnheard(r)
          PROVE  rows'[grants'[h]] # NoRow
      <3>1. req[r].at = "commit" /\ Stands(r)
        BY <2>1 DEF Commit, CommitUnheard
      <3>2. PICK kept \in Kept(r) : Written(r, kept)
        BY <2>1 DEF Commit, CommitUnheard
      <3>3. req[r].hash \in Hashes /\ req[r].conn \in Ids /\ req[r].account \in Accounts
        BY <3>1 DEF Typed, Fits
      <3>4. \A c \in Ids : rows[c] # NoRow => rows'[c] # NoRow
        BY <3>2, <3>3, GrantsAssumption DEF Written, Upserted, Typed, TypeOK
      <3>5. h \notin Pruned(r, kept) /\ grants'[h] = Granted(r)[h]
        BY <3>2, GrantsAssumption DEF Written
      <3>6. CASE Granted(r)[h] = grants[h]
        BY <3>4, <3>5, <3>6 DEF Keyed
      <3>7. CASE Granted(r)[h] # grants[h]
        <4>1. req[r].held = NoRow /\ grants'[h] = req[r].conn
          BY <3>3, <3>5, <3>7 DEF Granted, Typed, TypeOK
        <4> QED BY <3>1, <3>2, <4>1 DEF Stands, Written
      <3> QED BY <3>6, <3>7
    <2>2. ASSUME NEW c \in Ids,
                 rows' = [rows EXCEPT ![c] = NoRow], grants' = Without(c)
          PROVE  rows'[grants'[h]] # NoRow
      <3>1. grants[h] # c /\ grants'[h] = grants[h]
        BY <2>2, GrantsAssumption DEF Without
      <3> QED BY <2>2, <3>1 DEF Keyed, Typed, TypeOK
    <2>3. ASSUME NEW r \in Requests, Revoke(r) PROVE rows'[grants'[h]] # NoRow
      <3> DEFINE g == req[r].hash
                 c == req[r].conn
      <3>1. c \in Ids /\ g \in Hashes
        BY <2>3 DEF Revoke, Typed, Fits
      <3>2. grants' = Revoked(g, c) /\ rows' = IF LastOne(g, c) THEN [rows EXCEPT ![c] = NoRow] ELSE rows
        BY <2>3 DEF Revoke
      <3> HIDE DEF g, c
      <3>3. CASE LastOne(g, c)
        BY <2>2, <3>1, <3>2, <3>3 DEF Revoked
      <3>4. CASE ~LastOne(g, c)
        <4>1. grants'[h] = grants[h]
          BY <3>1, <3>2, <3>4, GrantsAssumption DEF Revoked, Typed, TypeOK
        <4> QED BY <3>2, <3>4, <4>1 DEF Keyed
      <3> QED BY <3>3, <3>4
    <2>4. ASSUME NEW r \in Requests, Delete(r) PROVE rows'[grants'[h]] # NoRow
      <3>1. req[r].conn \in Ids
        BY <2>4 DEF Delete, Typed, Fits
      <3> QED BY <2>2, <2>4, <3>1 DEF Delete
    <2>5. ASSUME UNCHANGED <<rows, grants>> PROVE rows'[grants'[h]] # NoRow
      BY <2>5 DEF Keyed
    <2>6. ASSUME NEW r \in Requests, Begin(r) PROVE rows'[grants'[h]] # NoRow
      BY <2>5, <2>6 DEF Begin, Callback, RemoveDevice, Disconnect, Ticket
    <2>7. ASSUME NEW r \in Requests,
                 ReadExisting(r) \/ ReadHeld(r) \/ Throws(r) \/ Find(r) \/ Close(r)
                   \/ Check(r) \/ Connect(r) \/ CutOff(r)
          PROVE  rows'[grants'[h]] # NoRow
      BY <2>5, <2>7 DEF ReadExisting, ReadHeld, Throws, Find, Close, Check, Connect, CutOff
    <2>8. ASSUME NEW s \in sockets, Leaves(s) PROVE rows'[grants'[h]] # NoRow
      BY <2>5, <2>8 DEF Leaves
    <2>9. ASSUME NEW g \in Hashes, GoesIdle(g) PROVE rows'[grants'[h]] # NoRow
      BY <2>5, <2>9 DEF GoesIdle
    <2>10. CASE UNCHANGED vars
      BY <2>5, <2>10 DEF vars
    <2> QED BY <2>1, <2>3, <2>4, <2>6, <2>7, <2>8, <2>9, <2>10 DEF Next, Continue
  <1> QED BY <1>1, <1>2, AlwaysTyped, PTL DEF Spec

-----------------------------------------------------------------------------
(* The sockets follow the grants. *)

Follows(s) == \/ s.stray
              \/ grants[s.grant] = s.conn
              \/ \E r \in Requests : Closing(r, s)

(* A request that is not at its closing closes nothing, so moving it on
   takes no other request's closing away. *)
LEMMA OthersClose ==
  ASSUME Typed, NEW r \in Requests, req[r].at # "close",
         \A x \in Requests \ {r} : req'[x] = req[x],
         NEW s, \E x \in Requests : Closing(x, s)
  PROVE  \E x \in Requests : Closing(x, s)'
  BY DEF Closing, Matches

LEMMA StillFollows ==
  ASSUME Typed, NEW r \in Requests, req[r].at # "close",
         \A x \in Requests \ {r} : req'[x] = req[x],
         NEW s \in Socket, Follows(s),
         grants'[s.grant] = grants[s.grant] \/ Closing(r, s)'
  PROVE  Follows(s)'
  <1>1. CASE s.stray
    BY <1>1 DEF Follows
  <1>2. CASE grants[s.grant] = s.conn
    BY <1>2 DEF Follows
  <1>3. CASE \E x \in Requests : Closing(x, s)
    BY <1>3, OthersClose DEF Follows
  <1> QED BY <1>1, <1>2, <1>3 DEF Follows

(* A socket that is open where its grant is not has been told to close, is
   about to be, or is one of the two the socket's hour is for. *)
THEOREM SocketsFollow == Spec => []RevokedHearNothing
  <1>1. Init => RevokedHearNothing
    BY DEF Init, RevokedHearNothing
  <1>2. Typed /\ Keyed /\ RevokedHearNothing /\ [Next]_vars => RevokedHearNothing'
    <2> SUFFICES ASSUME Typed, Keyed, RevokedHearNothing, [Next]_vars, NEW s \in sockets'
                 PROVE  Follows(s)'
      BY DEF RevokedHearNothing, Follows, Closing
    <2>0. \A t \in sockets : t \in Socket /\ Follows(t)
      BY DEF RevokedHearNothing, Follows, Typed, TypeOK
    <2>a. ASSUME UNCHANGED <<sockets, grants, req>> PROVE Follows(s)'
      BY <2>0, <2>a DEF Follows, Closing
    <2>b. ASSUME NEW r \in Requests, UNCHANGED <<sockets, grants>>, req[r].at # "close",
                 \A x \in Requests \ {r} : req'[x] = req[x]
          PROVE  Follows(s)'
      BY <2>0, <2>b, StillFollows
    <2>1. ASSUME NEW r \in Requests, Begin(r) PROVE Follows(s)'
      <3>1. UNCHANGED <<sockets, grants>> /\ req[r].at # "close"
        BY <2>1 DEF Begin, Callback, RemoveDevice, Disconnect, Ticket
      <3>2. \A x \in Requests \ {r} : req'[x] = req[x]
        BY <2>1 DEF Begin, Callback, RemoveDevice, Disconnect, Ticket, Typed, TypeOK
      <3> QED BY <3>1, <3>2, <2>b
    <2>2. ASSUME NEW r \in Requests,
                 ReadExisting(r) \/ ReadHeld(r) \/ Throws(r) \/ Find(r) \/ Check(r)
          PROVE  Follows(s)'
      <3>1. UNCHANGED <<sockets, grants>> /\ req[r].at # "close"
        BY <2>2 DEF ReadExisting, ReadHeld, Throws, Find, Check
      <3>2. \A x \in Requests \ {r} : req'[x] = req[x]
        BY <2>2 DEF ReadExisting, ReadHeld, Throws, Find, Check, TryAgain, Done, Goes, Typed, TypeOK
      <3> QED BY <3>1, <3>2, <2>b
    <2>3. ASSUME NEW r \in Requests, Commit(r) PROVE Follows(s)'
      <3>1. req[r].at = "commit" /\ Stands(r) /\ sockets' = sockets
        BY <2>3 DEF Commit
      <3>2. PICK kept \in Kept(r) :
              /\ Written(r, kept)
              /\ req' = [req EXCEPT ![r].at = "close", ![r].gone = Pruned(r, kept)]
        BY <2>3 DEF Commit
      <3>3. \A x \in Requests \ {r} : req'[x] = req[x]
        BY <3>2 DEF Typed, TypeOK
      <3>4. s \in Socket /\ Follows(s) /\ s.grant \in Hashes
        BY <2>0, <3>1 DEF Socket
      <3>5. CASE s.grant \in Pruned(r, kept)
        <4>1. Granted(r)[s.grant] = req[r].conn
          BY <3>5 DEF Pruned
        <4>2. s.stray \/ (\E x \in Requests : Closing(x, s)) \/ s.conn = req[r].conn
          <5>1. grants[s.grant] = s.conn => s.conn = req[r].conn
            <6> SUFFICES ASSUME grants[s.grant] = s.conn PROVE s.conn = req[r].conn
              OBVIOUS
            <6>1. s.conn # NoRow
              BY <3>4, GrantsAssumption DEF Socket
            <6>2. Granted(r)[s.grant] = grants[s.grant]
              BY <3>1, <3>4, <6>1 DEF Granted, Stands, Typed, TypeOK
            <6> QED BY <4>1, <6>2
          <5> QED BY <3>4, <5>1 DEF Follows
        <4>3. CASE s.conn = req[r].conn
          <5>1. req'[r].at = "close" /\ req'[r].gone = Pruned(r, kept) /\ req'[r].conn = req[r].conn
            BY <3>2 DEF Typed, TypeOK, Request
          <5>2. Closing(r, s)'
            BY <3>5, <4>3, <5>1 DEF Closing, Matches
          <5> QED BY <3>1, <3>3, <3>4, <5>2, StillFollows
        <4>4. CASE s.stray
          BY <4>4 DEF Follows
        <4>5. CASE \E x \in Requests : Closing(x, s)
          BY <3>1, <3>3, <4>5, OthersClose DEF Follows
        <4> QED BY <4>2, <4>3, <4>4, <4>5
      <3>6. CASE s.grant \notin Pruned(r, kept)
        <4>1. grants'[s.grant] = Granted(r)[s.grant]
          BY <3>2, <3>4, <3>6 DEF Written
        <4>2. grants[s.grant] = s.conn => grants'[s.grant] = s.conn
          <5> SUFFICES ASSUME grants[s.grant] = s.conn PROVE grants'[s.grant] = s.conn
            OBVIOUS
          <5>1. s.conn # NoRow
            BY <3>4, GrantsAssumption DEF Socket
          <5> QED BY <3>1, <3>4, <4>1, <5>1 DEF Granted, Stands, Typed, TypeOK
        <4>3. (\E x \in Requests : Closing(x, s)) => (\E x \in Requests : Closing(x, s)')
          BY <3>1, <3>3, OthersClose
        <4> QED BY <3>4, <4>2, <4>3 DEF Follows
      <3> QED BY <3>5, <3>6
    <2>4. ASSUME NEW r \in Requests, CommitUnheard(r) PROVE Follows(s)'
      <3>1. req[r].at = "commit" /\ Stands(r)
        BY <2>4 DEF CommitUnheard
      <3>2. PICK kept \in Kept(r) : Written(r, kept) /\ Untold(req[r].conn, FALSE, Pruned(r, kept))
        BY <2>4 DEF CommitUnheard
      <3>3. \A x \in Requests \ {r} : req'[x] = req[x]
        BY <2>4 DEF CommitUnheard, TryAgain, Done, Typed, TypeOK
      <3>4. CASE s.stray
        BY <3>4 DEF Follows
      <3>5. CASE ~s.stray
        <4>1. s \in sockets /\ ~Matches(s, req[r].conn, FALSE, Pruned(r, kept))
          BY <2>0, <3>2, <3>5 DEF Untold, Socket
        <4>2. s \in Socket /\ Follows(s) /\ s.grant \in Hashes
          BY <2>0, <4>1 DEF Socket
        <4>3. grants[s.grant] = s.conn => grants'[s.grant] = s.conn
          <5> SUFFICES ASSUME grants[s.grant] = s.conn PROVE grants'[s.grant] = s.conn
            OBVIOUS
          <5>1. s.conn # NoRow
            BY <4>2, GrantsAssumption DEF Socket
          <5>2. Granted(r)[s.grant] = s.conn
            BY <3>1, <4>2, <5>1 DEF Granted, Stands, Typed, TypeOK
          <5>3. s.grant \notin Pruned(r, kept)
            BY <4>1, <5>2 DEF Matches, Pruned
          <5> QED BY <3>2, <4>2, <5>2, <5>3 DEF Written
        <4>4. (\E x \in Requests : Closing(x, s)) => (\E x \in Requests : Closing(x, s)')
          BY <3>1, <3>3, OthersClose
        <4> QED BY <3>5, <4>2, <4>3, <4>4 DEF Follows
      <3> QED BY <3>4, <3>5
    <2>5. ASSUME NEW r \in Requests, Revoke(r) PROVE Follows(s)'
      <3> DEFINE h == req[r].hash
                 c == req[r].conn
      <3>1. h \in Hashes /\ c \in Ids /\ req[r].at # "close" /\ sockets' = sockets
        BY <2>5 DEF Revoke, Typed, Fits
      <3>2. s \in Socket /\ Follows(s) /\ s.grant \in Hashes
        BY <2>0, <3>1 DEF Socket
      <3>3. \A x \in Requests \ {r} : req'[x] = req[x]
        BY <2>5 DEF Revoke, Typed, TypeOK
      <3>4. /\ req'[r].at = "close" /\ req'[r].gone = {h} /\ req'[r].conn = c
            /\ req'[r].all = (LastOne(h, c) /\ rows[c] # NoRow)
        BY <2>5 DEF Revoke, Typed, TypeOK, Request
      <3>5. grants' = Revoked(h, c)
        BY <2>5 DEF Revoke
      <3> HIDE DEF h, c
      <3>6. grants'[s.grant] # grants[s.grant] => grants[s.grant] = c /\ (s.grant = h \/ LastOne(h, c))
        BY <3>1, <3>2, <3>5 DEF Revoked, Without, Typed, TypeOK
      <3>7. CASE grants'[s.grant] = grants[s.grant]
        BY <3>1, <3>2, <3>3, <3>7, StillFollows
      <3>8. CASE s.stray
        BY <3>8 DEF Follows
      <3>9. CASE \E x \in Requests : Closing(x, s)
        BY <3>1, <3>3, <3>9, OthersClose DEF Follows
      <3>10. CASE grants[s.grant] = s.conn /\ grants'[s.grant] # grants[s.grant]
        <4>1. s.conn = c
          BY <3>6, <3>10
        <4>2. CASE s.grant = h
          BY <3>4, <4>1, <4>2 DEF Follows, Closing, Matches
        <4>3. CASE s.grant # h
          <5>1. rows[c] # NoRow
            BY <3>1, <3>2, <3>6, <3>10 DEF Keyed
          <5> QED BY <3>4, <3>6, <3>10, <4>1, <4>3, <5>1 DEF Follows, Closing, Matches
        <4> QED BY <4>2, <4>3
      <3> QED BY <3>2, <3>7, <3>8, <3>9, <3>10 DEF Follows
    <2>6. ASSUME NEW r \in Requests, Delete(r) PROVE Follows(s)'
      <3> DEFINE c == req[r].conn
      <3>1. c \in Ids /\ req[r].at # "close" /\ sockets' = sockets
        BY <2>6 DEF Delete, Typed, Fits
      <3>2. s \in Socket /\ Follows(s) /\ s.grant \in Hashes
        BY <2>0, <3>1 DEF Socket
      <3>3. \A x \in Requests \ {r} : req'[x] = req[x]
        BY <2>6 DEF Delete, Typed, TypeOK
      <3>4. req'[r].at = "close" /\ req'[r].all = TRUE /\ req'[r].conn = c
        BY <2>6 DEF Delete, Typed, TypeOK, Request
      <3>5. grants' = Without(c)
        BY <2>6 DEF Delete
      <3> HIDE DEF c
      <3>6. CASE s.stray
        BY <3>6 DEF Follows
      <3>7. CASE \E x \in Requests : Closing(x, s)
        BY <3>1, <3>3, <3>7, OthersClose DEF Follows
      <3>8. CASE grants[s.grant] = s.conn
        <4>1. CASE s.conn = c
          BY <3>4, <4>1 DEF Follows, Closing, Matches
        <4>2. CASE s.conn # c
          BY <3>2, <3>5, <3>8, <4>2 DEF Follows, Without
        <4> QED BY <4>1, <4>2
      <3> QED BY <3>2, <3>6, <3>7, <3>8 DEF Follows
    <2>7. ASSUME NEW r \in Requests, Close(r) PROVE Follows(s)'
      <3>1. s \in sockets /\ grants' = grants /\ ~Matches(s, req[r].conn, req[r].all, req[r].gone)
        BY <2>7 DEF Close
      <3>2. \A x \in Requests \ {r} : req'[x] = req[x]
        BY <2>7 DEF Close, Done, Typed, TypeOK
      <3>3. (\E x \in Requests : Closing(x, s)) => (\E x \in Requests : Closing(x, s)')
        BY <3>1, <3>2 DEF Closing
      <3> QED BY <2>0, <3>1, <3>3 DEF Follows
    <2>8. ASSUME NEW r \in Requests, CutOff(r) PROVE Follows(s)'
      <3>1. grants' = grants
        BY <2>8 DEF CutOff
      <3>2. \A x \in Requests \ {r} : req'[x] = req[x]
        BY <2>8 DEF CutOff, Done, Typed, TypeOK
      <3>3. CASE s.stray
        BY <3>3 DEF Follows
      <3>4. CASE ~s.stray
        <4>1. s \in sockets /\ ~Closing(r, s)
          BY <2>0, <2>8, <3>4 DEF CutOff, Untold, Closing, Socket
        <4>2. (\E x \in Requests : Closing(x, s)) => (\E x \in Requests : Closing(x, s)')
          BY <3>2, <4>1 DEF Closing
        <4> QED BY <2>0, <3>1, <4>1, <4>2 DEF Follows
      <3> QED BY <3>3, <3>4
    <2>9. ASSUME NEW r \in Requests, Connect(r) PROVE Follows(s)'
      <3>1. grants' = grants /\ req[r].at = "connect"
        BY <2>9 DEF Connect
      <3>2. \A x \in Requests \ {r} : req'[x] = req[x]
        BY <2>9 DEF Connect, Done, Typed, TypeOK
      <3>3. CASE s \in sockets
        BY <2>0, <3>1, <3>2, <3>3, StillFollows
      <3>4. CASE s \notin sockets
        <4> DEFINE h == req[r].hash
                   c == req[r].conn
        <4>1. s = [grant |-> h, conn |-> c, stray |-> req[r].held = c /\ grants[h] # c]
          BY <2>9, <3>4 DEF Connect
        <4>2. req[r].held = c
          BY <3>1 DEF Typed, Fits
        <4> QED BY <3>1, <4>1, <4>2 DEF Follows
      <3> QED BY <3>3, <3>4
    <2>10. ASSUME NEW t \in sockets, Leaves(t) PROVE Follows(s)'
      BY <2>0, <2>10 DEF Leaves, Follows, Closing
    <2>11. ASSUME NEW h \in Hashes, GoesIdle(h) PROVE Follows(s)'
      BY <2>a, <2>11 DEF GoesIdle
    <2>12. CASE UNCHANGED vars
      BY <2>a, <2>12 DEF vars
    <2> QED BY <2>1, <2>2, <2>3, <2>4, <2>5, <2>6, <2>7, <2>8, <2>9, <2>10, <2>11, <2>12
            DEF Next, Continue
  <1> QED BY <1>1, <1>2, AlwaysTyped, AlwaysKeyed, PTL DEF Spec
=============================================================================

------------------------------- MODULE Grants -------------------------------
(***************************************************************************)
(* The server's two tables that say who may reach which storage account    *)
(* (apps/api/src/db/connections.ts, credentials.ts, db/schema.ts), the     *)
(* requests that write them (the OAuth callback of routes/connect.ts, the  *)
(* two deletes of routes/connections.ts), and the relay's sockets, which   *)
(* have to follow them (routes/relay.ts, relay/room.ts).                   *)
(*                                                                         *)
(* A request is several awaits, and any other request runs in between; a   *)
(* `db.batch` is one transaction and so one step here.  A request may be   *)
(* cut off at any await (a closed tab), and the database may throw with    *)
(* or without having done what it was asked.                               *)
(*                                                                         *)
(* Simplifications: a grant's row id and the hash of its credential name   *)
(* each other for ever, so one value stands for both; when a grant was     *)
(* last used is kept only as "idle or not", so which of the other grants   *)
(* the cap evicts is left open; the sealed secret, the provider and the    *)
(* entitlement seam are not here; a hub that cannot be reached is a        *)
(* request cut off before it closed the sockets.                           *)
(***************************************************************************)
EXTENDS Naturals, FiniteSets

CONSTANTS Hashes,     \* hashes of credentials, one per grant row
          Accounts,   \* a provider's accounts
          Ids,        \* the row ids this instance may draw
          Requests,   \* how many requests are under way at once
          Cap,        \* MAX_GRANTS_PER_CONNECTION
          NoRow,      \* no row: of a connection, or of a grant
          Null        \* a grant row whose connection_id is null

ASSUME GrantsAssumption ==
  /\ Cap \in Nat \ {0}
  /\ IsFiniteSet(Hashes)
  /\ NoRow \notin Ids /\ Null \notin Ids /\ NoRow # Null
  /\ NoRow \notin Accounts

VARIABLES
  rows,      \* storage_connections: the account of each row, NoRow without one
  grants,    \* grants: the connection_id of each row, NoRow without one
  idle,      \* grants not used within GRANT_IDLE_DAYS
  drawn,     \* row ids drawn so far: an id is random and never drawn again
  sockets,   \* open relay sockets: whose, on which connection, and whether the
             \* hub is known to have been told nothing of its grant's going
  req,       \* the requests under way
  revived    \* history: rows written by a callback for a grant that was
             \* withdrawn between the read of it and the write

vars == <<rows, grants, idle, drawn, sockets, req, revived>>

Steps == {"free", "existing", "held", "commit", "find", "revoke", "delete",
          "close", "check", "connect"}

Request == [at : Steps, hash : Hashes \cup {NoRow}, account : Accounts \cup {NoRow},
            conn : Ids \cup {NoRow}, held : Ids \cup {NoRow, Null},
            again : BOOLEAN, all : BOOLEAN, gone : SUBSET Hashes]

Socket == [grant : Hashes, conn : Ids, stray : BOOLEAN]

Free == [at |-> "free", hash |-> NoRow, account |-> NoRow, conn |-> NoRow,
         held |-> NoRow, again |-> FALSE, all |-> FALSE, gone |-> {}]

TypeOK ==
  /\ rows \in [Ids -> Accounts \cup {NoRow}]
  /\ grants \in [Hashes -> Ids \cup {NoRow, Null}]
  /\ idle \in SUBSET Hashes
  /\ drawn \in SUBSET Ids
  /\ sockets \in SUBSET Socket
  /\ req \in [Requests -> Request]
  /\ revived \in SUBSET Ids

Init ==
  /\ rows = [c \in Ids |-> NoRow]
  /\ grants = [h \in Hashes |-> NoRow]
  /\ idle = {}
  /\ drawn = {}
  /\ sockets = {}
  /\ req = [r \in Requests |-> Free]
  /\ revived = {}

-----------------------------------------------------------------------------
(* Reading the tables. *)

(* grantHolder: the credential is known, attached, not idle, and its
   connection is there.  What a request with a bearer needs to begin. *)
Holds(h, c) == grants[h] = c /\ h \notin idle /\ rows[c] # NoRow

\* Mutant: a ticket is good whoever it was given to.
AnyTicket(h, c) == TRUE

(* liveGrant: the same test by grant, without the connection's row. *)
LiveGrant(h, c) == grants[h] = c /\ h \notin idle

Rows(a) == {c \in Ids : rows[c] = a}
Holders(c) == {h \in Hashes : grants[h] = c}

Done(r) == req' = [req EXCEPT ![r] = Free]
Goes(r, step) == req' = [req EXCEPT ![r].at = step]

-----------------------------------------------------------------------------
(* commitConnection: a callback stores the connection and its grant. *)

Callback(r, h, a) ==
  /\ req[r].at = "free"
  /\ req' = [req EXCEPT ![r] = [Free EXCEPT !.at = "existing", !.hash = h, !.account = a]]
  /\ UNCHANGED <<rows, grants, idle, drawn, sockets, revived>>

(* The row the account has, or an id for the one it is to have. *)
ReadExisting(r) ==
  /\ req[r].at = "existing"
  /\ \E c \in Ids :
       /\ IF Rows(req[r].account) # {} THEN c \in Rows(req[r].account) /\ drawn' = drawn
          ELSE c \notin drawn /\ drawn' = drawn \cup {c}
       /\ req' = [req EXCEPT ![r].at = "held", ![r].conn = c]
  /\ UNCHANGED <<rows, grants, idle, sockets, revived>>

(* Anything but a stored connection is tried once more from the beginning. *)
TryAgain(r) ==
  IF req[r].again THEN Done(r)
  ELSE req' = [req EXCEPT ![r] = [Free EXCEPT !.at = "existing", !.hash = req[r].hash,
                                              !.account = req[r].account, !.again = TRUE]]

(* A hash is claimable once: one that is held, or was, is only good for the
   connection it is on. *)
ClaimedElsewhere(h, c) == grants[h] # NoRow /\ grants[h] # c

ReadHeld(r) ==
  /\ req[r].at = "held"
  /\ IF ClaimedElsewhere(req[r].hash, req[r].conn) THEN TryAgain(r)
     ELSE req' = [req EXCEPT ![r].at = "commit", ![r].held = grants[req[r].hash]]
  /\ UNCHANGED <<rows, grants, idle, drawn, sockets, revived>>

(* The batch: the row by its account, the grant, and the cap. *)
Upserted(r) == IF Rows(req[r].account) # {} THEN rows
               ELSE [rows EXCEPT ![req[r].conn] = req[r].account]

\* Mutant: the grant is written over whoever holds the hash.
StandsOverHash(r) == req[r].held = NoRow => Upserted(r)[req[r].conn] # NoRow

(* What rolls the batch back: the unique hash, and the foreign key. *)
Stands(r) ==
  req[r].held = NoRow => grants[req[r].hash] = NoRow /\ Upserted(r)[req[r].conn] # NoRow

\* Mutant: the grant is stored under the account's id, not the row's.
GrantedToAccount(r) == IF req[r].held = NoRow
                       THEN [grants EXCEPT ![req[r].hash] = req[r].account] ELSE grants

Granted(r) == IF req[r].held = NoRow THEN [grants EXCEPT ![req[r].hash] = req[r].conn]
              ELSE grants

(* The grant just used is the most recent and keeps its place. *)
Within(cap, n) == IF n < cap THEN n ELSE cap
Kept(r) == LET on == {h \in Hashes : Granted(r)[h] = req[r].conn} IN
  {kept \in SUBSET on : /\ Cardinality(kept) = Within(Cap, Cardinality(on))
                        /\ req[r].hash \in on => req[r].hash \in kept}

Pruned(r, kept) == {h \in Hashes : Granted(r)[h] = req[r].conn /\ h \notin kept}

Written(r, kept) ==
  /\ rows' = Upserted(r)
  /\ grants' = [h \in Hashes |-> IF h \in Pruned(r, kept) THEN Null ELSE Granted(r)[h]]
  /\ idle' = idle \ {req[r].hash}
  /\ revived' = IF Granted(r)[req[r].hash] = req[r].conn THEN revived \ {req[r].conn}
                ELSE revived \cup {req[r].conn}

Commit(r) ==
  /\ req[r].at = "commit" /\ Stands(r)
  /\ \E kept \in Kept(r) :
       /\ Written(r, kept)
       /\ req' = [req EXCEPT ![r].at = "close", ![r].gone = Pruned(r, kept)]
  /\ UNCHANGED <<drawn, sockets>>

Matches(s, c, all, gone) == s.conn = c /\ (all \/ s.grant \in gone)

(* The hub is not told: what it would have closed goes on until its hour. *)
Untold(c, all, gone) ==
  sockets' = {IF Matches(s, c, all, gone) THEN [s EXCEPT !.stray = TRUE] ELSE s : s \in sockets}

(* The batch went through and its answer was lost. *)
CommitUnheard(r) ==
  /\ req[r].at = "commit" /\ Stands(r)
  /\ \E kept \in Kept(r) :
       Written(r, kept) /\ Untold(req[r].conn, FALSE, Pruned(r, kept))
  /\ TryAgain(r)
  /\ UNCHANGED drawn

(* The batch was rolled back, or the database threw before it changed anything. *)
Throws(r) ==
  /\ req[r].at \in {"existing", "held", "commit"}
  /\ TryAgain(r)
  /\ UNCHANGED <<rows, grants, idle, drawn, sockets, revived>>

-----------------------------------------------------------------------------
(* DELETE /connection/grants/:id, and DELETE /connection. *)

RemoveDevice(r, h, target) ==
  /\ req[r].at = "free"
  /\ \E c \in Ids :
       /\ Holds(h, c)
       /\ req' = [req EXCEPT ![r] = [Free EXCEPT !.at = "find", !.hash = target, !.conn = c]]
  /\ UNCHANGED <<rows, grants, idle, drawn, sockets, revived>>

Find(r) ==
  /\ req[r].at = "find"
  /\ IF grants[req[r].hash] = req[r].conn THEN Goes(r, "revoke") ELSE Done(r)
  /\ UNCHANGED <<rows, grants, idle, drawn, sockets, revived>>

(* Null where the row is deleted under a grant: the foreign key's `set null`. *)
Without(c) == [h \in Hashes |-> IF grants[h] = c THEN Null ELSE grants[h]]

\* Mutant: asked before the grant is nulled, so it counts itself.
LastOneAsked(h, c) == \A g \in Holders(c) : g \in idle

(* revokeGrant: the grant is nulled, and the row goes with the last that is
   not idle, in one transaction. *)
LastOne(h, c) == \A g \in Holders(c) \ {h} : g \in idle

Revoked(h, c) == IF LastOne(h, c) THEN Without(c)
                 ELSE [grants EXCEPT ![h] = IF @ = c THEN Null ELSE @]

Revoke(r) ==
  LET h == req[r].hash  c == req[r].conn IN
  /\ req[r].at = "revoke"
  /\ grants' = Revoked(h, c)
  /\ rows' = IF LastOne(h, c) THEN [rows EXCEPT ![c] = NoRow] ELSE rows
  /\ req' = [req EXCEPT ![r].at = "close", ![r].gone = {h},
                        ![r].all = LastOne(h, c) /\ rows[c] # NoRow]
  /\ UNCHANGED <<idle, drawn, sockets, revived>>

Disconnect(r, h) ==
  /\ req[r].at = "free"
  /\ \E c \in Ids :
       /\ Holds(h, c)
       /\ req' = [req EXCEPT ![r] = [Free EXCEPT !.at = "delete", !.conn = c]]
  /\ UNCHANGED <<rows, grants, idle, drawn, sockets, revived>>

(* After the provider has been asked to withdraw the app's access. *)
Delete(r) ==
  LET c == req[r].conn IN
  /\ req[r].at = "delete"
  /\ rows' = [rows EXCEPT ![c] = NoRow]
  /\ grants' = Without(c)
  /\ req' = [req EXCEPT ![r].at = "close", ![r].all = TRUE]
  /\ UNCHANGED <<idle, drawn, sockets, revived>>

(* closeSockets, after the writes. *)
Close(r) ==
  /\ req[r].at = "close"
  /\ sockets' = {s \in sockets : ~Matches(s, req[r].conn, req[r].all, req[r].gone)}
  /\ Done(r)
  /\ UNCHANGED <<rows, grants, idle, drawn, revived>>

-----------------------------------------------------------------------------
(* The relay: a ticket asked for with the bearer, and the upgrade it opens. *)

Ticket(r, h) ==
  /\ req[r].at = "free"
  /\ \E c \in Ids :
       /\ Holds(h, c)
       /\ req' = [req EXCEPT ![r] = [Free EXCEPT !.at = "check", !.hash = h, !.conn = c]]
  /\ UNCHANGED <<rows, grants, idle, drawn, sockets, revived>>

Check(r) ==
  /\ req[r].at = "check"
  /\ IF LiveGrant(req[r].hash, req[r].conn)
     THEN req' = [req EXCEPT ![r].at = "connect", ![r].held = grants[req[r].hash]]
     ELSE Done(r)
  /\ UNCHANGED <<rows, grants, idle, drawn, sockets, revived>>

(* The hub accepts it.  A grant that has gone since it was checked is let in
   all the same, for its hour at the most. *)
Connect(r) ==
  LET h == req[r].hash  c == req[r].conn IN
  /\ req[r].at = "connect"
  /\ sockets' = sockets \cup {[grant |-> h, conn |-> c, stray |-> req[r].held = c /\ grants[h] # c]}
  /\ Done(r)
  /\ UNCHANGED <<rows, grants, idle, drawn, revived>>

(* Closed by the device, or past its hour the next time the hub would use it. *)
Leaves(s) ==
  /\ s \in sockets
  /\ sockets' = sockets \ {s}
  /\ UNCHANGED <<rows, grants, idle, drawn, req, revived>>

-----------------------------------------------------------------------------
GoesIdle(h) ==
  /\ grants[h] \in Ids /\ h \notin idle
  /\ idle' = idle \cup {h}
  /\ UNCHANGED <<rows, grants, drawn, sockets, req, revived>>

(* A request ends where it stands: what it wrote stays, and what it was still
   to do is not done. *)
CutOff(r) ==
  /\ req[r].at # "free"
  /\ IF req[r].at = "close" THEN Untold(req[r].conn, req[r].all, req[r].gone)
     ELSE sockets' = sockets
  /\ Done(r)
  /\ UNCHANGED <<rows, grants, idle, drawn, revived>>

Begin(r) ==
  \E h \in Hashes :
    \/ \E a \in Accounts : Callback(r, h, a)
    \/ \E target \in Hashes : RemoveDevice(r, h, target)
    \/ Disconnect(r, h)
    \/ Ticket(r, h)

Continue(r) ==
  \/ ReadExisting(r) \/ ReadHeld(r) \/ Commit(r) \/ CommitUnheard(r) \/ Throws(r)
  \/ Find(r) \/ Revoke(r) \/ Delete(r) \/ Close(r)
  \/ Check(r) \/ Connect(r) \/ CutOff(r)

Next ==
  \/ \E r \in Requests : Begin(r) \/ Continue(r)
  \/ \E s \in sockets : Leaves(s)
  \/ \E h \in Hashes : GoesIdle(h)

Spec == Init /\ [][Next]_vars

-----------------------------------------------------------------------------
(* Every connection row is one some device's grant reaches, an idle one
   perhaps: a row without a grant is a sealed refresh token nothing can use
   and nothing can revoke.  The only rows excepted are those a callback wrote
   again for a grant withdrawn while the callback was on its way. *)
RowsAreReached ==
  \A c \in Ids : rows[c] # NoRow => c \in revived \/ Holders(c) # {}

(* A socket that may still hear of changes belongs to a grant that is still on
   that connection, or the request that took the grant away is about to close
   it.  Excepted are the two the relay answers for with the socket's hour: let
   in by a check that came before the grant went, and a hub never told. *)
Closing(r, s) == /\ req[r].at = "close"
                 /\ Matches(s, req[r].conn, req[r].all, req[r].gone)

RevokedHearNothing ==
  \A s \in sockets : \/ s.stray
                     \/ grants[s.grant] = s.conn
                     \/ \E r \in Requests : Closing(r, s)

Promise == INSTANCE Claims WITH Unclaimed <- NoRow, Spent <- Null, claim <- grants

HashesAreClaimedOnce == Promise!Spec
=============================================================================

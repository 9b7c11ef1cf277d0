------------------------------- MODULE Claims -------------------------------
(***************************************************************************)
(* What the server promises about the hash of a device's credential: it is *)
(* claimed by at most one connection, ever.  Once claimed it belongs to    *)
(* that connection until the device is revoked, pruned or disconnected,    *)
(* and from then on to none: it never becomes claimable again and never    *)
(* moves to another connection (apps/api/src/db/schema.ts, the comment on  *)
(* `grants.connectionId`).                                                 *)
(***************************************************************************)

CONSTANTS Hashes,   \* the hashes devices have presented or may present
          Ids,      \* connection ids
          Unclaimed, Spent

VARIABLE claim      \* claim[h]: the connection h reaches, Unclaimed or Spent

Claims == Ids \cup {Unclaimed, Spent}

(* The only ways a claim may go, one hash at a time. *)
MayBecome(was, is) ==
  \/ is = was
  \/ was = Unclaimed /\ is \in Ids
  \/ was \in Ids /\ is = Spent

Init == claim = [h \in Hashes |-> Unclaimed]

Next == /\ claim' \in [Hashes -> Claims]
        /\ \A h \in Hashes : MayBecome(claim[h], claim'[h])

Spec == Init /\ [][Next]_claim
=============================================================================

----------------------------- MODULE MCGrants -----------------------------
EXTENDS Grants, TLC
Alike == Permutations(Hashes) \cup Permutations(Requests) \cup Permutations(Accounts) \cup Permutations(Ids)
=============================================================================

------------------------------ MODULE MCSources ------------------------------
(* Two ids of one account and one of another, each with one file, both with  *)
(* the same name and the same id in it; one note in the pile, of that name.  *)
EXTENDS Sources
MCAccountOf == [c \in Ids |-> IF c = 3 THEN "B" ELSE "A"]
File(a, p, id, w) == [account |-> a, path |-> p, text |-> [id |-> id, body |-> w], version |-> 0]
MCFiles == <<File("A", <<1>>, 1, 1), File("B", <<1>>, 1, 2)>>
MCPile == [n \in {2} |-> [path |-> <<1>>, text |-> [id |-> 2, body |-> 3], dirty |-> TRUE,
                          deleted |-> FALSE, file |-> NoFile, synced |-> NoSynced]]
=============================================================================

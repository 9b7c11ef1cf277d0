------------------------------ MODULE MCFolders ------------------------------
(* A folder with a note in it and an empty one, beside it; or a folder within *)
(* another with the note in it, and an empty one beside both.                *)
EXTENDS Folders
Beside == <<[kind |-> "folder", path |-> <<1>>], [kind |-> "folder", path |-> <<2>>],
            [kind |-> "file", path |-> <<1, 3>>]>>
Between == <<[kind |-> "folder", path |-> <<1>>], [kind |-> "folder", path |-> <<1, 2>>],
             [kind |-> "folder", path |-> <<2>>], [kind |-> "file", path |-> <<1, 2, 3>>]>>
World(f, s) == [feed |-> f, start |-> s]
MCWorlds == {World("paths", Beside), World("ids", Beside), World("ids", Between)}
IdsBetween == {World("ids", Between)}
=============================================================================

------------------------------ MODULE MCNoteSync ------------------------------
(* NoteSync on two devices.                                                  *)
EXTENDS NoteSync

Symmetry == Permutations(Devices)
=============================================================================

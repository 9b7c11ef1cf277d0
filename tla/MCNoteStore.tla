----------------------------- MODULE MCNoteStore -----------------------------
(* NoteStore on small sets.                                                  *)
EXTENDS NoteStore, TLC

Symmetry == Permutations(NoteIds) \cup Permutations(Paths) \cup Permutations(Texts)

\* What is in a hand is explored as long as few ops have been queued.
HandsWhileShort == hand.kind # "none" => next <= 2
=============================================================================

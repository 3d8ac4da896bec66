--------------------------- MODULE MCSupervision ---------------------------
(* Supervision for model checking: the siblings are alike. *)
EXTENDS Supervision, TLC

SiblingSymmetry == Permutations(Cells)

============================================================================

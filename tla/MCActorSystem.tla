--------------------------- MODULE MCActorSystem ---------------------------
(* ActorSystem on small sets of names, cells and clients, for TLC. *)
EXTENDS ActorSystem, TLC

\* Cells are interchangeable: no definition tells one from another.
CellSymmetry == Permutations(Cells)
=============================================================================

------------------------------- MODULE MCTeam -------------------------------
(* Team for model checking: the ids are alike, and so are the callers. *)
EXTENDS Team, TLC

TeamSymmetry == Permutations(Ids) \cup Permutations(Callers)

=============================================================================

----------------------------- MODULE MCTeamActor -----------------------------
(* TeamActor for model checking: the ids are alike, and so are the clients. *)
EXTENDS TeamActor, TLC

TeamActorSymmetry == Permutations(Ids) \cup Permutations(Clients)

==============================================================================

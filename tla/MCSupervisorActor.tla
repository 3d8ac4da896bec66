-------------------------- MODULE MCSupervisorActor --------------------------
(* SupervisorActor for model checking, with two children. *)
EXTENDS SupervisorActor

CONSTANTS x, y

MCSpecs == <<x, y>>

=============================================================================

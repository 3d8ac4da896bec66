----------------------------- MODULE MCAgentActor -----------------------------
(* AgentActor for model checking: the agents are alike where only safety is *)
(* checked.                                                                 *)
EXTENDS AgentActor, TLC

AgentSymmetry == Permutations(Agents)
===============================================================================

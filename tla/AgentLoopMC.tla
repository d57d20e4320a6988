----------------------------- MODULE AgentLoopMC -----------------------------
(* Instances of AgentLoop for TLC. *)
EXTENDS AgentLoop, TLC

\* Tool-use ids are interchangeable: both call the one tool.
IdSymmetry == Permutations(Ids)

MCToolName == [id \in Ids |-> CHOOSE t \in Tools : TRUE]
=============================================================================

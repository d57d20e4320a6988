------------------------------ MODULE JournalMC ------------------------------
(* Instances of Journal for TLC. *)
EXTENDS Journal

MCToolName == [id \in Ids |-> CHOOSE t \in Tools : TRUE]
=============================================================================

------------------------------ MODULE DistribMC ------------------------------
(***************************************************************************)
(* Three files, whose paths read as themselves, as each other, as nothing, *)
(* as two lines or as none.                                                *)
(***************************************************************************)
EXTENDS Distrib

MCReadings == {<<>>, <<Nothing>>, <<Nothing, 1>>} \cup {<<f>> : f \in File}
=============================================================================

------------------------------- MODULE ServeMC -------------------------------
(* Instances of Serve for TLC. *)
EXTENDS Serve, TLC

\* Requests are interchangeable.
RequestSymmetry == Permutations(Requests)
=============================================================================

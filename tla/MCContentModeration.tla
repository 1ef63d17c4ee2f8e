------------------------ MODULE MCContentModeration -------------------------
(***************************************************************************)
(* Instances of ContentModeration for TLC. Every request is made once.     *)
(***************************************************************************)
EXTENDS ContentModeration, TLC

CONSTANTS q1, q2, q3

Symmetry == Permutations(Reqs)
==============================================================================

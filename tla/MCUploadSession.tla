--------------------------- MODULE MCUploadSession ---------------------------
(***************************************************************************)
(* Instances of UploadSession for TLC. Every request is sent once, so the  *)
(* number of requests bounds all counters.                                 *)
(***************************************************************************)
EXTENDS UploadSession, TLC

CONSTANTS q1, q2, q3, q4

Symmetry == Permutations(Reqs)
==============================================================================

--------------------------- MODULE MCAuthSessions ---------------------------
(***************************************************************************)
(* Instances of AuthSessions for TLC. Every request is sent once, so the   *)
(* number of requests bounds all counters.                                 *)
(***************************************************************************)
EXTENDS AuthSessions, TLC

CONSTANTS q1, q2, q3, q4, q5

Symmetry == Permutations(Reqs)
==============================================================================

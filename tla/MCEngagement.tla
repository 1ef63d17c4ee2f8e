---------------------------- MODULE MCEngagement ----------------------------
(***************************************************************************)
(* Instances of Engagement, and so of VideoCatalog, for TLC. All           *)
(* connections come from one address.                                      *)
(***************************************************************************)
EXTENDS Engagement, TLC

CONSTANTS q1, q2, q3, q4, v1, v2, c1, c2, a1

OneAddress == [c \in Conns |-> a1]

Symmetry == Permutations(Reqs) \cup Permutations(Viewers)
==============================================================================

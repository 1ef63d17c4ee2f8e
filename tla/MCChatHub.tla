------------------------------ MODULE MCChatHub ------------------------------
(***************************************************************************)
(* Instances of ChatHub for TLC. c1 and c2 are connections of one user,    *)
(* c3 is another user's.                                                   *)
(***************************************************************************)
EXTENDS ChatHub, TLC

CONSTANTS c1, c2, c3, u1, u2

MCUserOf == [c \in Clients |-> IF c = c3 THEN u2 ELSE u1]

Symmetry == Permutations({c1, c2})
==============================================================================

-------------------------- MODULE MCChatModeration --------------------------
(***************************************************************************)
(* Instances of ChatModeration for TLC. Every message is sent once and     *)
(* every moderator's request made once, which bounds the log.              *)
(***************************************************************************)
EXTENDS ChatModeration, TLC

CONSTANTS m1, m2, q1, q2

Symmetry == Permutations(Msgs) \cup Permutations(Mods)
==============================================================================

---------------------------- MODULE MCLiveStream ----------------------------
(***************************************************************************)
(* Instances of LiveStream for TLC. Every Create request and every hook    *)
(* call happens once, so their numbers bound all counters.                 *)
(***************************************************************************)
EXTENDS LiveStream, TLC

CONSTANTS s1, s2, h1, h2, h3, h4
==============================================================================

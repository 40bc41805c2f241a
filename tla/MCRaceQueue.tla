---------------------------- MODULE MCRaceQueue ----------------------------
(***************************************************************************)
(* RaceQueue for TLC: a queue of two values, three addresses, and enough   *)
(* calls for the two ends of the list to meet.                             *)
(***************************************************************************)
EXTENDS RaceQueue, TLC

Addresses == Permutations(Nodes)
=============================================================================

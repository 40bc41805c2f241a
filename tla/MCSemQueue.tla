----------------------------- MODULE MCSemQueue -----------------------------
(***************************************************************************)
(* SemQueue for TLC: a queue of three places, enough calls for the writer  *)
(* to run into a full queue and the reader into an empty one, and for a    *)
(* freed address to be handed out again.                                   *)
(***************************************************************************)
EXTENDS SemQueue
=============================================================================

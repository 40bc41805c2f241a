---------------------------- MODULE MCCondQueue ----------------------------
(***************************************************************************)
(* CondQueue for TLC: both workers find the queue full, and empty, more    *)
(* than once before main sets q->stop.                                     *)
(***************************************************************************)
EXTENDS CondQueue
=============================================================================

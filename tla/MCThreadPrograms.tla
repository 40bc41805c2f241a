-------------------------- MODULE MCThreadPrograms --------------------------
(***************************************************************************)
(* ThreadPrograms for TLC: five threads, as 1.1 creates, so that a         *)
(* creation can fail with some of them running and some gone.              *)
(***************************************************************************)
EXTENDS ThreadPrograms
=============================================================================

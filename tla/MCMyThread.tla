----------------------------- MODULE MCMyThread -----------------------------
(***************************************************************************)
(* MyThread for TLC: three threads, one more than main creates.            *)
(***************************************************************************)
EXTENDS MyThread
=============================================================================

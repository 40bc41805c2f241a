-------------------------- MODULE MCSignalThreads --------------------------
(***************************************************************************)
(* SignalThreads for TLC: each signal is sent up to twice, so that one can *)
(* come while an earlier one is pending or after it was handled.           *)
(***************************************************************************)
EXTENDS SignalThreads
=============================================================================

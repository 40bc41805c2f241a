---------------------------- MODULE MCLockQueue ----------------------------
(***************************************************************************)
(* LockQueue for TLC.  Both configurations give the allocator one address  *)
(* more than the queue has places, so that a freed address comes back      *)
(* while other nodes are queued, and more calls than places, so that the   *)
(* queue fills, drains and refuses.                                        *)
(***************************************************************************)
EXTENDS LockQueue, TLC

Addresses == Permutations(Nodes)
=============================================================================

------------------------------ MODULE MCProxy ------------------------------
(***************************************************************************)
(* Proxy for TLC: three clients and fewer descriptors than they and their  *)
(* hosts need, so that accept and socket meet a full table; two signals,   *)
(* one for main and one for a handler.                                     *)
(***************************************************************************)
EXTENDS Proxy
=============================================================================

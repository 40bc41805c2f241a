--------------------------- MODULE MCProxyHandler ---------------------------
(***************************************************************************)
(* ProxyHandler for TLC: bodies of up to two units, so that a read can     *)
(* take a part, and that a body can be shorter or longer than declared.    *)
(***************************************************************************)
EXTENDS ProxyHandler
=============================================================================

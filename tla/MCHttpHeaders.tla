--------------------------- MODULE MCHttpHeaders ---------------------------
(***************************************************************************)
(* HttpHeaders for TLC: every stream of symbols up to the size of the      *)
(* buffer, which has room for a terminator the automaton misses.           *)
(***************************************************************************)
EXTENDS HttpHeaders
=============================================================================

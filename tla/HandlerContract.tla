--------------------------- MODULE HandlerContract ---------------------------
(***************************************************************************)
(* What the accept loop of proksi/proxy.c relies on in client_handler: the *)
(* thread owns the descriptor of its client, may open one socket to a      *)
(* host, closes that socket if it opened it, and closes the client last,   *)
(* each of them once.                                                      *)
(***************************************************************************)
VARIABLE fds     \* the two descriptors of a handler

Descriptors == [client : {"open", "closed"}, host : {"none", "open", "closed"}]

Fresh == [client |-> "open", host |-> "none"]

(* before and after a step of the handler.                                 *)
OpensHost(before, after) ==
  before = Fresh /\ after = [before EXCEPT !.host = "open"]

ClosesHost(before, after) ==
  /\ before.client = "open" /\ before.host = "open"
  /\ after = [before EXCEPT !.host = "closed"]

ClosesClient(before, after) ==
  /\ before.client = "open" /\ before.host # "open"
  /\ after = [before EXCEPT !.client = "closed"]

Init == fds = Fresh

Next == OpensHost(fds, fds') \/ ClosesHost(fds, fds') \/ ClosesClient(fds, fds')

Spec == Init /\ [][Next]_fds
=============================================================================

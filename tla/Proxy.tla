------------------------------- MODULE Proxy -------------------------------
(***************************************************************************)
(* main of proksi/proxy.c with the handlers it starts and SIGINT.  A       *)
(* handler does what HandlerContract allows; ProxyHandler shows that       *)
(* client_handler keeps to it.                                             *)
(*                                                                         *)
(* A SIGINT may be taken by main or by a handler.  Taken by main inside    *)
(* accept it makes accept fail (sa_flags has no SA_RESTART); in any other  *)
(* case only the flag tells.  The return of main ends every handler.       *)
(***************************************************************************)
EXTENDS Integers, FiniteSets

CONSTANTS
  Clients,       \* bound: those that connect
  MaxFds,        \* descriptors of the process, but for the standard three
  MaxSigints     \* bound: signals

NoThread == "none"

ASSUME ProxyAssumption ==
  /\ IsFiniteSet(Clients) /\ NoThread \notin Clients
  /\ MaxFds \in Nat \ {0} /\ MaxSigints \in Nat

H == INSTANCE HandlerContract WITH fds <- [client |-> "closed", host |-> "none"]

VARIABLES
  pc,          \* where main is
  working,     \* flag_is_working
  sigints,     \* how many SIGINT came
  client,      \* of each client: where its connection is
  fds,         \* of each client: the descriptors of its handler
  held,        \* client_fd of main, or NoThread
  thread,      \* the thread id main holds: the client of the handler
  detached,    \* the handlers that are detached
  onTime       \* history: clients that accept returned while working

vars == <<pc, working, sigints, client, fds, held, thread, detached, onTime>>

Init ==
  /\ pc = "install" /\ working = TRUE /\ sigints = 0
  /\ client = [c \in Clients |-> "away"]
  /\ fds = [c \in Clients |-> H!Fresh]
  /\ held = NoThread /\ thread = NoThread
  /\ detached = {} /\ onTime = {}

Ended == pc \in {"exited", "crashed"}

Goto(from, to) == pc = from /\ pc' = to

(* Descriptors in use: of main, of clients, of hosts.                      *)
Used ==
  (IF pc \in {"install", "listen"} THEN 0 ELSE 1)
  + Cardinality({c \in Clients : client[c] \in {"held", "leaked"}})
  + Cardinality({c \in Clients : client[c] = "served" /\ fds[c].client = "open"})
  + Cardinality({c \in Clients : client[c] = "served" /\ fds[c].host = "open"})

Full == Used >= MaxFds

-----------------------------------------------------------------------------
(* The environment                                                         *)

Connect(c) ==
  /\ ~Ended /\ pc \notin {"install", "listen"}
  /\ client[c] = "away"
  /\ client' = [client EXCEPT ![c] = "queued"]
  /\ UNCHANGED <<pc, working, sigints, fds, held, thread, detached, onTime>>

(* handle_sigint, in main or in a handler.                                 *)
Sigint ==
  /\ ~Ended /\ sigints < MaxSigints
  /\ sigints' = sigints + 1
  /\ \/ pc = "install" /\ pc' = "exited" /\ UNCHANGED working
     \/ pc = "accept" /\ pc' = "close" /\ working' = FALSE
     \/ pc \notin {"install", "accept"} /\ working' = FALSE /\ UNCHANGED pc
     \/ /\ \E c \in Clients : client[c] = "served" /\ fds[c].client = "open"
        /\ working' = FALSE /\ UNCHANGED pc
  /\ UNCHANGED <<client, fds, held, thread, detached, onTime>>

(* A step of client_handler.                                               *)
Handler(c) ==
  /\ ~Ended /\ client[c] = "served"
  /\ \E after \in H!Descriptors :
       /\ \/ H!OpensHost(fds[c], after) /\ ~Full
          \/ H!ClosesHost(fds[c], after)
          \/ H!ClosesClient(fds[c], after)
       /\ fds' = [fds EXCEPT ![c] = after]
  /\ UNCHANGED <<pc, working, sigints, client, held, thread, detached, onTime>>

-----------------------------------------------------------------------------
(* main                                                                    *)

(* sigaction: until now SIGINT kills.                                      *)
Install ==
  /\ Goto("install", "listen")
  /\ UNCHANGED <<working, sigints, client, fds, held, thread, detached, onTime>>

Listen ==
  /\ Goto("listen", "check")
  /\ UNCHANGED <<working, sigints, client, fds, held, thread, detached, onTime>>

(* socket, setsockopt, bind or listen fails.                               *)
ListenFails ==
  /\ Goto("listen", "exited")
  /\ UNCHANGED <<working, sigints, client, fds, held, thread, detached, onTime>>

(* Mutant: while (1).                                                      *)
CheckForever ==
  /\ Goto("check", "accept")
  /\ UNCHANGED <<working, sigints, client, fds, held, thread, detached, onTime>>

Check ==
  /\ Goto("check", IF working THEN "accept" ELSE "close")
  /\ UNCHANGED <<working, sigints, client, fds, held, thread, detached, onTime>>

AcceptClient(c) ==
  /\ client[c] = "queued" /\ ~Full
  /\ Goto("accept", "decide")
  /\ client' = [client EXCEPT ![c] = "held"]
  /\ held' = c
  /\ onTime' = IF working THEN onTime \cup {c} ELSE onTime
  /\ UNCHANGED <<working, sigints, fds, thread, detached>>

(* Mutant: a failed accept is tried again.                                 *)
AcceptFailsOn ==
  /\ Goto("accept", "accept")
  /\ Full
  /\ UNCHANGED <<working, sigints, client, fds, held, thread, detached, onTime>>

(* The table is full, or the client has given up.                          *)
AcceptFails ==
  /\ Goto("accept", "close")
  /\ working' = FALSE
  /\ \/ Full /\ UNCHANGED client
     \/ \E c \in Clients : /\ client[c] = "queued"
                           /\ client' = [client EXCEPT ![c] = "closed"]
  /\ UNCHANGED <<sigints, fds, held, thread, detached, onTime>>

(* Mutant: the flag is not tested again.                                   *)
DecideBlind ==
  /\ Goto("decide", "create")
  /\ UNCHANGED <<working, sigints, client, fds, held, thread, detached, onTime>>

Decide ==
  \/ /\ working
     /\ Goto("decide", "create")
     /\ UNCHANGED <<working, sigints, client, fds, held, thread, detached, onTime>>
  \/ /\ ~working
     /\ Goto("decide", "close")
     /\ client' = [client EXCEPT ![held] = "closed"]
     /\ held' = NoThread
     /\ UNCHANGED <<working, sigints, fds, thread, detached, onTime>>

(* Mutant: the next client is waited for without a detach.                 *)
CreateHandlerKept ==
  /\ Goto("create", "check")
  /\ client' = [client EXCEPT ![held] = "served"]
  /\ thread' = held /\ held' = NoThread
  /\ UNCHANGED <<working, sigints, fds, detached, onTime>>

CreateHandler ==
  /\ Goto("create", "detach")
  /\ client' = [client EXCEPT ![held] = "served"]
  /\ thread' = held /\ held' = NoThread
  /\ UNCHANGED <<working, sigints, fds, detached, onTime>>

(* Nobody looks: the descriptor has no owner and thread keeps what it had. *)
CreateFails ==
  /\ Goto("create", "stale")
  /\ client' = [client EXCEPT ![held] = "leaked"]
  /\ held' = NoThread
  /\ UNCHANGED <<working, sigints, fds, thread, detached, onTime>>

Detach ==
  /\ Goto("detach", "check")
  /\ detached' = detached \cup {thread}
  /\ UNCHANGED <<working, sigints, client, fds, held, thread, onTime>>

(* pthread_detach of an id that was never set or whose thread is detached  *)
(* already, perhaps gone: an error nobody sees, or an invalid access.      *)
DetachStale ==
  /\ \/ Goto("stale", "check")
     \/ Goto("stale", "crashed")
  /\ UNCHANGED <<working, sigints, client, fds, held, thread, detached, onTime>>

(* close(server_socket), and the process ends.                             *)
Close ==
  /\ Goto("close", "exited")
  /\ UNCHANGED <<working, sigints, client, fds, held, thread, detached, onTime>>

Loop ==
  \/ Check \/ (\E c \in Clients : AcceptClient(c)) \/ AcceptFails \/ Decide
  \/ CreateHandler \/ CreateFails \/ Detach \/ DetachStale

Main == Install \/ Listen \/ ListenFails \/ Loop \/ Close

Next == Main \/ Sigint \/ \E c \in Clients : Connect(c) \/ Handler(c)

Spec == Init /\ [][Next]_vars /\ WF_vars(Main)

-----------------------------------------------------------------------------
(* Properties                                                              *)

TypeOK ==
  /\ pc \in {"install", "listen", "check", "accept", "decide", "create",
             "detach", "stale", "close", "exited", "crashed"}
  /\ working \in BOOLEAN /\ sigints \in 0 .. MaxSigints
  /\ client \in [Clients -> {"away", "queued", "held", "served", "leaked", "closed"}]
  /\ fds \in [Clients -> H!Descriptors]
  /\ held \in Clients \cup {NoThread} /\ thread \in Clients \cup {NoThread}
  /\ detached \in SUBSET Clients /\ onTime \in SUBSET Clients

(* Every descriptor of a client has one owner: main, between accept and    *)
(* the handler, or its handler.  The table is never exceeded, every        *)
(* handler main has gone on from is detached, and nothing but a failed     *)
(* pthread_create leaves a descriptor without an owner or lets main crash. *)
DescriptorsOwned ==
  /\ TypeOK
  /\ Used <= MaxFds
  /\ \A c \in Clients :
       /\ client[c] = "held" <=> held = c
       /\ client[c] # "served" => fds[c] = H!Fresh
       /\ client[c] = "served" =>
            c \in detached \/ (pc = "detach" /\ thread = c)
  /\ held # NoThread => pc \in {"decide", "create"}
  /\ pc \in {"stale", "crashed"} => \E c \in Clients : client[c] = "leaked"

(* A client that accept returned after SIGINT is turned away, so that at   *)
(* most one handler starts after the signal.                               *)
StopsServing ==
  \A c \in Clients : client[c] = "served" => c \in onTime

(* After SIGINT the server ends, even if it takes a queued client first,   *)
(* unless it is blocked in accept: the signal came between the test of the *)
(* flag and accept, or a handler took it.  Then one more client is needed. *)
SigintStops ==
  /\ (~working /\ pc # "accept") ~> Ended
  /\ (~working /\ \E c \in Clients : client[c] = "queued") ~> Ended

(* While the server works, every client in the queue is taken from it.     *)
QueueServed ==
  \A c \in Clients : client[c] = "queued" ~> client[c] # "queued" \/ ~working \/ Ended
=============================================================================

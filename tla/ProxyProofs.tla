---------------------------- MODULE ProxyProofs ----------------------------
(***************************************************************************)
(* Proxy for any number of clients, descriptors and signals: descriptors   *)
(* have one owner and fit into the table, nobody is served whom accept     *)
(* returned after SIGINT, and main does not come back to accept then.      *)
(* HttpHeaders for any buffer, stream and number of failed reads: where    *)
(* the headers end and which length they declare.                          *)
(***************************************************************************)
EXTENDS Proxy, HttpHeaders, FiniteSetTheorems, SequenceTheorems,
        WellFoundedInduction, TLAPS

-----------------------------------------------------------------------------
(* Who is served                                                           *)

(* What accept and the test behind it say about the client that main holds.*)
OnTimeInv ==
  /\ StopsServing
  /\ client \in [Clients -> {"away", "queued", "held", "served", "leaked", "closed"}]
  /\ pc = "decide" /\ working => held \in onTime
  /\ pc = "create" => held \in onTime

(* The flag only ever falls, so a client held while it is up came in time. *)
LEMMA OnTimeStep == OnTimeInv /\ [Next]_vars => OnTimeInv'
<1> SUFFICES ASSUME OnTimeInv, [Next]_vars PROVE OnTimeInv'
  OBVIOUS
<1> USE DEF OnTimeInv, StopsServing, Goto
<1>1. CASE Sigint
  BY <1>1 DEF Sigint
<1>2. CASE \E cl \in Clients : Connect(cl) \/ Handler(cl)
  BY <1>2 DEF Connect, Handler
<1>3. CASE Install \/ Listen \/ ListenFails \/ Close \/ Check
  BY <1>3 DEF Install, Listen, ListenFails, Close, Check
<1>4. CASE \E cl \in Clients : AcceptClient(cl)
  BY <1>4 DEF AcceptClient
<1>5. CASE AcceptFails
  BY <1>5 DEF AcceptFails
<1>6. CASE Decide
  BY <1>6 DEF Decide
<1>7. CASE CreateHandler
  BY <1>7 DEF CreateHandler
<1>8. CASE CreateFails
  BY <1>8 DEF CreateFails
<1>9. CASE Detach \/ DetachStale
  BY <1>9 DEF Detach, DetachStale
<1>10. CASE UNCHANGED vars
  BY <1>10 DEF vars
<1> QED BY <1>1, <1>2, <1>3, <1>4, <1>5, <1>6, <1>7, <1>8, <1>9, <1>10
        DEF Next, Main, Loop

(* A client that accept returned after SIGINT never gets a handler.        *)
THEOREM StopsServingHolds == Spec => []StopsServing
<1>1. Init => OnTimeInv
  BY DEF Init, OnTimeInv, StopsServing
<1>2. OnTimeInv => StopsServing
  BY DEF OnTimeInv
<1> QED BY <1>1, <1>2, OnTimeStep, PTL DEF Spec

-----------------------------------------------------------------------------
(* The end of the server                                                   *)

(* The steps main has left at most from a place, once the flag is down.    *)
LoopLeft(p) ==
  CASE p = "install" -> 7
    [] p = "listen" -> 6
    [] p = "accept" -> 6
    [] p = "decide" -> 5
    [] p = "create" -> 4
    [] p = "detach" -> 3
    [] p = "stale" -> 3
    [] p = "check" -> 2
    [] p = "close" -> 1
    [] OTHER -> 0

(* After SIGINT main never comes back to accept, so it cannot be made to   *)
(* wait for a client again, and each step it takes is one of at most seven *)
(* to its end.  With the fairness of the scheduler this is SigintStops.    *)
THEOREM SigintIsFinal ==
  Spec => /\ [](~working => []~working)
          /\ [](~working /\ pc # "accept" => [](pc # "accept"))
          /\ [][~working => \/ UNCHANGED pc /\ ~Main
                            \/ LoopLeft(pc') < LoopLeft(pc)]_vars
<1> USE DEF Goto
<1>1. ~working /\ [Next]_vars => (~working)'
  BY DEF Next, Main, Loop, Sigint, Connect, Handler, Install, Listen, ListenFails,
         Check, AcceptClient, AcceptFails, Decide, CreateHandler, CreateFails,
         Detach, DetachStale, Close, vars
<1>2. ~working /\ pc # "accept" /\ [Next]_vars => (pc # "accept")'
  BY DEF Next, Main, Loop, Sigint, Connect, Handler, Install, Listen, ListenFails,
         Check, AcceptClient, AcceptFails, Decide, CreateHandler, CreateFails,
         Detach, DetachStale, Close, vars
<1>3. ASSUME ~working, Next
      PROVE  (UNCHANGED pc /\ ~Main) \/ LoopLeft(pc') < LoopLeft(pc)
  <2>1. CASE Main
    <3>1. \/ pc = "install" /\ pc' = "listen"
          \/ pc = "listen" /\ pc' \in {"check", "exited"}
          \/ pc = "check" /\ pc' = "close"
          \/ pc = "accept" /\ pc' \in {"decide", "close"}
          \/ pc = "decide" /\ pc' = "close"
          \/ pc = "create" /\ pc' \in {"detach", "stale"}
          \/ pc = "detach" /\ pc' = "check"
          \/ pc = "stale" /\ pc' \in {"check", "crashed"}
          \/ pc = "close" /\ pc' = "exited"
      BY <1>3, <2>1
         DEF Main, Loop, Install, Listen, ListenFails, Check, AcceptClient,
             AcceptFails, Decide, CreateHandler, CreateFails, Detach, DetachStale,
             Close
    <3>2. LoopLeft(pc') < LoopLeft(pc)
      BY <3>1 DEF LoopLeft
    <3> QED BY <3>2
  <2>2. CASE ~Main
    <3>1. \/ UNCHANGED pc
          \/ pc = "install" /\ pc' = "exited"
          \/ pc = "accept" /\ pc' = "close"
      BY <1>3, <2>2 DEF Next, Sigint, Connect, Handler
    <3>2. CASE UNCHANGED pc
      BY <2>2, <3>2
    <3>3. CASE ~UNCHANGED pc
      BY <3>1, <3>3 DEF LoopLeft
    <3> QED BY <3>2, <3>3
  <2> QED BY <2>1, <2>2
<1>4. [Next]_vars => [~working => \/ UNCHANGED pc /\ ~Main
                                  \/ LoopLeft(pc') < LoopLeft(pc)]_vars
  BY <1>3
<1> QED BY <1>1, <1>2, <1>4, PTL DEF Spec

-----------------------------------------------------------------------------
(* Who owns a descriptor                                                   *)

(* DescriptorsOwned without the count, and what main holds at each place;  *)
(* before main listens nobody has connected.                               *)
OwnerInv ==
  /\ TypeOK
  /\ \A cl \in Clients :
       /\ client[cl] = "held" <=> held = cl
       /\ client[cl] # "served" => fds[cl] = H!Fresh
       /\ client[cl] = "served" =>
            cl \in detached \/ (pc = "detach" /\ thread = cl)
  /\ held # NoThread <=> pc \in {"decide", "create"}
  /\ pc = "detach" => thread # NoThread
  /\ pc \in {"stale", "crashed"} => \E cl \in Clients : client[cl] = "leaked"
  /\ pc \in {"install", "listen"} => \A cl \in Clients : client[cl] = "away"

(* At first there are no connections.                                      *)
LEMMA OwnerInit == Init => OwnerInv
BY ProxyAssumption DEF Init, OwnerInv, TypeOK, NoThread, H!Descriptors, H!Fresh

(* A connection goes from main to one handler, or is closed or leaked.     *)
LEMMA OwnerStep == OwnerInv /\ [Next]_vars => OwnerInv'
<1> SUFFICES ASSUME OwnerInv, [Next]_vars PROVE OwnerInv'
  OBVIOUS
<1> USE ProxyAssumption DEF OwnerInv, TypeOK, Goto
<1>1. CASE Sigint
  <2>1. sigints' \in 0 .. MaxSigints
    BY <1>1 DEF Sigint
  <2>2. pc' \in {pc, "exited", "close"} /\ working' \in BOOLEAN
    BY <1>1 DEF Sigint
  <2>3. UNCHANGED <<client, fds, held, thread, detached, onTime>>
    BY <1>1 DEF Sigint
  <2>4. pc' = pc \/ pc \in {"install", "accept"}
    BY <1>1 DEF Sigint
  <2> QED BY <2>1, <2>2, <2>3, <2>4
<1>2. CASE \E cl \in Clients : Connect(cl)
  BY <1>2 DEF Connect, Ended
<1>3. CASE \E cl \in Clients : Handler(cl)
  BY <1>3 DEF Handler, Ended
<1>4. CASE Install \/ Listen \/ ListenFails
  BY <1>4 DEF Install, Listen, ListenFails
<1>5. CASE Check \/ Close
  BY <1>5 DEF Check, Close
<1>6. CASE \E cl \in Clients : AcceptClient(cl)
  BY <1>6 DEF AcceptClient
<1>7. CASE AcceptFails
  BY <1>7 DEF AcceptFails
<1>8. CASE Decide
  BY <1>8 DEF Decide
<1>9. CASE CreateHandler
  BY <1>9 DEF CreateHandler
<1>10. CASE CreateFails
  BY <1>10 DEF CreateFails
<1>11. CASE Detach
  BY <1>11 DEF Detach
<1>12. CASE DetachStale
  BY <1>12 DEF DetachStale
<1>13. CASE UNCHANGED vars
  BY <1>13 DEF vars
<1> QED BY <1>1, <1>2, <1>3, <1>4, <1>5, <1>6, <1>7, <1>8, <1>9, <1>10, <1>11,
           <1>12, <1>13 DEF Next, Main, Loop

-----------------------------------------------------------------------------
(* How many descriptors there are                                          *)

(* The terms of Used.                                                      *)
Listening == IF pc \in {"install", "listen"} THEN 0 ELSE 1
Loose == {cl \in Clients : client[cl] \in {"held", "leaked"}}
Served == {cl \in Clients : client[cl] = "served" /\ fds[cl].client = "open"}
Hosts == {cl \in Clients : client[cl] = "served" /\ fds[cl].host = "open"}

(* Sets of clients are finite, and smaller sets have fewer members.        *)
LEMMA Smaller ==
  ASSUME NEW T \in SUBSET Clients, NEW S \in SUBSET T
  PROVE  /\ Cardinality(S) \in Nat /\ Cardinality(T) \in Nat
         /\ Cardinality(S) <= Cardinality(T)
<1>1. IsFiniteSet(T)
  BY ProxyAssumption, FS_Subset
<1>2. IsFiniteSet(S) /\ Cardinality(S) <= Cardinality(T)
  BY <1>1, FS_Subset
<1> QED BY <1>1, <1>2, FS_CardinalityType

(* A client more adds at most one.                                         *)
LEMMA OneMore ==
  ASSUME NEW T \in SUBSET Clients, NEW cl \in Clients
  PROVE  Cardinality(T \cup {cl}) \in {Cardinality(T), Cardinality(T) + 1}
BY ProxyAssumption, FS_Subset, FS_AddElement

(* A member less takes one away.                                           *)
LEMMA OneLess ==
  ASSUME NEW T \in SUBSET Clients, NEW cl \in T
  PROVE  Cardinality(T \ {cl}) = Cardinality(T) - 1
BY ProxyAssumption, FS_Subset, FS_RemoveElement

(* Used is a sum of naturals, in this state and in the next.               *)
LEMMA UsedSum ==
  /\ Used = Listening + Cardinality(Loose) + Cardinality(Served) + Cardinality(Hosts)
  /\ Used' = Listening' + Cardinality(Loose') + Cardinality(Served')
                        + Cardinality(Hosts')
  /\ {Cardinality(Loose), Cardinality(Served), Cardinality(Hosts)} \subseteq Nat
  /\ {Cardinality(Loose'), Cardinality(Served'), Cardinality(Hosts')} \subseteq Nat
  /\ {Listening, Listening'} \subseteq {0, 1}
<1>1. {Loose, Served, Hosts, Loose', Served', Hosts'} \subseteq SUBSET Clients
  BY DEF Loose, Served, Hosts
<1>2. \A T \in SUBSET Clients : Cardinality(T) \in Nat
  BY Smaller
<1> QED BY <1>1, <1>2 DEF Used, Listening, Loose, Served, Hosts

(* A step that takes no descriptor.                                        *)
LEMMA NoneTaken ==
  ASSUME Used <= MaxFds, Listening' = Listening,
         Loose' \subseteq Loose, Served' \subseteq Served, Hosts' \subseteq Hosts
  PROVE  Used' <= MaxFds
<1>1. {Loose, Served, Hosts} \subseteq SUBSET Clients
  BY DEF Loose, Served, Hosts
<1>2. /\ Cardinality(Loose') <= Cardinality(Loose)
      /\ Cardinality(Served') <= Cardinality(Served)
      /\ Cardinality(Hosts') <= Cardinality(Hosts)
  BY <1>1, Smaller
<1> QED BY <1>2, UsedSum, ProxyAssumption

(* The descriptor table holds what is open.                                *)
TableFits == Used <= MaxFds

(* Only accept and socket take a descriptor, and they fail when the table  *)
(* is full; a new handler takes over the one main held.                    *)
LEMMA UsedStep == OwnerInv /\ TableFits /\ [Next]_vars => TableFits'
<1> SUFFICES ASSUME OwnerInv, Used <= MaxFds, [Next]_vars PROVE Used' <= MaxFds
  BY DEF TableFits
<1> USE DEF OwnerInv, TypeOK, Goto
<1>1. CASE \E cl \in Clients : AcceptClient(cl)
  <2>1. PICK cl \in Clients : AcceptClient(cl)
    BY <1>1
  <2>2. /\ Loose' = Loose \cup {cl} /\ Served' = Served /\ Hosts' = Hosts
        /\ Listening' = Listening
    BY <2>1 DEF AcceptClient, Loose, Served, Hosts, Listening
  <2>3. Cardinality(Loose') <= Cardinality(Loose) + 1
    BY <2>2, OneMore, UsedSum DEF Loose
  <2> QED BY <2>1, <2>2, <2>3, UsedSum, ProxyAssumption DEF AcceptClient, Full
<1>2. CASE CreateHandler
  <2>1. held \in Clients /\ client[held] = "held" /\ fds[held] = H!Fresh
    BY <1>2 DEF CreateHandler
  <2>2. held \in Loose /\ Loose' = Loose \ {held}
    BY <1>2, <2>1 DEF CreateHandler, Loose
  <2>3. Served' = Served \cup {held} /\ Hosts' = Hosts
    BY <1>2, <2>1 DEF CreateHandler, Served, Hosts, H!Fresh
  <2>4. Listening' = Listening
    BY <1>2 DEF CreateHandler, Listening
  <2>5. /\ Cardinality(Loose') = Cardinality(Loose) - 1
        /\ Cardinality(Served') <= Cardinality(Served) + 1
    BY <2>1, <2>2, <2>3, OneLess, OneMore, UsedSum DEF Loose, Served
  <2> QED BY <2>3, <2>4, <2>5, UsedSum, ProxyAssumption
<1>3. CASE \E cl \in Clients : Handler(cl)
  <2>1. PICK cl \in Clients : Handler(cl)
    BY <1>3
  <2>2. PICK after \in H!Descriptors :
          /\ \/ H!OpensHost(fds[cl], after) /\ ~Full
             \/ H!ClosesHost(fds[cl], after)
             \/ H!ClosesClient(fds[cl], after)
          /\ fds' = [fds EXCEPT ![cl] = after]
    BY <2>1 DEF Handler
  <2>3. client[cl] = "served" /\ Loose' = Loose /\ Listening' = Listening
    BY <2>1 DEF Handler, Loose, Listening
  <2>4. CASE H!OpensHost(fds[cl], after) /\ ~Full
    <3>1. Served' = Served /\ Hosts' = Hosts \cup {cl}
      BY <2>1, <2>2, <2>3, <2>4
         DEF Handler, H!OpensHost, H!Fresh, H!Descriptors, Served, Hosts
    <3>2. Cardinality(Hosts') <= Cardinality(Hosts) + 1
      BY <3>1, OneMore, UsedSum DEF Hosts
    <3> QED BY <2>3, <2>4, <3>1, <3>2, UsedSum, ProxyAssumption DEF Full
  <2>5. CASE H!ClosesHost(fds[cl], after) \/ H!ClosesClient(fds[cl], after)
    <3>1. Served' \subseteq Served /\ Hosts' \subseteq Hosts
      BY <2>1, <2>2, <2>3, <2>5
         DEF Handler, H!ClosesHost, H!ClosesClient, H!Descriptors, Served, Hosts
    <3> QED BY <2>3, <3>1, NoneTaken
  <2> QED BY <2>2, <2>4, <2>5
<1>4. CASE Install \/ Listen \/ ListenFails \/ Sigint
  <2>1. UNCHANGED <<client, fds>>
    BY <1>4 DEF Install, Listen, ListenFails, Sigint
  <2>2. CASE Listening' = Listening
    BY <2>1, <2>2, NoneTaken DEF Loose, Served, Hosts
  <2>3. CASE Listening' # Listening
    <3>1. pc \in {"install", "listen"}
      BY <1>4, <2>3 DEF Install, Listen, ListenFails, Sigint, Listening, Ended
    <3>2. Loose' = {} /\ Served' = {} /\ Hosts' = {}
      BY <2>1, <3>1 DEF Loose, Served, Hosts
    <3> QED BY <3>2, FS_EmptySet, UsedSum, ProxyAssumption
  <2> QED BY <2>2, <2>3
<1>5. CASE Check \/ Close \/ Detach \/ DetachStale \/ UNCHANGED vars
  <2>1. UNCHANGED <<client, fds>> /\ Listening' = Listening
    BY <1>5 DEF Check, Close, Detach, DetachStale, vars, Listening
  <2> QED BY <2>1, NoneTaken DEF Loose, Served, Hosts
<1>6. CASE AcceptFails \/ Decide \/ CreateFails \/ \E cl \in Clients : Connect(cl)
  <2>1. Listening' = Listening
    BY <1>6 DEF AcceptFails, Decide, CreateFails, Connect, Listening
  <2>2. Loose' \subseteq Loose
    BY <1>6 DEF AcceptFails, Decide, CreateFails, Connect, Loose
  <2>3. Served' \subseteq Served /\ Hosts' \subseteq Hosts
    BY <1>6 DEF AcceptFails, Decide, CreateFails, Connect, Served, Hosts
  <2> QED BY <2>1, <2>2, <2>3, NoneTaken
<1> QED BY <1>1, <1>2, <1>3, <1>4, <1>5, <1>6 DEF Next, Main, Loop

(* Every client descriptor has exactly one owner, the table is never       *)
(* exceeded, and only a failed pthread_create leaks or lets main crash.    *)
THEOREM DescriptorsOwnedHolds == Spec => []DescriptorsOwned
<1>1. Init => TableFits
  <2> SUFFICES ASSUME Init PROVE Used <= MaxFds
    BY DEF TableFits
  <2>1. Listening = 0 /\ Loose = {} /\ Served = {} /\ Hosts = {}
    BY DEF Init, Listening, Loose, Served, Hosts
  <2> QED BY <2>1, FS_EmptySet, UsedSum, ProxyAssumption
<1>2. OwnerInv /\ TableFits => DescriptorsOwned
  BY DEF OwnerInv, TableFits, DescriptorsOwned
<1> QED BY <1>1, <1>2, OwnerInit, OwnerStep, UsedStep, PTL DEF Spec

-----------------------------------------------------------------------------
(***************************************************************************)
(* http_read_headers.  EndsAtTerminator is not inductive: the state of the *)
(* automaton has to be tied to the last symbols of the buffer, in both     *)
(* directions, and to the last symbols of the stream.                      *)
(***************************************************************************)

(* What state q says of the end of s.                                      *)
Seen(s, q) ==
  /\ q = 1 => Len(s) >= 1 /\ s[Len(s)] = "CR"
  /\ q = 2 => Crlf(s, Len(s) - 1)
  /\ q = 3 => Crlf(s, Len(s) - 2) /\ s[Len(s)] = "CR"

(* Nothing lies before the first n symbols but, perhaps, no CR.            *)
Fresh(s, n) == Len(s) = n \/ (Len(s) > n /\ s[Len(s) - n] # "CR")

(* Which ends of s, with no CR in front, lead to which state.              *)
Missed(s, q) ==
  /\ Len(s) >= 1 /\ s[Len(s)] = "CR" /\ Fresh(s, 1) => q \in {1, 3}
  /\ Crlf(s, Len(s) - 1) /\ Fresh(s, 2) => q = 2
  /\ Crlf(s, Len(s) - 2) /\ s[Len(s)] = "CR" /\ Fresh(s, 3) => q = 3

(* The last symbol of s is the byte in c.                                  *)
LastIsC(s) ==
  Len(s) > 0 => s[Len(s)] = c \/ (s[Len(s)] = "KEY" /\ c = "X")

(* After a first read that failed, and stored a CR by chance.              *)
Chance(q) ==
  /\ failures > 0
  /\ \/ q = 1 /\ sent = <<>>
     \/ q = 2 /\ sent = <<"LF">>
     \/ q = 3 /\ sent = <<"LF", "CR">>

(* The inductive invariant: buffer and stream end as the state says.       *)
StreamInv ==
  /\ EndsAtTerminator
  /\ LastIsC(buf) /\ LastIsC(sent)
  /\ result # "terminated" =>
       Seen(buf, state) /\ Missed(buf, state) /\ (Seen(sent, state) \/ Chance(state))

(* What is known of a sequence with one more symbol.                       *)
LEMMA Appended ==
  ASSUME NEW s \in Seq(Symbols), NEW b \in Symbols
  PROVE  /\ Append(s, b) \in Seq(Symbols)
         /\ Len(s) \in Nat /\ Len(Append(s, b)) = Len(s) + 1
         /\ Append(s, b)[Len(s) + 1] = b
         /\ \A k \in 1 .. Len(s) : Append(s, b)[k] = s[k]
OBVIOUS

(* What makes them not fresh.                                              *)
LEMMA FreshOrNot ==
  ASSUME NEW s \in Seq(Symbols), NEW k \in Nat, Len(s) >= k
  PROVE  Fresh(s, k) \/ (Len(s) > k /\ s[Len(s) - k] = "CR")
BY DEF Fresh

(* What lies before the end moves by one.                                  *)
LEMMA FreshAppended ==
  ASSUME NEW s \in Seq(Symbols), NEW b \in Symbols, NEW j \in Nat, NEW k \in Nat,
         j = k + 1, k <= Len(s), Fresh(Append(s, b), j)
  PROVE  Fresh(s, k)
<1> DEFINE x == Append(s, b)  n == Len(s)
<1>1. n \in Nat /\ Len(x) = n + 1 /\ \A m \in 1 .. n : x[m] = s[m]
  BY Appended
<1>2. Fresh(x, j)
  OBVIOUS
<1> HIDE DEF x
<1>3. CASE n = k
  BY <1>3 DEF Fresh
<1>4. CASE n > k
  <2>1. Len(x) - j = n - k /\ n - k \in 1 .. n
    BY <1>1, <1>4
  <2>2. x[Len(x) - j] # "CR"
    BY <1>1, <1>2, <1>4 DEF Fresh
  <2>3. s[n - k] # "CR"
    BY <1>1, <2>1, <2>2
  <2> QED BY <1>4, <2>3 DEF Fresh
<1> QED BY <1>1, <1>3, <1>4

(* One step of the automaton keeps the relation of its state to the end of *)
(* what it has read.                                                       *)
LEMMA FollowSees ==
  ASSUME NEW s \in Seq(Symbols), NEW b \in Symbols, NEW q \in 0 .. 3,
         Seen(s, q), ~(q = 3 /\ b = "LF")
  PROVE  Seen(Append(s, b), Follow(q, b))
BY Appended DEF Seen, Crlf, Follow

(* ... and it misses no line end but one with a CR in front.               *)
LEMMA FollowMissesNone ==
  ASSUME NEW s \in Seq(Symbols), NEW b \in Symbols, NEW q \in 0 .. 3,
         Seen(s, q), Missed(s, q), ~(q = 3 /\ b = "LF")
  PROVE  Missed(Append(s, b), Follow(q, b))
<1> DEFINE x == Append(s, b)  n == Len(s)
<1>1. /\ n \in Nat /\ Len(x) = n + 1 /\ x[n + 1] = b
      /\ \A k \in 1 .. n : x[k] = s[k]
  BY Appended
<1> HIDE DEF x
<1> USE <1>1 DEF Crlf, Follow
<1>2. b = "CR" /\ Fresh(x, 1) => Follow(q, b) \in {1, 3}
  <2> SUFFICES ASSUME b = "CR", Fresh(x, 1) PROVE Follow(q, b) \in {1, 3}
    OBVIOUS
  <2>1. q # 1 /\ q # 3
    BY DEF Seen, Fresh
  <2> QED BY <2>1
<1>3. Crlf(x, n) /\ Fresh(x, 2) => Follow(q, b) = 2
  <2> SUFFICES ASSUME Crlf(x, n), Fresh(x, 2) PROVE Follow(q, b) = 2
    OBVIOUS
  <2>1. b = "LF" /\ n >= 1 /\ s[n] = "CR"
    OBVIOUS
  <2>2. Fresh(s, 1)
    BY <2>1, FreshAppended, Fresh(x, 2) DEF x
  <2>3. q = 1
    BY <2>1, <2>2 DEF Missed
  <2> QED BY <2>1, <2>3
<1>4. Crlf(x, n - 1) /\ b = "CR" /\ Fresh(x, 3) => Follow(q, b) = 3
  <2> SUFFICES ASSUME Crlf(x, n - 1), b = "CR", Fresh(x, 3) PROVE Follow(q, b) = 3
    OBVIOUS
  <2>1. Crlf(s, n - 1)
    OBVIOUS
  <2>2. Fresh(s, 2)
    BY <2>1, FreshAppended, Fresh(x, 3) DEF x
  <2>3. q = 2
    BY <2>1, <2>2 DEF Missed
  <2> QED BY <2>3
<1>5. Missed(x, Follow(q, b))
  BY <1>2, <1>3, <1>4 DEF Missed
<1> QED BY <1>5 DEF x

(* CR LF CR and LF are a blank line.                                       *)
LEMMA BlankAppended ==
  ASSUME NEW s \in Seq(Symbols), Seen(s, 3)
  PROVE  Blank(Append(s, "LF"), Len(s) + 1)
<1> DEFINE x == Append(s, "LF")  n == Len(s)
<1>1. /\ n \in Nat /\ Len(x) = n + 1 /\ x[n + 1] = "LF"
      /\ \A k \in 1 .. n : x[k] = s[k]
  BY Appended DEF Symbols
<1> HIDE DEF x
<1>2. Blank(x, n + 1)
  BY <1>1 DEF Seen, Crlf, Blank
<1> QED BY <1>2 DEF x

(* It stops exactly at a blank line, but for one it missed.                *)
LEMMA StopsAtBlank ==
  ASSUME NEW s \in Seq(Symbols), NEW b \in Symbols, NEW q \in 0 .. 3,
         Seen(s, q), Missed(s, q)
  PROVE  /\ q = 3 /\ b = "LF" => Blank(Append(s, b), Len(s) + 1)
         /\ Blank(Append(s, b), Len(s) + 1) =>
              \/ q = 3 /\ b = "LF"
              \/ Len(s) > 3 /\ Append(s, b)[Len(s) - 3] = "CR"
<1> DEFINE x == Append(s, b)  n == Len(s)
<1>1. /\ n \in Nat /\ Len(x) = n + 1 /\ x[n + 1] = b
      /\ \A k \in 1 .. n : x[k] = s[k]
  BY Appended
<1> HIDE DEF x
<1>2. q = 3 /\ b = "LF" => Blank(x, n + 1)
  BY BlankAppended DEF x
<1>3. Blank(x, n + 1) => (q = 3 /\ b = "LF") \/ (n > 3 /\ x[n - 3] = "CR")
  <2> SUFFICES ASSUME Blank(x, n + 1)
               PROVE  (q = 3 /\ b = "LF") \/ (n > 3 /\ x[n - 3] = "CR")
    OBVIOUS
  <2>1. b = "LF" /\ n >= 3 /\ Crlf(s, n - 2) /\ s[n] = "CR"
    BY <1>1 DEF Crlf, Blank
  <2>2. CASE Fresh(s, 3)
    BY <2>1, <2>2 DEF Missed
  <2>3. CASE n > 3 /\ s[n - 3] = "CR"
    BY <1>1, <2>3
  <2> QED BY <2>1, <2>2, <2>3, FreshOrNot
<1> QED BY <1>2, <1>3 DEF x

(* The streams of Chance as they grow.                                     *)
LEMMA Chances ==
  /\ Append(<<>>, "LF") = <<"LF">>
  /\ Append(<<"LF">>, "CR") = <<"LF", "CR">>
  /\ Append(<<"LF", "CR">>, "LF") = <<"LF", "CR", "LF">>
<1>1. /\ <<>> \in Seq(Symbols) /\ <<"LF">> \in Seq(Symbols)
      /\ <<"LF", "CR">> \in Seq(Symbols) /\ <<"LF", "CR", "LF">> \in Seq(Symbols)
      /\ "LF" \in Symbols /\ "CR" \in Symbols
  BY DEF Symbols
<1>2. Append(<<>>, "LF") = <<"LF">>
  BY <1>1, Appended, SeqEqual
<1>3. Append(<<"LF">>, "CR") = <<"LF", "CR">>
  <2> DEFINE x == Append(<<"LF">>, "CR")
  <2>1. x \in Seq(Symbols) /\ Len(x) = 2 /\ x[1] = "LF" /\ x[2] = "CR"
    BY <1>1, Appended
  <2> HIDE DEF x
  <2>2. x = <<"LF", "CR">>
    BY <1>1, <2>1, SeqEqual
  <2> QED BY <2>2 DEF x
<1>4. Append(<<"LF", "CR">>, "LF") = <<"LF", "CR", "LF">>
  <2> DEFINE x == Append(<<"LF", "CR">>, "LF")
  <2>1. x \in Seq(Symbols) /\ Len(x) = 3 /\ x[1] = "LF" /\ x[2] = "CR" /\ x[3] = "LF"
    BY <1>1, Appended
  <2> HIDE DEF x
  <2>2. x = <<"LF", "CR", "LF">>
    BY <1>1, <2>1, SeqEqual
  <2> QED BY <2>2 DEF x
<1> QED BY <1>2, <1>3, <1>4

(* At first nothing has been read.                                         *)
LEMMA StreamInit == HeadersInit => StreamInv
<1> SUFFICES ASSUME HeadersInit PROVE StreamInv
  OBVIOUS
<1> USE HttpAssumption DEF HeadersInit
<1>1. Len(buf) = 0 /\ Len(sent) = 0 /\ HeadersTypeOK
  BY DEF HeadersTypeOK, Symbols
<1>2. EndsAtTerminator
  BY <1>1 DEF EndsAtTerminator, TerminatorWasSent, TerminatorFound
<1>3. LastIsC(buf) /\ LastIsC(sent)
  BY <1>1 DEF LastIsC
<1>4. Seen(buf, state) /\ Seen(sent, state) /\ Missed(buf, state)
  BY <1>1 DEF Seen, Missed, Crlf
<1> QED BY <1>2, <1>3, <1>4 DEF StreamInv

(* The byte stored, from the peer or once more: the buffer and the result. *)
LEMMA StoreKeeps ==
  ASSUME StreamInv, Room, NEW b \in Symbols, Store(b)
  PROVE  /\ buf' \in Seq(Symbols) /\ Len(buf') = Len(buf) + 1 /\ Len(buf') < MaxLen
         /\ state' \in 0 .. 3 /\ result' \in {"reading", "terminated"}
         /\ TerminatorFound'
         /\ result' = "terminated" => state = 3 /\ b = "LF" /\ Blank(buf', Len(buf'))
         /\ result' # "terminated" =>
              /\ ~(state = 3 /\ b = "LF") /\ state' = Follow(state, b)
              /\ Seen(buf', state') /\ Missed(buf', state')
<1>1. /\ HeadersTypeOK /\ TerminatorFound /\ result = "reading"
      /\ Seen(buf, state) /\ Missed(buf, state) /\ Len(buf) < MaxLen - 1
  BY DEF StreamInv, EndsAtTerminator, TerminatorWasSent, Room
<1>2. buf \in Seq(Symbols) /\ state \in 0 .. 3 /\ MaxLen \in Nat
  BY <1>1, HttpAssumption DEF HeadersTypeOK
<1>3. /\ buf' = Append(buf, b) /\ buf' \in Seq(Symbols)
      /\ Len(buf) \in Nat /\ Len(buf') = Len(buf) + 1
      /\ buf'[Len(buf) + 1] = b /\ \A k \in 1 .. Len(buf) : buf'[k] = buf[k]
  BY <1>2, Appended DEF Store
<1>4. Follow(state, b) \in 0 .. 3
  BY DEF Follow
<1>5. CASE state = 3 /\ b = "LF"
  <2>1. result' = "terminated" /\ state' = state
    BY <1>5 DEF Store
  <2>2. Blank(buf', Len(buf'))
    BY <1>1, <1>2, <1>3, <1>5, StopsAtBlank
  <2>3. TerminatorFound'
    <3> SUFFICES ASSUME NEW k \in 1 .. Len(buf'), Blank(buf', k), k # Len(buf')
                 PROVE  k > 4 /\ buf'[k - 4] = "CR"
      BY <2>1 DEF TerminatorFound
    <3>1. k \in 1 .. Len(buf)
      BY <1>3
    <3>2. Blank(buf, k)
      BY <1>3, <3>1 DEF Blank, Crlf
    <3> QED BY <1>1, <1>3, <3>1, <3>2 DEF TerminatorFound
  <2> QED BY <1>1, <1>2, <1>3, <1>5, <2>1, <2>2, <2>3
<1>6. CASE ~(state = 3 /\ b = "LF")
  <2>1. result' = "reading" /\ state' = Follow(state, b)
    BY <1>6 DEF Store
  <2>2. Seen(buf', state') /\ Missed(buf', state')
    BY <1>1, <1>2, <1>3, <1>6, <2>1, FollowSees, FollowMissesNone
  <2>3. TerminatorFound'
    <3> SUFFICES ASSUME NEW k \in 1 .. Len(buf'), Blank(buf', k)
                 PROVE  k > 4 /\ buf'[k - 4] = "CR"
      BY DEF TerminatorFound
    <3>1. CASE k = Len(buf) + 1
      BY <1>1, <1>2, <1>3, <1>6, <3>1, StopsAtBlank
    <3>2. CASE k \in 1 .. Len(buf)
      <4>1. Blank(buf, k)
        BY <1>3, <3>2 DEF Blank, Crlf
      <4> QED BY <1>1, <1>3, <3>2, <4>1 DEF TerminatorFound
    <3> QED BY <1>3, <3>1, <3>2
  <2> QED BY <1>1, <1>2, <1>3, <1>4, <1>6, <2>1, <2>2, <2>3
<1> QED BY <1>5, <1>6

(* A byte that arrives does to the end of the stream what it does to the   *)
(* end of the buffer.                                                      *)
LEMMA ReadByteKeeps ==
  ASSUME StreamInv, NEW b \in Symbols, ReadByte(b)
  PROVE  StreamInv'
<1>1. /\ HeadersTypeOK /\ Room /\ Store(b) /\ failures' = failures
      /\ sent' = Append(sent, b) /\ c' = IF b = "KEY" THEN "X" ELSE b
      /\ Len(buf) = Len(sent) + failures
      /\ Seen(sent, state) \/ Chance(state)
  BY DEF StreamInv, EndsAtTerminator, TerminatorWasSent, ReadByte, Room
<1>2. /\ buf \in Seq(Symbols) /\ sent \in Seq(Symbols) /\ failures \in Nat
      /\ failures \in 0 .. MaxFailures /\ state \in 0 .. 3
  BY <1>1, HttpAssumption DEF HeadersTypeOK
<1>3. /\ sent' \in Seq(Symbols) /\ Len(sent) \in Nat /\ Len(sent') = Len(sent) + 1
      /\ sent'[Len(sent) + 1] = b /\ \A k \in 1 .. Len(sent) : sent'[k] = sent[k]
  BY <1>1, <1>2, Appended
<1>4. buf'[Len(buf')] = b
  BY <1>1, <1>2, Appended DEF Store
<1>5. c' \in Symbols \ {"KEY"}
  BY <1>1 DEF Symbols
<1>6. HeadersTypeOK' /\ Len(buf') = Len(sent') + failures' /\ Len(buf') < MaxLen
      /\ TerminatorFound'
  BY <1>1, <1>2, <1>3, <1>5, StoreKeeps DEF HeadersTypeOK
<1>7. LastIsC(buf)' /\ LastIsC(sent)'
  BY <1>1, <1>3, <1>4 DEF LastIsC
<1>8. CASE result' = "terminated"
  <2>1. state = 3 /\ b = "LF" /\ Blank(buf', Len(buf'))
    BY <1>1, <1>8, StoreKeeps
  <2>2. CASE Seen(sent, 3)
    <3>1. Blank(sent', Len(sent'))
      BY <1>1, <1>2, <1>3, <2>1, <2>2, BlankAppended
    <3> QED BY <1>6, <1>7, <1>8, <2>1, <3>1
            DEF StreamInv, EndsAtTerminator, TerminatorWasSent
  <2>3. CASE Chance(3)
    <3>1. failures' > 0 /\ sent' = <<"LF", "CR", "LF">>
      <4>1. sent = <<"LF", "CR">> /\ failures > 0
        BY <2>3 DEF Chance
      <4>2. sent' = Append(<<"LF", "CR">>, "LF") /\ failures' = failures
        BY <1>1, <2>1, <4>1, Zenon
      <4> QED BY <4>1, <4>2, Chances, Zenon
    <3> QED BY <1>6, <1>7, <1>8, <2>1, <3>1
            DEF StreamInv, EndsAtTerminator, TerminatorWasSent
  <2> QED BY <1>1, <2>1, <2>2, <2>3
<1>9. CASE result' # "terminated"
  <2>1. /\ ~(state = 3 /\ b = "LF") /\ state' = Follow(state, b)
        /\ Seen(buf', state') /\ Missed(buf', state')
    BY <1>1, <1>9, StoreKeeps
  <2>2. CASE Seen(sent, state)
    BY <1>1, <1>2, <1>6, <1>7, <1>9, <2>1, <2>2, FollowSees
       DEF StreamInv, EndsAtTerminator, TerminatorWasSent
  <2>3. CASE Chance(state)
    <3>1. Chance(state)' \/ Seen(sent', state')
      <4>1. state' = 0 \/ (state = 1 /\ b = "LF") \/ (state = 2 /\ b = "CR")
        BY <1>2, <2>1, <2>3 DEF Follow, Chance
      <4>2. CASE state' = 0
        BY <4>2 DEF Seen
      <4>3. CASE state = 1 /\ b = "LF"
        <5>1. state' = 2 /\ sent = <<>> /\ failures > 0
          BY <2>1, <2>3, <4>3 DEF Chance, Follow
        <5>2. sent' = <<"LF">>
          BY <1>1, <4>3, <5>1, Chances, Zenon
        <5> QED BY <1>1, <5>1, <5>2 DEF Chance
      <4>4. CASE state = 2 /\ b = "CR"
        <5>1. state' = 3 /\ sent = <<"LF">> /\ failures > 0
          BY <2>1, <2>3, <4>4 DEF Chance, Follow
        <5>2. sent' = <<"LF", "CR">>
          BY <1>1, <4>4, <5>1, Chances, Zenon
        <5> QED BY <1>1, <5>1, <5>2 DEF Chance
      <4> QED BY <4>1, <4>2, <4>3, <4>4
    <3> QED BY <1>6, <1>7, <1>9, <2>1, <3>1
            DEF StreamInv, EndsAtTerminator, TerminatorWasSent
  <2> QED BY <1>1, <2>2, <2>3
<1> QED BY <1>8, <1>9

(* A failed read can do no more than begin a line end: the byte it repeats *)
(* is the last of the buffer, and no state follows itself.                 *)
LEMMA ReadFailsKeeps ==
  ASSUME StreamInv, ReadFails
  PROVE  StreamInv'
<1>1. /\ HeadersTypeOK /\ Room /\ Store(c) /\ failures' = failures + 1
      /\ sent' = sent /\ c' = c /\ failures < MaxFailures
      /\ Len(buf) = Len(sent) + failures
      /\ Seen(buf, state) /\ LastIsC(buf) /\ LastIsC(sent)
  BY DEF StreamInv, EndsAtTerminator, TerminatorWasSent, ReadFails, Room
<1>2. /\ buf \in Seq(Symbols) /\ sent \in Seq(Symbols) /\ failures \in Nat
      /\ state \in 0 .. 3 /\ c \in Symbols /\ MaxFailures \in Nat
      /\ Len(sent) \in Nat /\ Len(buf) \in Nat
  BY <1>1, HttpAssumption DEF HeadersTypeOK
<1>3. buf'[Len(buf')] = c
  BY <1>1, <1>2, Appended DEF Store
<1>4. /\ state \in {1, 3} => c = "CR"
      /\ state = 2 => c = "LF"
  BY <1>1, <1>2 DEF Seen, Crlf, LastIsC
<1>5. result' # "terminated"
  BY <1>1, <1>2, <1>4, StoreKeeps
<1>6. /\ state' = Follow(state, c) /\ Seen(buf', state') /\ Missed(buf', state')
      /\ HeadersTypeOK' /\ Len(buf') = Len(sent') + failures' /\ Len(buf') < MaxLen
      /\ TerminatorFound'
  BY <1>1, <1>2, <1>5, StoreKeeps DEF HeadersTypeOK
<1>7. LastIsC(buf)' /\ LastIsC(sent)'
  BY <1>1, <1>3 DEF LastIsC
<1>8. state' = 0 \/ (state' = 1 /\ c = "CR")
  BY <1>2, <1>4, <1>6 DEF Follow
<1>9. Seen(sent', state') \/ Chance(state)'
  <2>1. CASE Len(sent) = 0
    <3>1. sent' = <<>> /\ failures' > 0
      BY <1>1, <1>2, <2>1
    <3> QED BY <1>8, <3>1 DEF Seen, Chance
  <2>2. CASE Len(sent) > 0
    BY <1>1, <1>2, <1>8, <2>2 DEF Seen, LastIsC
  <2> QED BY <1>2, <2>1, <2>2
<1> QED BY <1>5, <1>6, <1>7, <1>9 DEF StreamInv, EndsAtTerminator, TerminatorWasSent

(* The read loop ends only where the peer has ended its headers, but for   *)
(* the exceptions named, and it ends at the first such place.              *)
THEOREM EndsAtTerminatorHolds == HeadersSpec => []EndsAtTerminator
<1>1. StreamInv /\ [HeadersNext]_headersVars => StreamInv'
  <2> SUFFICES ASSUME StreamInv, [HeadersNext]_headersVars PROVE StreamInv'
    OBVIOUS
  <2>1. CASE UNCHANGED <<sent, buf, c, state, failures>> /\ result # "terminated"
                /\ result' \in {"reading", "closed", "full"}
    <3>1. HeadersTypeOK' /\ LastIsC(buf)' /\ LastIsC(sent)' /\ TerminatorWasSent'
      BY <2>1 DEF StreamInv, EndsAtTerminator, TerminatorWasSent, HeadersTypeOK, LastIsC
    <3>2. TerminatorFound'
      BY <2>1 DEF StreamInv, EndsAtTerminator, TerminatorFound
    <3>3. Chance(state) => Chance(state)'
      BY <2>1 DEF Chance
    <3> QED BY <2>1, <3>1, <3>2, <3>3 DEF StreamInv, EndsAtTerminator
  <2>2. CASE UNCHANGED headersVars
    <3>1. HeadersTypeOK' /\ LastIsC(buf)' /\ LastIsC(sent)' /\ TerminatorWasSent'
      BY <2>2 DEF headersVars, StreamInv, EndsAtTerminator, TerminatorWasSent,
                  HeadersTypeOK, LastIsC
    <3>2. TerminatorFound'
      BY <2>2 DEF headersVars, StreamInv, EndsAtTerminator, TerminatorFound
    <3>3. Chance(state) => Chance(state)'
      BY <2>2 DEF headersVars, Chance
    <3> QED BY <2>2, <3>1, <3>2, <3>3 DEF headersVars, StreamInv, EndsAtTerminator
  <2>3. CASE ReadEof \/ BufferFull
    BY <2>1, <2>3 DEF ReadEof, BufferFull, Room
  <2> QED BY <2>2, <2>3, ReadByteKeeps, ReadFailsKeeps DEF HeadersNext
<1>2. StreamInv => EndsAtTerminator
  BY DEF StreamInv
<1> QED BY StreamInit, <1>1, <1>2, PTL DEF HeadersSpec

-----------------------------------------------------------------------------
(* http_get_content_length.                                                *)

(* Min is what its name says.                                              *)
LEMMA MinIsLeast ==
  ASSUME NEW S \in SUBSET Nat, S # {}
  PROVE  Min(S) \in S /\ \A y \in S : Min(S) <= y
<1>1. PICK m \in S : \A y \in S : ~(<<y, m>> \in OpToRel(<, Nat))
  BY WFMin, NatLessThanWellFounded, Zenon
<1>2. \A y \in S : ~(y < m)
  BY <1>1, Zenon DEF OpToRel
<1>3. \A y \in S : m <= y
  BY <1>2
<1> QED BY <1>3 DEF Min

(* A line end lies behind the start of the line, at a CR LF.               *)
LEMMA LineEndIsCrlf ==
  ASSUME NEW s \in Seq(Symbols), NEW p \in 1 .. Len(s), LineEnd(s, p) # 0
  PROVE  LineEnd(s, p) \in p .. Len(s) /\ Crlf(s, LineEnd(s, p))
<1> DEFINE ends == {e \in p .. Len(s) : Crlf(s, e)}
<1>1. ends # {} /\ LineEnd(s, p) = Min(ends)
  BY DEF LineEnd
<1>2. ends \in SUBSET Nat
  OBVIOUS
<1>3. Min(ends) \in ends
  BY <1>1, <1>2, MinIsLeast
<1> QED BY <1>1, <1>3

(* The lines the code takes for the field are those that have one.         *)
LEMMA LengthLines ==
  ASSUME NEW s \in Seq(Symbols), NEW p \in LineStarts(s)
  PROVE  IsLengthLine(s, p) <=>
           s[p] = "KEY" /\ LineEnd(s, p) # 0 /\ LineEnd(s, p) # p + 1
<1>1. p \in 1 .. Len(s)
  BY DEF LineStarts
<1>2. ASSUME s[p] = "KEY", LineEnd(s, p) # 0
      PROVE  LineEnd(s, p) > p
  <2>1. LineEnd(s, p) \in p .. Len(s) /\ s[LineEnd(s, p)] = "CR"
    BY <1>1, <1>2, LineEndIsCrlf DEF Crlf
  <2> QED BY <1>1, <1>2, <2>1
<1>3. LineEnd(s, p) # 0 => LineEnd(s, p) \in Nat
  BY <1>1, LineEndIsCrlf
<1> QED BY <1>1, <1>2, <1>3 DEF IsLengthLine

(* The number that strtoull finds behind the key.                          *)
LEMMA NumberIsDeclared ==
  ASSUME NEW s \in Seq(Symbols), NEW p \in 1 .. Len(s), LineEnd(s, p) > p + 1,
         LineEnd(s, p) # 0
  PROVE  \/ Number(s, p + 1) = Declared(s, p)
         \/ \E e \in p + 1 .. LineEnd(s, p) :
              /\ s[e] \in {"CR", "LF"}
              /\ \A m \in p + 1 .. e - 1 : s[m] = "SP"
<1> DEFINE v == p + 1
           stop == LineEnd(s, p)
           others == {k \in v .. Len(s) : s[k] # "SP"}
           f == Min(others)
<1>1. stop \in v + 1 .. Len(s) /\ s[stop] = "CR" /\ v \in Nat /\ Len(s) \in Nat
  BY LineEndIsCrlf DEF Crlf
<1>2. /\ f \in v .. stop /\ f \in Nat /\ s[f] # "SP"
      /\ \A m \in v .. f - 1 : s[m] = "SP"
      /\ \A k \in others : f <= k
  <2>1. stop \in others /\ others \in SUBSET Nat
    BY <1>1
  <2>2. f \in others /\ \A k \in others : f <= k
    BY <2>1, MinIsLeast
  <2> HIDE DEF f
  <2>3. f \in v .. stop /\ s[f] # "SP" /\ f \in Nat
    BY <1>1, <2>1, <2>2
  <2>4. ASSUME NEW m \in v .. f - 1 PROVE s[m] = "SP"
    <3>1. m \in v .. Len(s) /\ ~(f <= m)
      BY <1>1, <2>3
    <3> QED BY <2>2, <3>1
  <2> QED BY <2>2, <2>3, <2>4
<1> HIDE DEF f
<1>3. CASE s[f] \in {"CR", "LF"}
  BY <1>2, <1>3
<1>4. CASE s[f] \notin {"CR", "LF"}
  <2> DEFINE solid == {k \in v .. Len(s) : s[k] \notin {"SP", "CR", "LF"}}
  <2>1. solid # {} /\ Min(solid) = f
    <3>1. f \in solid /\ solid \in SUBSET Nat /\ solid \in SUBSET others
      BY <1>1, <1>2, <1>4
    <3>2. Min(solid) \in solid /\ Min(solid) <= f
      BY <3>1, MinIsLeast
    <3>3. f <= Min(solid) /\ Min(solid) \in Nat
      BY <1>2, <3>1, <3>2
    <3> QED BY <1>2, <3>1, <3>2, <3>3
  <2>2. Number(s, v) = {k \in v .. Len(s) : k >= f /\ \A m \in f .. k : s[m] = "DIGIT"}
    BY <2>1, Zenon DEF Number
  <2>3. ASSUME NEW k \in v .. Len(s), k >= f, \A m \in f .. k : s[m] = "DIGIT"
        PROVE  k \in Declared(s, p)
    <3>1. k < stop
      BY <1>1, <1>2, <2>3
    <3>2. f \in v .. k /\ k \in v .. stop - 1
      BY <1>1, <1>2, <2>3, <3>1
    <3> QED BY <1>2, <2>3, <3>2 DEF Declared
  <2>4. ASSUME NEW k \in Declared(s, p)
        PROVE  k \in v .. Len(s) /\ k >= f /\ \A m \in f .. k : s[m] = "DIGIT"
    <3>1. k \in v .. stop - 1
      BY DEF Declared
    <3>2. PICK d \in v .. k : /\ \A m \in v .. d - 1 : s[m] = "SP"
                             /\ \A m \in d .. k : s[m] = "DIGIT"
      BY DEF Declared
    <3>3. d \in others
      BY <1>1, <3>1, <3>2
    <3>4. f <= d
      BY <1>2, <3>3
    <3>5. ~(f < d)
      BY <1>1, <1>2, <3>1, <3>2
    <3>6. f = d
      BY <1>2, <3>2, <3>4, <3>5
    <3> QED BY <1>1, <3>1, <3>2, <3>6
  <2>5. Number(s, v) = Declared(s, p)
    BY <2>2, <2>3, <2>4
  <2> QED BY <2>5
<1> QED BY <1>3, <1>4

(* Whatever the buffer holds when reading ends, the length is taken from   *)
(* the first line that declares one, but for the exception named.          *)
THEOREM LengthFromItsLineHolds == HeadersSpec => []LengthFromItsLine
<1>1. EndsAtTerminator => LengthFromItsLine
  <2> SUFFICES ASSUME buf \in Seq(Symbols) PROVE LengthFromItsLine
    BY DEF EndsAtTerminator, TerminatorWasSent, HeadersTypeOK
  <2> DEFINE lines == {p \in LineStarts(buf) : buf[p] = "KEY" /\ LineEnd(buf, p) # 0
                                               /\ LineEnd(buf, p) # p + 1}
             q == Min(lines)
  <2>1. {p \in LineStarts(buf) : IsLengthLine(buf, p)} = lines
    BY LengthLines
  <2>2. CASE lines = {}
    BY <2>1, <2>2 DEF LengthFromItsLine, ContentLength
  <2>3. CASE lines # {}
    <3>1. lines \in SUBSET Nat
      BY DEF LineStarts
    <3>2. q \in lines
      BY <2>3, <3>1, MinIsLeast
    <3>3. q \in 1 .. Len(buf) /\ IsLengthLine(buf, q) /\ LineEnd(buf, q) # 0
      BY <2>1, <3>2 DEF LineStarts
    <3>4. ContentLength(buf) = Number(buf, q + 1)
      BY <2>1, <2>3 DEF ContentLength
    <3> HIDE DEF q
    <3>5. \/ Number(buf, q + 1) = Declared(buf, q)
          \/ \E e \in q + 1 .. LineEnd(buf, q) :
               /\ buf[e] \in {"CR", "LF"}
               /\ \A m \in q + 1 .. e - 1 : buf[m] = "SP"
      BY <3>3, NumberIsDeclared DEF IsLengthLine
    <3> QED BY <2>3, <3>4, <3>5 DEF LengthFromItsLine, q
  <2> QED BY <2>2, <2>3
<1> QED BY EndsAtTerminatorHolds, <1>1, PTL
=============================================================================

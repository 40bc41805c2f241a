---------------------------- MODULE ProxyHandler ----------------------------
(***************************************************************************)
(* client_handler of proksi/proxy.c: one thread reads a request from its   *)
(* client, connects to the host, forwards the request and its body, relays *)
(* the answer, and closes what it opened.                                  *)
(*                                                                         *)
(* The peers are what they will send: a request and a response, each with  *)
(* its head, the length it declares, the units of body that really come,   *)
(* and how its stream ends.  read returns any part of what is there; write *)
(* takes any part of what it is given, fails at any time, or blocks for    *)
(* ever on a peer that keeps its connection but no longer reads.  A unit   *)
(* of body is a number; a head, the request line and an error page are one *)
(* piece each.  How a head is read from the socket is HttpHeaders.         *)
(***************************************************************************)
EXTENDS Integers, Sequences

CONSTANT MaxBody    \* bound: units of body, declared or sent

ASSUME HandlerAssumption == MaxBody \in Nat

NoLen == -1         \* http_get_content_length returned -1

Ends == {"silent", "eof", "reset"}

(* The request line: spaces before the method and between it and the URL,  *)
(* and whether the URL has a path.                                         *)
Layouts == [lead : 0 .. 1, gap : 1 .. 2, path : BOOLEAN]
Plain == [lead |-> 0, gap |-> 1, path |-> TRUE]

(* line: "silent" the head never ends, "empty" nothing comes, "words" not  *)
(* three words, "version" and "scheme" unsupported, "cut" three words but  *)
(* the stream ended inside the head or the head filled the buffer, "whole" *)
(* a complete head.  What follows a full buffer is read as body.           *)
Requests ==
  [line : {"silent", "empty", "words", "version", "scheme"},
   layout : {Plain}, len : {NoLen}, body : {0}, end : {"eof"}]
  \cup [line : {"cut", "whole"}, layout : {Plain}, len : NoLen .. MaxBody,
        body : 0 .. MaxBody, end : Ends]
  \cup [line : {"whole"}, layout : Layouts, len : {NoLen}, body : {0},
        end : {"silent"}]

(* head: "read" whole, cut by the end of the stream, or cut where it fills *)
(* the buffer, the rest then being read as body; "torn" it ended by a      *)
(* failed read, which adds a byte the server did not send; "none" nothing  *)
(* came; "silent" it never comes.  patient: the server answers only when   *)
(* it has the request and as much body as the request declares.            *)
Responses ==
  [head : {"read"}, len : NoLen .. MaxBody, body : 0 .. MaxBody,
   end : Ends, patient : BOOLEAN]
  \cup [head : {"torn"}, len : NoLen .. MaxBody, body : {0},
        end : {"eof"}, patient : BOOLEAN]
  \cup [head : {"none", "silent"}, len : {NoLen}, body : {0},
        end : {"eof"}, patient : {FALSE}]

VARIABLES
  pc,          \* where the handler is
  request,     \* what the client sends
  response,    \* what the server sends
  x,           \* units of the current body that were read
  got,         \* units of the last read, not yet written
  page,        \* the code of the error page to send, 0 if none
  line,        \* the request line written to the server
  uploaded,    \* the units of body written to the server
  toClient,    \* what was written to the client, in order
  broken,      \* whether a write to the client failed
  stalled,     \* whether a write blocks: its peer no longer reads
  fds          \* the descriptors, as in HandlerContract

vars == <<pc, request, response, x, got, page, line, uploaded, toClient, broken,
          stalled, fds>>
peers == <<request, response>>
data == <<x, got, line, uploaded, toClient, broken>>

Init ==
  /\ pc = "start"
  /\ request \in Requests /\ response \in Responses
  /\ x = 0 /\ got = 0 /\ page = 0
  /\ line = <<>> /\ uploaded = <<>> /\ toClient = <<>>
  /\ broken = FALSE /\ stalled = FALSE
  /\ fds = [client |-> "open", host |-> "none"]

Goto(from, to) ==
  /\ ~stalled /\ pc = from
  /\ pc' = to
  /\ UNCHANGED <<page, stalled>>

(* send_http_error is called, to return afterwards.                        *)
Fails(from, code) ==
  /\ ~stalled /\ pc = from
  /\ pc' = "page" /\ page' = code
  /\ UNCHANGED <<peers, data, stalled, fds>>

Smaller(a, b) == IF a < b THEN a ELSE b

(* The units i+1 .. j of a body.                                           *)
Units(i, j) == [k \in 1 .. j - i |-> i + k]

(* The same as written to the client.                                      *)
Parts(i, j) == [k \in 1 .. j - i |-> <<"body", i + k>>]

-----------------------------------------------------------------------------
(* write_all: a write may block, after any part of what it has to write.   *)
(* Nothing is written of a head of no bytes.                               *)
Stall ==
  /\ ~stalled
  /\ \/ pc \in {"forward", "passBody", "pass", "page"}
     \/ pc = "passHead" /\ response.head # "none"
  /\ stalled' = TRUE
  /\ UNCHANGED <<pc, peers, data, page, fds>>

(* Mutant: no return after the error page.                                 *)
SendPageOn ==
  /\ ~stalled /\ pc = "page"
  /\ pc' = IF fds.host = "open" THEN "answer" ELSE "closeClient"
  /\ page' = 0
  /\ \/ toClient' = Append(toClient, <<"page", page>>) /\ UNCHANGED broken
     \/ broken' = TRUE /\ UNCHANGED toClient
  /\ UNCHANGED <<peers, x, got, line, uploaded, stalled, fds>>

(* send_http_error, whose write_all may fail unnoticed, and the return.    *)
SendPage ==
  /\ ~stalled /\ pc = "page"
  /\ pc' = IF fds.host = "open" THEN "closeHost" ELSE "closeClient"
  /\ page' = 0
  /\ \/ toClient' = Append(toClient, <<"page", page>>) /\ UNCHANGED broken
     \/ broken' = TRUE /\ UNCHANGED toClient
  /\ UNCHANGED <<peers, x, got, line, uploaded, stalled, fds>>

-----------------------------------------------------------------------------
(* client_handler, up to the connection                                    *)

ReadRequest ==
  /\ request.line # "silent"
  /\ Goto("start", IF request.line = "empty" THEN "closeClient" ELSE "parse")
  /\ UNCHANGED <<peers, data, fds>>

Reject ==
  \/ request.line \in {"words", "scheme"} /\ Fails("parse", 400)
  \/ request.line = "version" /\ Fails("parse", 505)

Accept ==
  /\ request.line \in {"cut", "whole"}
  /\ Goto("parse", "socket")
  /\ UNCHANGED <<peers, data, fds>>

SocketFails ==
  /\ Goto("socket", "closeClient")
  /\ UNCHANGED <<peers, data, fds>>

SocketOpens ==
  /\ Goto("socket", "connect")
  /\ fds' = [fds EXCEPT !.host = "open"]
  /\ UNCHANGED <<peers, data>>

(* Mutant: the socket is forgotten when the host cannot be reached.        *)
UnreachableLeaks ==
  /\ Goto("connect", "closeClient")
  /\ UNCHANGED <<peers, data, fds>>

(* The name does not resolve, or connect fails.                            *)
Unreachable == Fails("connect", 502)

Connects ==
  /\ Goto("connect", "forward")
  /\ UNCHANGED <<peers, data, fds>>

CloseHost ==
  /\ Goto("closeHost", "closeClient")
  /\ fds' = [fds EXCEPT !.host = "closed"]
  /\ UNCHANGED <<peers, data>>

CloseClient ==
  /\ Goto("closeClient", "done")
  /\ fds' = [fds EXCEPT !.client = "closed"]
  /\ UNCHANGED <<peers, data>>

-----------------------------------------------------------------------------
(* The request line, a symbol per byte: M the method, S scheme and host,   *)
(* "/" and P the path, V the rest.                                         *)

Spaces(n) == [i \in 1 .. n |-> " "]
Method == <<"M", "M">>
Site == <<"S1", "S2", "S3", "S4">>
Path(l) == IF l.path THEN <<"/", "P">> ELSE <<>>

RequestLine(l) ==
  Spaces(l.lead) \o Method \o Spaces(l.gap) \o Site \o Path(l) \o <<" ", "V">>

(* Mutant: the blank after the method is not put back.                     *)
RewriteUnblanked(l) ==
  LET text == RequestLine(l)
  IN  Method \o <<"NUL">>
      \o SubSeq(text, Len(Site) + Len(Method) + 2, Len(text))

(* The method and a blank are written into the buffer slash - url bytes    *)
(* after its start, and the request is sent from there.                    *)
Rewrite(l) ==
  LET text == RequestLine(l)
  IN  Method \o <<" ">> \o SubSeq(text, Len(Site) + Len(Method) + 2, Len(text))

-----------------------------------------------------------------------------
(* another_method: the request                                             *)

Forward ==
  /\ Goto("forward", "body")
  /\ line' = Rewrite(request.layout)
  /\ UNCHANGED <<peers, x, got, uploaded, toClient, broken, fds>>

ForwardFails == Fails("forward", 500)

BodyDone ==
  /\ x >= request.len
  /\ Goto("body", "answer")
  /\ UNCHANGED <<peers, data, fds>>

(* Mutant: to_read is not cut to what is left of content_length.           *)
ReadBodyGreedy ==
  /\ x < request.len
  /\ Goto("body", "passBody")
  /\ got' \in 1 .. request.body - x
  /\ x' = x + got'
  /\ UNCHANGED <<peers, line, uploaded, toClient, broken, fds>>

ReadBody ==
  /\ x < request.len
  /\ Goto("body", "passBody")
  /\ got' \in 1 .. Smaller(request.len, request.body) - x
  /\ x' = x + got'
  /\ UNCHANGED <<peers, line, uploaded, toClient, broken, fds>>

ReadBodyEof ==
  /\ x < request.len /\ x = request.body /\ request.end = "eof"
  /\ Goto("body", "answer")
  /\ UNCHANGED <<peers, data, fds>>

ReadBodyFails ==
  /\ x < request.len /\ x = request.body /\ request.end = "reset"
  /\ Fails("body", 400)

(* One turn of the loop of write_all.                                      *)
PassBody ==
  \E n \in 1 .. got :
    /\ Goto("passBody", IF n = got THEN "body" ELSE "passBody")
    /\ uploaded' = uploaded \o Units(x - got, x - got + n)
    /\ got' = got - n
    /\ UNCHANGED <<peers, x, line, toClient, broken, fds>>

PassBodyFails == Fails("passBody", 500)

-----------------------------------------------------------------------------
(* another_method: the answer                                              *)

(* The server has what it waits for.                                       *)
Answers ==
  /\ response.head # "silent"
  /\ response.patient =>
       request.line = "whole" /\ Len(uploaded) >= request.len

(* http_read_headers on the server's socket; never negative.               *)
ReadHead ==
  /\ Answers
  /\ Goto("answer", "passHead")
  /\ UNCHANGED <<peers, data, fds>>

PassHead ==
  /\ Goto("passHead", "relay")
  /\ toClient' = IF response.head = "none" THEN toClient
                 ELSE Append(toClient, <<"head", 0>>)
  /\ x' = 0 /\ got' = 0
  /\ UNCHANGED <<peers, line, uploaded, broken, fds>>

PassHeadFails ==
  /\ response.head # "none"
  /\ Goto("passHead", "closeHost")
  /\ broken' = TRUE
  /\ UNCHANGED <<peers, x, got, line, uploaded, toClient, fds>>

(* Mutant: the answer is always relayed until the server closes.           *)
WantsMoreAlways == TRUE

WantsMore == response.len = NoLen \/ x < response.len

RelayDone ==
  /\ ~WantsMore
  /\ Goto("relay", "closeHost")
  /\ UNCHANGED <<peers, data, fds>>

ReadAnswer ==
  /\ WantsMore
  /\ Goto("relay", "pass")
  /\ got' \in 1 .. (IF response.len = NoLen THEN response.body
                    ELSE Smaller(response.len, response.body)) - x
  /\ x' = x + got'
  /\ UNCHANGED <<peers, line, uploaded, toClient, broken, fds>>

ReadAnswerEof ==
  /\ WantsMore /\ x = response.body /\ response.end = "eof"
  /\ Goto("relay", "closeHost")
  /\ UNCHANGED <<peers, data, fds>>

ReadAnswerFails ==
  /\ WantsMore /\ x = response.body /\ response.end = "reset"
  /\ Fails("relay", 502)

Pass ==
  \E n \in 1 .. got :
    /\ Goto("pass", IF n = got THEN "relay" ELSE "pass")
    /\ toClient' = toClient \o Parts(x - got, x - got + n)
    /\ got' = got - n
    /\ UNCHANGED <<peers, x, line, uploaded, broken, fds>>

PassFails ==
  /\ Goto("pass", "closeHost")
  /\ broken' = TRUE
  /\ UNCHANGED <<peers, x, got, line, uploaded, toClient, fds>>

-----------------------------------------------------------------------------

ReadsRequest ==
  \/ ReadRequest \/ Reject \/ Accept
  \/ SocketFails \/ SocketOpens \/ Unreachable \/ Connects

SendsRequest ==
  \/ Forward \/ ForwardFails
  \/ BodyDone \/ ReadBody \/ ReadBodyEof \/ ReadBodyFails
  \/ PassBody \/ PassBodyFails

RelaysAnswer ==
  \/ ReadHead \/ PassHead \/ PassHeadFails
  \/ RelayDone \/ ReadAnswer \/ ReadAnswerEof \/ ReadAnswerFails
  \/ Pass \/ PassFails

Next ==
  \/ ReadsRequest \/ SendsRequest \/ RelaysAnswer
  \/ SendPage \/ CloseHost \/ CloseClient
  \/ Stall

(* The thread is scheduled: it goes on where no peer holds it.             *)
Spec == Init /\ [][Next]_vars /\ WF_vars(Next)

-----------------------------------------------------------------------------
(* Properties                                                              *)

TypeOK ==
  /\ pc \in {"start", "parse", "socket", "connect", "forward", "body", "passBody",
             "answer", "passHead", "relay", "pass", "page", "closeHost",
             "closeClient", "done"}
  /\ x \in 0 .. MaxBody /\ got \in 0 .. MaxBody
  /\ page \in {0, 400, 500, 502, 505} /\ stalled \in BOOLEAN
  /\ fds.client \in {"open", "closed"} /\ fds.host \in {"none", "open", "closed"}

(* The client gets one answer: a head at the start, or an error page at    *)
(* the end, and a page after a head only when the server's stream broke.   *)
(* Nothing follows a write that failed.  A client that can be written to   *)
(* goes without any answer only if it sent nothing, no socket was to be    *)
(* had, or the server closed without a word.                               *)
OneAnswer ==
  /\ \A i \in DOMAIN toClient :
       /\ toClient[i][1] = "head" => i = 1
       /\ toClient[i][1] = "page" =>
            /\ i = Len(toClient)
            /\ i > 1 => toClient[i][2] = 502 /\ response.end = "reset"
  /\ broken => pc \in {"closeHost", "closeClient", "done"}
  /\ pc = "done" /\ ~broken /\ toClient = <<>> =>
       \/ request.line = "empty"
       \/ request.line \in {"cut", "whole"} /\ fds.host = "none"
       \/ fds.host = "closed" /\ response.head = "none"

(* What is to be relayed of a body of n units with declared length len.    *)
Due(len, n) == IF len = NoLen THEN n ELSE Smaller(len, n)

(* A request that declares no length has no body.                          *)
UploadDue == IF request.len = NoLen THEN 0 ELSE Due(request.len, request.body)
AnswerDue == Due(response.len, response.body)

(* Where the units of body stand in what was written to the client.        *)
Relayed == {i \in DOMAIN toClient : toClient[i][1] = "body"}

(* Both bodies are relayed in order, without a gap and never beyond what   *)
(* is declared, however the reads cut them and wherever a write failed;    *)
(* a handler that ends without an error has relayed all there was.         *)
RelayExact ==
  /\ TypeOK
  /\ uploaded = Units(0, Len(uploaded)) /\ Len(uploaded) <= UploadDue
  /\ \E n \in 0 .. AnswerDue :
       /\ Relayed = 2 .. n + 1
       /\ \A i \in Relayed : toClient[i][2] = i - 1
       /\ pc = "done" /\ ~broken /\ toClient # <<>> /\ toClient[1][1] = "head" =>
            n = AnswerDue /\ Len(uploaded) = UploadDue

(* The server gets the method and the path.  With blanks to spare in the   *)
(* client's line the path is preceded by as many bytes of the host name,   *)
(* and of a URL without a path nothing is left: "/" is not inserted.       *)
ForwardsOriginForm ==
  line # <<>> =>
    LET spare == request.layout.lead + request.layout.gap - 1
    IN  line = Method \o <<" ">>
               \o SubSeq(Site, Len(Site) - spare + 1, Len(Site))
               \o Path(request.layout) \o <<" ", "V">>

(* The places of the code up to the request's head, and from the first of  *)
(* its two closes on.                                                      *)
Early == {"start", "parse", "socket", "connect", "forward"}
Closing == {"closeHost", "closeClient", "done"}

(* The head of the answer and the first n units of its body.               *)
Answered(n) ==
  [k \in 1 .. n + 1 |-> IF k = 1 THEN <<"head", 0>> ELSE <<"body", k - 1>>]

(* The body of the request, by the place of the code.                      *)
UploadInv ==
  /\ uploaded = Units(0, Len(uploaded)) /\ Len(uploaded) \in 0 .. UploadDue
  /\ pc \in Early => x = 0 /\ got = 0 /\ uploaded = <<>>
  /\ pc \in {"body", "passBody"} =>
       x \in 0 .. UploadDue /\ got \in 0 .. x /\ Len(uploaded) = x - got
  /\ pc \in {"body", "relay"} => got = 0
  /\ pc \in {"passBody", "pass"} => got # 0
  /\ pc \in {"answer", "passHead", "relay", "pass"} => Len(uploaded) = UploadDue

(* Why a client that can be written to was told nothing.                   *)
NothingToSay ==
  \/ request.line = "empty"
  \/ request.line \in {"cut", "whole"} /\ fds.host = "none"
  \/ /\ response.head = "none"
     /\ fds.host = IF pc = "closeHost" THEN "open" ELSE "closed"

(* The whole answer was relayed, or a part of it before a write failed.    *)
Relays(n) ==
  /\ response.head # "none" /\ Len(uploaded) = UploadDue
  /\ broken \/ n = AnswerDue

(* The answer, by the place of the code.                                   *)
AnswerInv ==
  /\ pc \notin {"start", "parse", "page"} \cup Closing =>
       request.line \in {"cut", "whole"}
  /\ pc \notin {"relay", "pass", "page"} \cup Closing => toClient = <<>>
  /\ pc \notin Closing => ~broken
  /\ pc \in {"relay", "pass"} =>
       /\ x \in 0 .. AnswerDue /\ got \in 0 .. x
       /\ toClient = IF response.head = "none" THEN <<>> ELSE Answered(x - got)
  /\ pc = "page" =>
       /\ page # 0
       /\ \/ toClient = <<>>
          \/ /\ page = 502 /\ response.end = "reset"
             /\ Relays(AnswerDue) /\ toClient = Answered(AnswerDue)
  /\ pc \in Closing =>
       \/ toClient = <<>> /\ (broken \/ NothingToSay)
       \/ \E code \in {400, 500, 502, 505} : toClient = <<<<"page", code>>>>
       \/ \E n \in 0 .. AnswerDue :
            /\ Relays(n)
            /\ \/ toClient = Answered(n)
               \/ /\ response.end = "reset"
                  /\ toClient = Append(Answered(n), <<"page", 502>>)

(* The inductive invariant behind OneAnswer, RelayExact and                *)
(* ForwardsOriginForm: at each place of the code, what the loops of the    *)
(* handler have read is what they have written and what they hold.         *)
HandlerInv ==
  /\ TypeOK /\ request \in Requests /\ response \in Responses
  /\ line \in {<<>>, Rewrite(request.layout)}
  /\ UploadInv /\ AnswerInv

(* A peer that stays silent keeps the handler in a read: it has not ended  *)
(* its head, it owes units it declared, or, without a declared length, it  *)
(* does not close.                                                         *)
Starved ==
  \/ pc = "start" /\ request.line = "silent"
  \/ pc = "body" /\ request.end = "silent" /\ x = request.body /\ x < request.len
  \/ pc = "answer" /\ ~Answers
  \/ /\ pc = "relay" /\ response.end = "silent" /\ x = response.body
     /\ response.len = NoLen \/ x < response.len

(* Where only a peer can keep the handler: in a read, or in a write of the *)
(* request, of a body, of the answer's head or of an error page.           *)
WaitsForPeer == Starved \/ stalled

(* Every handler closes its client in the end, unless a peer keeps it that *)
(* is silent or no longer reads: there is no timeout anywhere.             *)
Settles == <>(pc = "done" \/ WaitsForPeer)

Contract == INSTANCE HandlerContract

(* The handler keeps to what the accept loop relies on: each descriptor is *)
(* closed once, the host's before the client's, on each of the many exits. *)
KeepsContract == Contract!Spec
=============================================================================

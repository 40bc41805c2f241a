------------------------- MODULE ProxyHandlerProofs -------------------------
(***************************************************************************)
(* ProxyHandler for bodies of any size.  The handler implements            *)
(* HandlerContract; the client gets one answer; both bodies are relayed    *)
(* exactly; and the server gets the path it should.                        *)
(*                                                                         *)
(* Two invariants carry this: FdsInv, which descriptors are open at each   *)
(* place of the code, and HandlerInv, which says how what was read relates *)
(* to what was written.  The lemmas in between are about what the handler  *)
(* does to sequences: it appends to what it has sent (Units, Answered),    *)
(* and it moves bytes within the request line (Suffix, Cut, Rewrite).      *)
(*                                                                         *)
(* The last section is about time: each step brings a handler closer to    *)
(* its end, and one that waits for its peer waits for ever.                *)
(***************************************************************************)
EXTENDS ProxyHandler, SequenceTheorems, TLAPS

Before == {"start", "parse", "socket"}
Connected == {"connect", "forward", "body", "passBody", "answer", "passHead",
              "relay", "pass", "closeHost"}

(* The places of the code and what is open there; where a write can block. *)
FdsInv ==
  /\ pc \in Before \cup Connected \cup {"page", "closeClient", "done"}
  /\ pc \in Before => fds = Contract!Fresh
  /\ pc \in Connected => fds = [client |-> "open", host |-> "open"]
  /\ pc = "page" => \E h \in {"none", "open"} : fds = [client |-> "open", host |-> h]
  /\ pc = "closeClient" => \E h \in {"none", "closed"} :
                             fds = [client |-> "open", host |-> h]
  /\ stalled => pc \in {"forward", "passBody", "passHead", "pass", "page"}

USE DEF Before, Connected, Goto, Fails, Contract!Fresh

(* The handler starts with the descriptor of its client.                   *)
LEMMA FdsInit == Init => FdsInv
BY DEF Init, FdsInv

(* Each step keeps FdsInv and is a step of the contract or leaves the      *)
(* descriptors alone.                                                      *)
LEMMA FdsStep == FdsInv /\ [Next]_vars => FdsInv' /\ [Contract!Next]_fds
<1> SUFFICES ASSUME FdsInv, [Next]_vars
             PROVE  FdsInv' /\ [Contract!Next]_fds
  OBVIOUS
<1>1. CASE ReadsRequest
  <2>1. CASE SocketOpens
    BY <2>1 DEF SocketOpens, FdsInv, Contract!Next, Contract!OpensHost
  <2>2. CASE ReadRequest \/ Accept \/ SocketFails \/ Connects
    BY <2>2 DEF ReadRequest, Accept, SocketFails, Connects, FdsInv
  <2>3. CASE Reject \/ Unreachable
    BY <2>3 DEF Reject, Unreachable, FdsInv
  <2> QED BY <1>1, <2>1, <2>2, <2>3 DEF ReadsRequest
<1>2. CASE SendsRequest
  <2>1. CASE Forward \/ BodyDone \/ ReadBody \/ ReadBodyEof \/ PassBody
    BY <2>1 DEF Forward, BodyDone, ReadBody, ReadBodyEof, PassBody, FdsInv
  <2>2. CASE ForwardFails \/ ReadBodyFails \/ PassBodyFails
    BY <2>2 DEF ForwardFails, ReadBodyFails, PassBodyFails, FdsInv
  <2> QED BY <1>2, <2>1, <2>2 DEF SendsRequest
<1>3. CASE RelaysAnswer
  <2>1. CASE ReadHead \/ PassHead \/ RelayDone \/ ReadAnswer \/ ReadAnswerEof \/ Pass
    BY <2>1 DEF ReadHead, PassHead, RelayDone, ReadAnswer, ReadAnswerEof, Pass, FdsInv
  <2>2. CASE PassHeadFails \/ ReadAnswerFails \/ PassFails
    BY <2>2 DEF PassHeadFails, ReadAnswerFails, PassFails, FdsInv
  <2> QED BY <1>3, <2>1, <2>2 DEF RelaysAnswer
<1>4. CASE CloseHost
  BY <1>4 DEF CloseHost, FdsInv, Contract!Next, Contract!ClosesHost
<1>5. CASE CloseClient
  BY <1>5 DEF CloseClient, FdsInv, Contract!Next, Contract!ClosesClient
<1>6. CASE SendPage \/ Stall
  BY <1>6 DEF SendPage, Stall, FdsInv
<1>7. CASE UNCHANGED vars
  BY <1>7 DEF vars, FdsInv
<1> QED BY <1>1, <1>2, <1>3, <1>4, <1>5, <1>6, <1>7 DEF Next

(* Whatever the peers do, and however long their bodies are, the handler   *)
(* closes the socket to the host if it opened it, then the client, each    *)
(* once.                                                                   *)
THEOREM ImplementsContract == Spec => KeepsContract
<1>1. Init => Contract!Init
  BY DEF Init, Contract!Init
<1> QED BY <1>1, FdsInit, FdsStep, PTL DEF Spec, KeepsContract, Contract!Spec

-----------------------------------------------------------------------------
(* Units of body, and what was written of them.                            *)

(* What can be written to the client.                                      *)
Piece == {"head", "body", "page"} \X Int

(* Units(i, j) holds j - i numbers.                                        *)
LEMMA UnitsLen ==
  ASSUME NEW a \in Int, NEW b \in Int, a <= b
  PROVE  Units(a, b) \in Seq(Int) /\ Len(Units(a, b)) = b - a
BY DEF Units

(* Writing the units a+1 .. b after the first a leaves the first b.        *)
LEMMA UnitsJoin ==
  ASSUME NEW a \in Nat, NEW b \in Nat, a <= b
  PROVE  Units(0, a) \o Units(a, b) = Units(0, b)
<1> DEFINE s == Units(0, a)
           t == Units(a, b)
<1>1. s \in Seq(Int) /\ Len(s) = a
  BY UnitsLen
<1>2. t \in Seq(Int) /\ Len(t) = b - a
  BY UnitsLen
<1>3. Units(0, b) \in Seq(Int) /\ Len(Units(0, b)) = b
  BY UnitsLen
<1>4. \A k \in 1 .. b : Units(0, b)[k] = IF k <= a THEN s[k] ELSE t[k - a]
  BY DEF Units
<1> HIDE DEF s, t
<1>5. /\ s \o t \in Seq(Int) /\ Len(s \o t) = b
      /\ \A k \in 1 .. b : (s \o t)[k] = IF k <= a THEN s[k] ELSE t[k - a]
  BY <1>1, <1>2, ConcatProperties
<1>6. s \o t = Units(0, b)
  BY <1>3, <1>4, <1>5, SeqEqual
<1> QED BY <1>6 DEF s, t

(* Parts(a, b) holds as many.                                              *)
LEMMA PartsLen ==
  ASSUME NEW a \in Int, NEW b \in Int, a <= b
  PROVE  Parts(a, b) \in Seq(Piece) /\ Len(Parts(a, b)) = b - a
<1>1. Parts(a, b) \in [1 .. b - a -> Piece]
  BY DEF Parts, Piece
<1> QED BY <1>1

(* Answered(n) is the head and n units.                                    *)
LEMMA AnsweredLen ==
  ASSUME NEW n \in Nat
  PROVE  Answered(n) \in Seq(Piece) /\ Len(Answered(n)) = n + 1
<1>1. Answered(n) \in [1 .. n + 1 -> Piece]
  BY DEF Answered, Piece
<1> QED BY <1>1

(* The same as UnitsJoin, behind the head.                                 *)
LEMMA AnsweredJoin ==
  ASSUME NEW a \in Nat, NEW b \in Nat, a <= b
  PROVE  Answered(a) \o Parts(a, b) = Answered(b)
<1> DEFINE s == Answered(a)
           t == Parts(a, b)
<1>1. s \in Seq(Piece) /\ Len(s) = a + 1
  BY AnsweredLen
<1>2. t \in Seq(Piece) /\ Len(t) = b - a
  BY PartsLen
<1>3. Answered(b) \in Seq(Piece) /\ Len(Answered(b)) = b + 1
  BY AnsweredLen
<1>4. ASSUME NEW k \in 1 .. b + 1
      PROVE  Answered(b)[k] = IF k <= a + 1 THEN s[k] ELSE t[k - (a + 1)]
  <2>1. CASE k <= a + 1
    BY <2>1 DEF Answered
  <2>2. CASE k > a + 1
    <3>1. t[k - (a + 1)] = <<"body", a + (k - (a + 1))>> /\ Answered(b)[k] = <<"body", k - 1>>
      BY <2>2 DEF Parts, Answered
    <3>2. a + (k - (a + 1)) = k - 1
      OBVIOUS
    <3> QED BY <2>2, <3>1, <3>2
  <2> QED BY <2>1, <2>2
<1> HIDE DEF s, t
<1>5. /\ s \o t \in Seq(Piece) /\ Len(s \o t) = b + 1
      /\ \A k \in 1 .. b + 1 : (s \o t)[k] = IF k <= a + 1 THEN s[k] ELSE t[k - (a + 1)]
  <2>1. /\ s \o t \in Seq(Piece) /\ Len(s \o t) = Len(s) + Len(t)
        /\ \A k \in 1 .. Len(s) + Len(t) :
             (s \o t)[k] = IF k <= Len(s) THEN s[k] ELSE t[k - Len(s)]
    BY <1>1, <1>2, ConcatProperties
  <2>2. Len(s) + Len(t) = b + 1
    BY <1>1, <1>2
  <2> QED BY <1>1, <2>1, <2>2
<1>6. s \o t = Answered(b)
  <2> HIDE DEF Answered
  <2>1. \A k \in 1 .. b + 1 : (s \o t)[k] = Answered(b)[k]
    BY <1>4, <1>5
  <2> QED BY <1>3, <1>5, <2>1, SeqEqual
<1> QED BY <1>6 DEF s, t

(* An error page behind them.                                              *)
LEMMA AnsweredAppend ==
  ASSUME NEW n \in Nat, NEW p \in Piece
  PROVE  /\ Len(Append(Answered(n), p)) = n + 2
         /\ DOMAIN Append(Answered(n), p) = 1 .. n + 2
         /\ \A k \in 1 .. n + 2 :
              Append(Answered(n), p)[k] = IF k = n + 2 THEN p ELSE Answered(n)[k]
<1> DEFINE s == Answered(n)
<1>1. s \in Seq(Piece) /\ Len(s) = n + 1
  BY AnsweredLen
<1> HIDE DEF s
<1>2. /\ Append(s, p) \in Seq(Piece) /\ Len(Append(s, p)) = n + 2
      /\ \A k \in 1 .. n + 1 : Append(s, p)[k] = s[k]
      /\ Append(s, p)[n + 2] = p
  <2>1. Len(s) + 1 = n + 2
    BY <1>1
  <2> QED BY <1>1, <2>1, AppendProperties
<1>3. DOMAIN Append(s, p) = 1 .. n + 2
  BY <1>2, LenProperties
<1>4. \A k \in 1 .. n + 2 : Append(s, p)[k] = IF k = n + 2 THEN p ELSE s[k]
  BY <1>2
<1> QED BY <1>2, <1>3, <1>4 DEF s

(* No units are nothing.                                                   *)
LEMMA UnitsEmpty == Units(0, 0) = <<>> /\ Len(<<>>) = 0
BY UnitsLen, EmptySeq

-----------------------------------------------------------------------------
(* The rewritten request line.                                             *)

(* The end of a sequence from position m on.                               *)
LEMMA Suffix ==
  ASSUME NEW S, NEW s \in Seq(S), NEW m \in 1 .. Len(s) + 1
  PROVE  /\ SubSeq(s, m, Len(s)) \in Seq(S)
         /\ Len(SubSeq(s, m, Len(s))) = Len(s) + 1 - m
         /\ \A i \in 1 .. Len(s) + 1 - m : SubSeq(s, m, Len(s))[i] = s[m + i - 1]
<1>1. Len(s) \in Nat /\ m \in Int
  OBVIOUS
<1>2. \A i \in m .. Len(s) : s[i] \in S
  BY <1>1, ElementOfSeq
<1>3. /\ SubSeq(s, m, Len(s)) \in Seq(S)
      /\ Len(SubSeq(s, m, Len(s))) = IF m <= Len(s) THEN Len(s) - m + 1 ELSE 0
      /\ \A i \in 1 .. Len(s) - m + 1 : SubSeq(s, m, Len(s))[i] = s[m + i - 1]
  BY <1>1, <1>2, SubSeqProperties
<1>4. Len(s) - m + 1 = Len(s) + 1 - m /\ (m > Len(s) => Len(s) + 1 - m = 0)
  BY <1>1
<1> QED BY <1>1, <1>3, <1>4


(* Cutting a line of pieces: the concatenation, kept folded.               *)
Join(s, t) == s \o t

(* What is needed to know of it.                                           *)
LEMMA JoinProperties ==
  ASSUME NEW S, NEW a \in Seq(S), NEW b \in Seq(S)
  PROVE  /\ Join(a, b) \in Seq(S) /\ Len(Join(a, b)) = Len(a) + Len(b)
         /\ \A i \in 1 .. Len(a) + Len(b) :
              Join(a, b)[i] = IF i <= Len(a) THEN a[i] ELSE b[i - Len(a)]
BY ConcatProperties DEF Join

(* ... and how it associates.                                              *)
LEMMA JoinAssociative ==
  ASSUME NEW S, NEW a \in Seq(S), NEW b \in Seq(S), NEW c \in Seq(S)
  PROVE  Join(Join(a, b), c) = Join(a, Join(b, c))
BY ConcatAssociative DEF Join

(* A cut behind the first of two sequences leaves the end of the second.   *)
LEMMA CutSecond ==
  ASSUME NEW S, NEW a \in Seq(S), NEW b \in Seq(S), NEW k \in 1 .. Len(b) + 1
  PROVE  SubSeq(Join(a, b), Len(a) + k, Len(Join(a, b))) = SubSeq(b, k, Len(b))
<1>0. Len(a) \in Nat /\ Len(b) \in Nat /\ k \in Nat /\ k > 0 /\ k <= Len(b) + 1
  OBVIOUS
<1>1. PICK t \in Seq(S) : t = Join(a, b)
  BY JoinProperties
<1>2. /\ Len(t) = Len(a) + Len(b)
      /\ \A i \in 1 .. Len(a) + Len(b) : t[i] = IF i <= Len(a) THEN a[i] ELSE b[i - Len(a)]
  BY <1>1, JoinProperties
<1>3. PICK left \in Seq(S) : left = SubSeq(t, Len(a) + k, Len(t))
  <2>1. PICK m \in 1 .. Len(t) + 1 : m = Len(a) + k
    BY <1>0, <1>2, SMTT(30)
  <2> QED BY <2>1, Suffix
<1>4. PICK right \in Seq(S) : right = SubSeq(b, k, Len(b))
  BY Suffix
<1>5. /\ Len(left) = Len(t) + 1 - (Len(a) + k)
      /\ \A i \in 1 .. Len(t) + 1 - (Len(a) + k) : left[i] = t[Len(a) + k + i - 1]
  <2>1. PICK m \in 1 .. Len(t) + 1 : m = Len(a) + k
    BY <1>0, <1>2
  <2> QED BY <1>3, <2>1, Suffix
<1>6. /\ Len(right) = Len(b) + 1 - k
      /\ \A i \in 1 .. Len(b) + 1 - k : right[i] = b[k + i - 1]
  BY <1>4, Suffix
<1>7. Len(left) = Len(right)
  BY <1>0, <1>2, <1>5, <1>6
<1>8. ASSUME NEW i \in 1 .. Len(left) PROVE left[i] = right[i]
  <2>0. i \in Nat /\ i > 0 /\ i <= Len(b) + 1 - k
    BY <1>0, <1>6, <1>7
  <2>1. left[i] = t[Len(a) + k + i - 1] /\ right[i] = b[k + i - 1]
    BY <1>5, <1>6, <1>7
  <2>2. /\ Len(a) + k + i - 1 \in 1 .. Len(a) + Len(b) /\ Len(a) + k + i - 1 > Len(a)
        /\ Len(a) + k + i - 1 - Len(a) = k + i - 1
    BY <1>0, <2>0
  <2>3. t[Len(a) + k + i - 1] = b[Len(a) + k + i - 1 - Len(a)]
    <3>1. PICK j \in 1 .. Len(a) + Len(b) : j = Len(a) + k + i - 1
      BY <2>2
    <3>2. ~(j <= Len(a))
      BY <1>0, <2>2, <3>1
    <3>3. t[j] = b[j - Len(a)]
      BY <1>2, <3>2
    <3> QED BY <3>1, <3>3
  <2> QED BY <2>1, <2>2, <2>3
<1> QED BY <1>1, <1>3, <1>4, <1>7, <1>8, SeqEqual

(* A cut inside the first leaves the second whole.                         *)
LEMMA CutFirst ==
  ASSUME NEW S, NEW a \in Seq(S), NEW b \in Seq(S), NEW k \in 1 .. Len(a) + 1
  PROVE  SubSeq(Join(a, b), k, Len(Join(a, b))) = Join(SubSeq(a, k, Len(a)), b)
<1>0. Len(a) \in Nat /\ Len(b) \in Nat /\ k \in Nat /\ k > 0 /\ k <= Len(a) + 1
  OBVIOUS
<1>1. PICK t \in Seq(S) : t = Join(a, b)
  BY JoinProperties
<1>2. /\ Len(t) = Len(a) + Len(b)
      /\ \A i \in 1 .. Len(a) + Len(b) : t[i] = IF i <= Len(a) THEN a[i] ELSE b[i - Len(a)]
  BY <1>1, JoinProperties
<1>a. k \in 1 .. Len(t) + 1
  BY <1>0, <1>2
<1>3. PICK left \in Seq(S) : left = SubSeq(t, k, Len(t))
  BY <1>a, Suffix
<1>4. /\ Len(left) = Len(t) + 1 - k
      /\ \A i \in 1 .. Len(t) + 1 - k : left[i] = t[k + i - 1]
  BY <1>a, <1>3, Suffix
<1>5. PICK d \in Seq(S) : d = SubSeq(a, k, Len(a))
  BY Suffix
<1>6. /\ Len(d) = Len(a) + 1 - k
      /\ \A i \in 1 .. Len(a) + 1 - k : d[i] = a[k + i - 1]
  BY <1>5, Suffix
<1>7. PICK right \in Seq(S) : right = Join(d, b)
  BY JoinProperties
<1>8. /\ Len(right) = Len(d) + Len(b)
      /\ \A i \in 1 .. Len(d) + Len(b) : right[i] = IF i <= Len(d) THEN d[i] ELSE b[i - Len(d)]
  BY <1>7, JoinProperties
<1>9. Len(left) = Len(right)
  BY <1>0, <1>2, <1>4, <1>6, <1>8
<1>10. ASSUME NEW i \in 1 .. Len(left) PROVE left[i] = right[i]
  <2>0. i \in Nat /\ i > 0 /\ i <= Len(a) + Len(b) + 1 - k
    BY <1>0, <1>2, <1>4
  <2>1. left[i] = t[k + i - 1]
    BY <1>4
  <2>2. CASE i <= Len(d)
    <3>1. right[i] = a[k + i - 1]
      BY <1>0, <1>6, <1>8, <2>0, <2>2
    <3>2. k + i - 1 \in 1 .. Len(a) + Len(b) /\ k + i - 1 <= Len(a)
      BY <1>0, <1>6, <2>0, <2>2
    <3> QED BY <1>2, <2>1, <3>1, <3>2
  <2>3. CASE i > Len(d)
    <3>1. right[i] = b[i - Len(d)]
      BY <1>0, <1>6, <1>8, <2>0, <2>3
    <3>2. /\ k + i - 1 \in 1 .. Len(a) + Len(b) /\ k + i - 1 > Len(a)
          /\ k + i - 1 - Len(a) = i - Len(d)
      BY <1>0, <1>6, <2>0, <2>3
    <3>3. t[k + i - 1] = b[k + i - 1 - Len(a)]
      BY <1>0, <1>2, <3>2, SMTT(30)
    <3> QED BY <2>1, <3>1, <3>2, <3>3
  <2> QED BY <1>0, <1>6, <2>0, <2>2, <2>3
<1> QED BY <1>1, <1>3, <1>5, <1>7, <1>9, <1>10, SeqEqual

(* The symbols of a line.                                                  *)
Bytes == {" ", "M", "S1", "S2", "S3", "S4", "/", "P", "V"}

(* The pieces of the client's line, and how long they are.                 *)
LEMMA Pieces ==
  ASSUME NEW l \in Layouts
  PROVE  /\ Spaces(l.lead) \in Seq(Bytes) /\ Len(Spaces(l.lead)) = l.lead
         /\ Spaces(l.gap) \in Seq(Bytes) /\ Len(Spaces(l.gap)) = l.gap
         /\ Path(l) \in Seq(Bytes)
<1>1. l.lead \in 0 .. 1 /\ l.gap \in 1 .. 2
  BY DEF Layouts
<1>2. Spaces(l.lead) \in [1 .. l.lead -> Bytes] /\ Spaces(l.gap) \in [1 .. l.gap -> Bytes]
  BY DEF Spaces, Bytes
<1>3. /\ Spaces(l.lead) \in Seq(Bytes) /\ Len(Spaces(l.lead)) = l.lead
      /\ Spaces(l.gap) \in Seq(Bytes) /\ Len(Spaces(l.gap)) = l.gap
  BY <1>1, <1>2
<1>4. Path(l) \in Seq(Bytes)
  <2>1. <<"/", "P">> \in Seq(Bytes) /\ <<>> \in Seq(Bytes)
    BY DEF Bytes
  <2> QED BY <2>1 DEF Path
<1> QED BY <1>3, <1>4

(* Method and host do not depend on the line.                              *)
LEMMA FixedPieces ==
  /\ Method \in Seq(Bytes) /\ Len(Method) = 2
  /\ Site \in Seq(Bytes) /\ Len(Site) = 4
  /\ <<" ">> \in Seq(Bytes) /\ <<" ", "V">> \in Seq(Bytes)
BY DEF Method, Site, Bytes

(* Sending from slash - url bytes after the start of the buffer leaves as  *)
(* many bytes of the host as the client's line has blanks to spare.        *)
LEMMA RewriteForm ==
  ASSUME NEW l \in Layouts
  PROVE  LET spare == l.lead + l.gap - 1
         IN  Rewrite(l) = Method \o <<" ">>
                          \o SubSeq(Site, Len(Site) - spare + 1, Len(Site))
                          \o Path(l) \o <<" ", "V">>
<1>0. PICK i \in 0 .. 1, j \in 1 .. 2 : i = l.lead /\ j = l.gap
  BY DEF Layouts
<1>1. PICK a \in Seq(Bytes), g \in Seq(Bytes), p \in Seq(Bytes) :
        /\ a = Spaces(l.lead) /\ Len(a) = i
        /\ g = Spaces(l.gap) /\ Len(g) = j
        /\ p = Path(l)
  BY <1>0, Pieces
<1>2. PICK m \in Seq(Bytes), s \in Seq(Bytes), b \in Seq(Bytes), v \in Seq(Bytes) :
        /\ m = Method /\ Len(m) = 2 /\ s = Site /\ Len(s) = 4
        /\ b = <<" ">> /\ v = <<" ", "V">>
  BY FixedPieces
<1>c. Len(m) = 2 /\ Len(s) = 4 /\ Len(Method) = 2 /\ Len(Site) = 4
  BY <1>2
<1>3. PICK k \in 1 .. Len(s) + 1 : k = 4 - (i + j - 1) + 1
  <2>1. 4 - (i + j - 1) + 1 \in 1 .. 5
    OBVIOUS
  <2>2. Len(s) + 1 = 5
    BY <1>c
  <2> QED BY <2>1, <2>2
<1>4. PICK text : text = Join(Join(Join(Join(Join(a, m), g), s), p), v)
  OBVIOUS
<1>5. 8 = Len(a) + Len(m) + Len(g) + k
  <2>1. Len(a) = i /\ Len(g) = j
    BY <1>1
  <2> QED BY <1>c, <1>3, <2>1
<1>6. SubSeq(text, 8, Len(text)) = Join(SubSeq(s, k, Len(s)), Join(p, v))
  <2>1. PICK am \in Seq(Bytes) : am = Join(a, m) /\ Len(am) = Len(a) + Len(m)
    BY JoinProperties
  <2>2. PICK front \in Seq(Bytes) : front = Join(am, g) /\ Len(front) = Len(am) + Len(g)
    BY JoinProperties
  <2>3. PICK rest \in Seq(Bytes) : rest = Join(p, v)
    BY JoinProperties
  <2>4. PICK back \in Seq(Bytes) : back = Join(s, rest) /\ Len(back) = Len(s) + Len(rest)
    BY JoinProperties
  <2>5. text = Join(front, back)
    <3>1. PICK fs \in Seq(Bytes) : fs = Join(front, s)
      BY JoinProperties
    <3>2. text = Join(fs, rest)
      BY <1>4, <2>1, <2>2, <2>3, <3>1, JoinAssociative
    <3> QED BY <2>4, <3>1, <3>2, JoinAssociative
  <2>6. k \in 1 .. Len(back) + 1
    BY <2>4
  <2>7. SubSeq(Join(front, back), Len(front) + k, Len(Join(front, back)))
          = SubSeq(back, k, Len(back))
    BY <2>6, CutSecond
  <2>8. SubSeq(back, k, Len(back)) = Join(SubSeq(s, k, Len(s)), rest)
    BY <2>4, CutFirst
  <2>9. Len(front) + k = 8
    BY <1>5, <2>1, <2>2
  <2> QED BY <2>3, <2>5, <2>7, <2>8, <2>9
<1>7. Rewrite(l) = Join(Join(m, b), SubSeq(text, 8, Len(text)))
  <2>1. RequestLine(l) = text
    BY <1>1, <1>2, <1>4 DEF RequestLine, Join
  <2>2. Len(Site) + Len(Method) + 2 = 8
    BY <1>c
  <2> QED BY <1>2, <2>1, <2>2 DEF Rewrite, Join
<1>8. PICK kept \in Seq(Bytes) : kept = SubSeq(s, k, Len(s))
  BY Suffix
<1>9. Join(Join(m, b), Join(kept, Join(p, v))) = Join(Join(Join(Join(m, b), kept), p), v)
  <2>1. PICK start \in Seq(Bytes), rest \in Seq(Bytes) : start = Join(m, b) /\ rest = Join(p, v)
    BY JoinProperties
  <2>2. PICK sk \in Seq(Bytes) : sk = Join(start, kept)
    BY JoinProperties
  <2> QED BY <2>1, <2>2, JoinAssociative
<1>a. Len(Site) - (l.lead + l.gap - 1) + 1 = k
  BY <1>0, <1>2, <1>3
<1>b. Rewrite(l) = Join(Join(Join(Join(m, b), kept), p), v)
  BY <1>6, <1>7, <1>8, <1>9
<1> QED BY <1>1, <1>2, <1>8, <1>a, <1>b DEF Join

-----------------------------------------------------------------------------
(* Where the loops of the handler stand.                                   *)

(* What the peers are, field by field.                                     *)
LEMMA PeerFacts ==
  ASSUME request \in Requests, response \in Responses
  PROVE  /\ request.len \in NoLen .. MaxBody /\ request.body \in 0 .. MaxBody
         /\ request.layout \in Layouts
         /\ response.len \in NoLen .. MaxBody /\ response.body \in 0 .. MaxBody
         /\ response.head = "none" => response.end = "eof" /\ AnswerDue = 0
         /\ UploadDue \in 0 .. MaxBody /\ AnswerDue \in 0 .. MaxBody
<1>0. MaxBody \in Nat
  BY HandlerAssumption
<1>1. Plain \in Layouts
  BY DEF Plain, Layouts
<1>2. /\ request.len \in NoLen .. MaxBody /\ request.body \in 0 .. MaxBody
      /\ request.layout \in Layouts
  BY <1>0, <1>1 DEF Requests, NoLen
<1>3. /\ response.len \in NoLen .. MaxBody /\ response.body \in 0 .. MaxBody
      /\ response.head = "none" => response.end = "eof" /\ response.len = NoLen
                                   /\ response.body = 0
  <2>1. response.len \in NoLen .. MaxBody /\ response.body \in 0 .. MaxBody
    <3>1. NoLen \in NoLen .. MaxBody /\ 0 \in 0 .. MaxBody
      BY <1>0 DEF NoLen
    <3> QED BY <3>1 DEF Responses
  <2>2. response.head = "none" => response.end = "eof" /\ response.len = NoLen
                                  /\ response.body = 0
    BY DEF Responses
  <2> QED BY <2>1, <2>2
<1>4. UploadDue \in 0 .. MaxBody /\ AnswerDue \in 0 .. MaxBody
  BY <1>0, <1>2, <1>3 DEF UploadDue, AnswerDue, Due, Smaller, NoLen
<1> QED BY <1>2, <1>3, <1>4 DEF AnswerDue, Due

(* At the start nothing was written.                                       *)
LEMMA HandlerInit == Init => HandlerInv
<1> SUFFICES ASSUME Init PROVE HandlerInv
  OBVIOUS
<1>1. request \in Requests /\ response \in Responses
  BY DEF Init
<1>2. UploadDue \in 0 .. MaxBody /\ AnswerDue \in 0 .. MaxBody /\ MaxBody \in Nat
  BY <1>1, PeerFacts, HandlerAssumption
<1>3. TypeOK /\ line \in {<<>>, Rewrite(request.layout)}
  <2>1. /\ pc = "start" /\ x = 0 /\ got = 0 /\ page = 0 /\ line = <<>>
        /\ stalled = FALSE /\ fds = [client |-> "open", host |-> "none"]
    BY DEF Init
  <2>2. 0 \in 0 .. MaxBody
    BY <1>2
  <2> QED BY <2>1, <2>2 DEF TypeOK
<1>4. UploadInv
  BY <1>2, UnitsEmpty DEF Init, UploadInv
<1>5. AnswerInv
  BY DEF Init, AnswerInv, Closing
<1> QED BY <1>1, <1>3, <1>4, <1>5 DEF HandlerInv

(* The peers stay, and every variable keeps its type.                      *)
LEMMA TypeStep ==
  HandlerInv /\ FdsInv /\ Next =>
    /\ TypeOK' /\ request' \in Requests /\ response' \in Responses
    /\ line' \in {<<>>, Rewrite(request'.layout)}
<1> SUFFICES ASSUME HandlerInv, FdsInv, Next
             PROVE  /\ TypeOK' /\ request' \in Requests /\ response' \in Responses
                    /\ line' \in {<<>>, Rewrite(request'.layout)}
  OBVIOUS
<1>0. MaxBody \in Nat
  BY HandlerAssumption
<1>1. TypeOK /\ request \in Requests /\ response \in Responses
  BY DEF HandlerInv
<1>2. /\ request.len \in NoLen .. MaxBody /\ request.body \in 0 .. MaxBody
      /\ response.len \in NoLen .. MaxBody /\ response.body \in 0 .. MaxBody
  BY <1>1, PeerFacts
<1>3. request' = request /\ response' = response /\ line' \in {line, Rewrite(request.layout)}
  BY DEF Next, ReadsRequest, ReadRequest, Reject, Accept, SocketFails, SocketOpens,
         Unreachable, Connects, SendsRequest, Forward, ForwardFails, BodyDone, ReadBody,
         ReadBodyEof, ReadBodyFails, PassBody, PassBodyFails, RelaysAnswer, ReadHead,
         PassHead, PassHeadFails, RelayDone, ReadAnswer, ReadAnswerEof, ReadAnswerFails,
         Pass, PassFails, SendPage, CloseHost, CloseClient, Stall, peers, data
<1>4. x' \in 0 .. MaxBody /\ got' \in 0 .. MaxBody
  <2>1. CASE ReadBody
    <3>1. PICK s \in NoLen .. MaxBody : got' \in 1 .. s - x /\ x' = x + got'
      BY <1>2, <2>1 DEF ReadBody, Smaller, NoLen
    <3>2. x \in 0 .. MaxBody
      BY <1>1 DEF TypeOK
    <3>3. PICK z \in 0 .. MaxBody : z = x
      BY <3>2
    <3>4. PICK g \in 1 .. s - z : g = got' /\ x' = z + g
      BY <3>1, <3>3
    <3>5. z + g \in 0 .. MaxBody /\ g \in 0 .. MaxBody
      BY <1>0 DEF NoLen
    <3> QED BY <3>4, <3>5
  <2>2. CASE ReadAnswer
    <3>1. PICK s \in NoLen .. MaxBody : got' \in 1 .. s - x /\ x' = x + got'
      BY <1>2, <2>2 DEF ReadAnswer, Smaller, NoLen
    <3>2. x \in 0 .. MaxBody
      BY <1>1 DEF TypeOK
    <3>3. PICK z \in 0 .. MaxBody : z = x
      BY <3>2
    <3>4. PICK g \in 1 .. s - z : g = got' /\ x' = z + g
      BY <3>1, <3>3
    <3>5. z + g \in 0 .. MaxBody /\ g \in 0 .. MaxBody
      BY <1>0 DEF NoLen
    <3> QED BY <3>4, <3>5
  <2>3. CASE PassBody \/ Pass
    <3>1. PICK g \in 0 .. MaxBody : g = got
      BY <1>1 DEF TypeOK
    <3>2. PICK n \in 1 .. g : got' = g - n
      BY <2>3, <3>1 DEF PassBody, Pass
    <3>3. g - n \in 0 .. MaxBody
      BY <1>0
    <3> QED BY <1>1, <2>3, <3>2, <3>3 DEF PassBody, Pass, TypeOK
  <2> QED BY <1>0, <1>1, <2>1, <2>2, <2>3
          DEF Next, ReadsRequest, ReadRequest, Reject, Accept, SocketFails, SocketOpens,
              Unreachable, Connects, SendsRequest, Forward, ForwardFails, BodyDone,
              ReadBodyEof, ReadBodyFails, PassBodyFails, RelaysAnswer, ReadHead,
              PassHead, PassHeadFails, RelayDone, ReadAnswerEof, ReadAnswerFails,
              PassFails, SendPage, CloseHost, CloseClient, Stall, data, TypeOK
<1>5. /\ pc' \in {"start", "parse", "socket", "connect", "forward", "body", "passBody",
                  "answer", "passHead", "relay", "pass", "page", "closeHost",
                  "closeClient", "done"}
      /\ fds'.client \in {"open", "closed"} /\ fds'.host \in {"none", "open", "closed"}
  BY DEF FdsInv, Next, ReadsRequest, ReadRequest, Reject, Accept, SocketFails, SocketOpens,
         Unreachable, Connects, SendsRequest, Forward, ForwardFails, BodyDone, ReadBody,
         ReadBodyEof, ReadBodyFails, PassBody, PassBodyFails, RelaysAnswer, ReadHead,
         PassHead, PassHeadFails, RelayDone, ReadAnswer, ReadAnswerEof, ReadAnswerFails,
         Pass, PassFails, SendPage, CloseHost, CloseClient, Stall
<1>6. page' = page \/ page' \in {0, 400, 500, 502, 505}
  BY DEF Next, ReadsRequest, ReadRequest, Reject, Accept, SocketFails, SocketOpens,
         Unreachable, Connects, SendsRequest, Forward, ForwardFails, BodyDone, ReadBody,
         ReadBodyEof, ReadBodyFails, PassBody, PassBodyFails, RelaysAnswer, ReadHead,
         PassHead, PassHeadFails, RelayDone, ReadAnswer, ReadAnswerEof, ReadAnswerFails,
         Pass, PassFails, SendPage, CloseHost, CloseClient, Stall
<1>7. UNCHANGED stalled \/ stalled' = TRUE
  BY DEF Next, ReadsRequest, ReadRequest, Reject, Accept, SocketFails, SocketOpens,
         Unreachable, Connects, SendsRequest, Forward, ForwardFails, BodyDone, ReadBody,
         ReadBodyEof, ReadBodyFails, PassBody, PassBodyFails, RelaysAnswer, ReadHead,
         PassHead, PassHeadFails, RelayDone, ReadAnswer, ReadAnswerEof, ReadAnswerFails,
         Pass, PassFails, SendPage, CloseHost, CloseClient, Stall
<1>8. page' \in {0, 400, 500, 502, 505}
  BY <1>1, <1>6 DEF TypeOK
<1>10. stalled' \in BOOLEAN
  BY <1>1, <1>7, Zenon DEF TypeOK
<1>9. line' \in {<<>>, Rewrite(request'.layout)}
  <2> HIDE DEF Rewrite
  <2>1. line \in {<<>>, Rewrite(request.layout)}
    BY DEF HandlerInv
  <2> QED BY <1>3, <2>1
<1> QED BY <1>1, <1>3, <1>4, <1>5, <1>8, <1>9, <1>10 DEF TypeOK

(* The loop over the request's body.                                       *)
LEMMA UploadStep == HandlerInv /\ Next => UploadInv'
<1> SUFFICES ASSUME HandlerInv, Next PROVE UploadInv'
  OBVIOUS
<1>1. UploadInv /\ x \in 0 .. MaxBody /\ got \in 0 .. MaxBody /\ MaxBody \in Nat
  BY HandlerAssumption DEF HandlerInv, TypeOK
<1>2. /\ request.len \in NoLen .. MaxBody /\ request.body \in 0 .. MaxBody
      /\ UploadDue \in 0 .. MaxBody
      /\ UploadDue = IF request.len = NoLen THEN 0
                     ELSE Smaller(request.len, request.body)
  BY PeerFacts DEF HandlerInv, UploadDue, Due
<1> USE DEF UploadInv, Early, peers, data
<1>3. CASE ReadsRequest
  BY <1>1, <1>3 DEF ReadsRequest, ReadRequest, Reject, Accept, SocketFails, SocketOpens,
                    Unreachable, Connects, UploadDue
<1>4. CASE SendsRequest
  <2>1. CASE Forward \/ ForwardFails
    BY <1>1, <1>2, <2>1 DEF Forward, ForwardFails, UploadDue
  <2>2. CASE BodyDone \/ ReadBodyEof \/ ReadBodyFails
    BY <1>1, <1>2, <2>2 DEF BodyDone, ReadBodyEof, ReadBodyFails, UploadDue, Smaller, NoLen
  <2>3. CASE ReadBody
    <3>1. request.len # NoLen /\ got' \in 1 .. UploadDue - x /\ x' = x + got'
      BY <1>1, <1>2, <2>3 DEF ReadBody, NoLen
    <3>2. pc = "body" /\ pc' = "passBody" /\ UNCHANGED <<peers, uploaded>>
      BY <2>3 DEF ReadBody
    <3>3. UploadDue' = UploadDue
      BY <3>2 DEF UploadDue
    <3>4. x \in 0 .. UploadDue /\ got = 0 /\ Len(uploaded) = x - 0
      BY <1>1, <3>2
    <3>5. PICK m \in 0 .. MaxBody : m = UploadDue
      BY <1>2
    <3>6. PICK z \in 0 .. m : z = x /\ Len(uploaded) = z
      BY <3>4, <3>5
    <3>7. PICK g \in 1 .. m - z : g = got' /\ x' = z + g
      BY <3>1, <3>5, <3>6
    <3>8. z + g \in 0 .. m /\ g \in 0 .. z + g /\ (z + g) - g = z /\ g # 0
      BY <1>1
    <3> QED BY <1>1, <3>2, <3>3, <3>5, <3>6, <3>7, <3>8
  <2>4. CASE PassBody
    <3>1. PICK n \in 1 .. got :
            /\ pc = "passBody" /\ pc' = IF n = got THEN "body" ELSE "passBody"
            /\ UNCHANGED <<peers, x>> /\ got' = got - n
            /\ uploaded' = Units(0, x - got) \o Units(x - got, x - got + n)
      BY <1>1, <2>4 DEF PassBody
    <3>2. PICK a \in Nat, b \in 0 .. UploadDue :
            a = x - got /\ b = x - got + n /\ a <= b /\ b = x - got'
      BY <1>1, <1>2, <3>1
    <3>3. uploaded' = Units(0, b) /\ Len(uploaded') = b
      <4>1. b \in Nat /\ b \in Int /\ 0 \in Int /\ 0 <= b
        BY <1>2
      <4>2. Units(0, a) \o Units(a, b) = Units(0, b)
        BY <3>2, <4>1, UnitsJoin
      <4>3. Len(Units(0, b)) = b - 0
        BY <4>1, UnitsLen
      <4> QED BY <3>1, <3>2, <4>1, <4>2, <4>3
    <3>4. UploadDue' = UploadDue
      BY <3>1 DEF UploadDue
    <3>5. got' \in 0 .. x /\ (pc' = "body" <=> got' = 0) /\ x \in 0 .. UploadDue
      BY <1>1, <3>1
    <3> QED BY <3>1, <3>2, <3>3, <3>4, <3>5
  <2>5. CASE PassBodyFails
    BY <1>1, <2>5 DEF PassBodyFails, UploadDue
  <2> QED BY <1>4, <2>1, <2>2, <2>3, <2>4, <2>5 DEF SendsRequest
<1>5. CASE RelaysAnswer
  BY <1>1, <1>5 DEF RelaysAnswer, ReadHead, PassHead, PassHeadFails, RelayDone, ReadAnswer,
                    ReadAnswerEof, ReadAnswerFails, Pass, PassFails, UploadDue
<1>6. CASE SendPage \/ CloseHost \/ CloseClient \/ Stall
  BY <1>1, <1>6 DEF SendPage, CloseHost, CloseClient, Stall, UploadDue
<1> QED BY <1>3, <1>4, <1>5, <1>6 DEF Next

(* The head alone.                                                         *)
LEMMA AnsweredHead == Append(<<>>, <<"head", 0>>) = Answered(0)
<1>1. Append(<<>>, <<"head", 0>>) = [k \in 1 .. 1 |-> <<"head", 0>>]
  OBVIOUS
<1> QED BY <1>1 DEF Answered

(* Relaying the answer.                                                    *)
LEMMA AnswerStep == HandlerInv /\ FdsInv /\ Next /\ UploadInv' => AnswerInv'
<1> SUFFICES ASSUME HandlerInv, FdsInv, Next, UploadInv' PROVE AnswerInv'
  OBVIOUS
<1>1. /\ AnswerInv /\ UploadInv
      /\ x \in 0 .. MaxBody /\ got \in 0 .. MaxBody /\ MaxBody \in Nat
  BY HandlerAssumption DEF HandlerInv, TypeOK
<1>2. /\ response.len \in NoLen .. MaxBody /\ response.body \in 0 .. MaxBody
      /\ response.head = "none" => response.end = "eof" /\ AnswerDue = 0
      /\ AnswerDue \in 0 .. MaxBody
      /\ AnswerDue = IF response.len = NoLen THEN response.body
                     ELSE Smaller(response.len, response.body)
  BY PeerFacts DEF HandlerInv, AnswerDue, Due
<1>3. peers' = peers /\ AnswerDue' = AnswerDue /\ UploadDue' = UploadDue
  <2>1. peers' = peers
    BY DEF Next, ReadsRequest, ReadRequest, Reject, Accept, SocketFails, SocketOpens,
         Unreachable, Connects, SendsRequest, Forward, ForwardFails, BodyDone, ReadBody,
         ReadBodyEof, ReadBodyFails, PassBody, PassBodyFails, RelaysAnswer, ReadHead,
         PassHead, PassHeadFails, RelayDone, ReadAnswer, ReadAnswerEof, ReadAnswerFails,
         Pass, PassFails, SendPage, CloseHost, CloseClient, Stall, peers
  <2> QED BY <2>1 DEF AnswerDue, UploadDue, peers
<1> USE <1>3 DEF AnswerInv, Closing, NothingToSay, Relays, peers, data
<1>4. CASE ReadsRequest
  <2>1. CASE ReadRequest
    BY <1>1, <2>1 DEF ReadRequest
  <2>2. CASE Reject
    BY <1>1, <2>2 DEF Reject
  <2>3. CASE Accept
    BY <1>1, <2>3 DEF Accept
  <2>4. CASE SocketFails
    BY <1>1, <2>4 DEF SocketFails, FdsInv
  <2>5. CASE SocketOpens
    BY <1>1, <2>5 DEF SocketOpens
  <2>6. CASE Unreachable
    BY <1>1, <2>6 DEF Unreachable
  <2>7. CASE Connects
    BY <1>1, <2>7 DEF Connects
  <2> QED BY <1>4, <2>1, <2>2, <2>3, <2>4, <2>5, <2>6, <2>7 DEF ReadsRequest
<1>5. CASE SendsRequest
  <2>1. CASE Forward \/ BodyDone \/ ReadBody \/ ReadBodyEof \/ PassBody
    BY <1>1, <2>1 DEF Forward, BodyDone, ReadBody, ReadBodyEof, PassBody
  <2>2. CASE ForwardFails \/ ReadBodyFails \/ PassBodyFails
    BY <1>1, <2>2 DEF ForwardFails, ReadBodyFails, PassBodyFails
  <2> QED BY <1>5, <2>1, <2>2 DEF SendsRequest
<1>6. CASE RelaysAnswer
  <2>1. CASE ReadHead
    BY <1>1, <2>1 DEF ReadHead
  <2>2. CASE PassHead
    BY <1>1, <1>2, <2>2, AnsweredHead DEF PassHead
  <2>3. CASE PassHeadFails
    BY <1>1, <2>3 DEF PassHeadFails
  <2>4. CASE RelayDone \/ ReadAnswerEof
    BY <1>1, <1>2, <2>4 DEF RelayDone, ReadAnswerEof, WantsMore, Smaller, FdsInv, UploadInv
  <2>5. CASE ReadAnswer
    <3>1. pc = "relay" /\ pc' = "pass" /\ UNCHANGED <<uploaded, toClient, broken>>
      BY <2>5 DEF ReadAnswer
    <3>2. x \in 0 .. AnswerDue /\ got = 0
      BY <1>1, <3>1 DEF UploadInv
    <3>3. got' \in 1 .. AnswerDue - x /\ x' = x + got'
      BY <1>2, <2>5 DEF ReadAnswer
    <3>4. x' \in 0 .. AnswerDue /\ got' \in 0 .. x' /\ x' - got' = x - got
      <4>1. PICK m \in 0 .. MaxBody : m = AnswerDue
        BY <1>2
      <4>2. PICK z \in 0 .. m : z = x /\ x - got = z
        BY <3>2, <4>1
      <4>3. PICK g \in 1 .. m - z : g = got' /\ x' = z + g
        BY <3>3, <4>1, <4>2
      <4>4. z + g \in 0 .. m /\ g \in 0 .. z + g /\ (z + g) - g = z
        BY <1>1
      <4> QED BY <4>1, <4>2, <4>3, <4>4
    <3>5. /\ toClient = IF response.head = "none" THEN <<>> ELSE Answered(x - got)
          /\ ~broken /\ request.line \in {"cut", "whole"}
      BY <1>1, <3>1
    <3> QED BY <3>1, <3>4, <3>5
  <2>6. CASE ReadAnswerFails
    <3>1. /\ pc = "relay" /\ pc' = "page" /\ page' = 502 /\ response.end = "reset"
          /\ UNCHANGED <<x, uploaded, toClient, broken>>
      BY <2>6 DEF ReadAnswerFails
    <3>2. x = AnswerDue /\ got = 0 /\ x - got = x
      BY <1>1, <1>2, <2>6, <3>1 DEF ReadAnswerFails, WantsMore, Smaller, UploadInv
    <3>3. /\ toClient = IF response.head = "none" THEN <<>> ELSE Answered(AnswerDue)
          /\ ~broken /\ Len(uploaded) = UploadDue
      BY <1>1, <3>1, <3>2 DEF UploadInv
    <3> QED BY <3>1, <3>3
  <2>7. CASE Pass
    <3>1. PICK n \in 1 .. got :
            /\ pc = "pass" /\ pc' = IF n = got THEN "relay" ELSE "pass"
            /\ UNCHANGED <<x, uploaded, broken>> /\ got' = got - n
            /\ toClient' = toClient \o Parts(x - got, x - got + n)
      BY <2>7 DEF Pass
    <3>2. /\ x \in 0 .. AnswerDue /\ got \in 0 .. x
          /\ toClient = IF response.head = "none" THEN <<>> ELSE Answered(x - got)
          /\ ~broken /\ request.line \in {"cut", "whole"}
      BY <1>1, <3>1
    <3>3. PICK a \in Nat, b \in Nat :
            a = x - got /\ b = x - got + n /\ a <= b /\ b = x - got'
      BY <1>2, <3>1, <3>2
    <3>4. response.head # "none"
      BY <1>2, <3>1, <3>2
    <3>5. toClient' = Answered(b)
      BY <3>1, <3>2, <3>3, <3>4, AnsweredJoin
    <3>6. got' \in 0 .. x
      BY <1>1, <3>1, <3>2
    <3> QED BY <3>1, <3>2, <3>3, <3>4, <3>5, <3>6
  <2>8. CASE PassFails
    <3>1. /\ pc = "pass" /\ pc' = "closeHost" /\ UNCHANGED <<uploaded, toClient>>
          /\ broken'
      BY <2>8 DEF PassFails
    <3>2. PICK a \in 0 .. AnswerDue : a = x - got
      BY <1>1, <1>2, <3>1
    <3>3. /\ toClient = IF response.head = "none" THEN <<>> ELSE Answered(a)
          /\ Len(uploaded) = UploadDue
      BY <1>1, <3>1, <3>2 DEF UploadInv
    <3> QED BY <3>1, <3>2, <3>3
  <2> QED BY <1>6, <2>1, <2>2, <2>3, <2>4, <2>5, <2>6, <2>7, <2>8 DEF RelaysAnswer
<1>7. CASE CloseHost
  BY <1>1, <1>7, SMTT(30) DEF CloseHost, FdsInv
<1>8. CASE CloseClient
  BY <1>1, <1>8, SMTT(30) DEF CloseClient, FdsInv
<1>9. CASE SendPage
  <2>1. page \in {400, 500, 502, 505} /\ ~broken
    BY <1>1, <1>9 DEF SendPage, HandlerInv, TypeOK
  <2>2. CASE toClient = <<>>
    <3>1. \/ toClient' = <<<<"page", page>>>>
          \/ toClient' = <<>> /\ broken'
      BY <1>9, <2>2 DEF SendPage
    <3> QED BY <1>9, <2>1, <3>1 DEF SendPage
  <2>3. CASE toClient # <<>>
    <3>1. /\ page = 502 /\ response.end = "reset"
          /\ Relays(AnswerDue) /\ toClient = Answered(AnswerDue)
      BY <1>1, <1>9, <2>3 DEF SendPage
    <3>2. \/ toClient' = Append(Answered(AnswerDue), <<"page", 502>>) /\ UNCHANGED broken
          \/ toClient' = Answered(AnswerDue) /\ broken'
      BY <1>9, <3>1 DEF SendPage
    <3>3. PICK n \in 0 .. AnswerDue : n = AnswerDue
      BY <1>2
    <3>4. /\ UNCHANGED uploaded /\ pc' \in Closing /\ response' = response
          /\ (Relays(n))'
      BY <1>9, <3>1, <3>3 DEF SendPage
    <3>5. \/ toClient' = Answered(n)
          \/ response'.end = "reset" /\ toClient' = Append(Answered(n), <<"page", 502>>)
      BY <3>1, <3>2, <3>3, <3>4
    <3>6. pc' \in {"closeHost", "closeClient"}
      BY <1>9 DEF SendPage
    <3> HIDE DEF Relays
    <3> QED BY <3>4, <3>5, <3>6
  <2> QED BY <2>2, <2>3
<1>10. CASE Stall
  BY <1>1, <1>10 DEF Stall
<1> QED BY <1>4, <1>5, <1>6, <1>7, <1>8, <1>9, <1>10 DEF Next

(* The invariant of the handler, with the places of its descriptors.       *)
THEOREM HandlerInvHolds == Spec => [](HandlerInv /\ FdsInv)
<1>1. HandlerInv /\ FdsInv /\ [Next]_vars => HandlerInv'
  <2>1. HandlerInv /\ FdsInv /\ Next => HandlerInv'
    BY TypeStep, UploadStep, AnswerStep DEF HandlerInv
  <2>2. HandlerInv /\ UNCHANGED vars => HandlerInv'
    <3> SUFFICES ASSUME HandlerInv, UNCHANGED vars PROVE HandlerInv'
      OBVIOUS
    <3> USE DEF vars
    <3>1. /\ TypeOK' /\ request' \in Requests /\ response' \in Responses
          /\ line' \in {<<>>, Rewrite(request'.layout)}
      BY DEF HandlerInv, TypeOK
    <3>2. UploadDue' = UploadDue /\ AnswerDue' = AnswerDue
      BY DEF UploadDue, AnswerDue
    <3>3. UploadInv'
      BY <3>2 DEF HandlerInv, UploadInv
    <3>4. AnswerInv'
      BY <3>2 DEF HandlerInv, AnswerInv, NothingToSay, Relays
    <3> QED BY <3>1, <3>3, <3>4 DEF HandlerInv
  <2> QED BY <2>1, <2>2
<1> QED BY <1>1, HandlerInit, FdsInit, FdsStep, PTL DEF Spec

-----------------------------------------------------------------------------
(* What follows from it.                                                   *)

(* What a client was sent is nothing, one error page, or a head with units *)
(* of body and perhaps a page behind them.                                 *)
LEMMA WhatWasSent ==
  ASSUME HandlerInv
  PROVE  \/ toClient = <<>>
         \/ /\ pc \in Closing
            /\ \E code \in {400, 500, 502, 505} : toClient = <<<<"page", code>>>>
         \/ \E n \in 0 .. AnswerDue :
              /\ pc = "done" /\ ~broken => n = AnswerDue /\ Len(uploaded) = UploadDue
              /\ \/ toClient = Answered(n)
                 \/ /\ response.end = "reset"
                    /\ toClient = Append(Answered(n), <<"page", 502>>)
<1>1. AnswerInv /\ x \in 0 .. MaxBody /\ got \in 0 .. MaxBody
  BY DEF HandlerInv, TypeOK
<1>2. AnswerDue \in 0 .. MaxBody /\ MaxBody \in Nat
  BY PeerFacts, HandlerAssumption DEF HandlerInv
<1>3. CASE pc \in {"relay", "pass"}
  <2>1. PICK a \in 0 .. AnswerDue : a = x - got
    BY <1>1, <1>2, <1>3 DEF AnswerInv
  <2>2. toClient = <<>> \/ toClient = Answered(a)
    BY <1>1, <1>3, <2>1 DEF AnswerInv
  <2> QED BY <1>3, <2>2
<1>4. CASE pc \in Closing
  BY <1>1, <1>4 DEF AnswerInv, Relays
<1>5. CASE pc = "page"
  <2>1. AnswerDue \in 0 .. AnswerDue
    BY <1>2
  <2> QED BY <1>1, <1>5, <2>1 DEF AnswerInv, Relays
<1>6. CASE pc \notin {"relay", "pass", "page"} \cup Closing
  BY <1>1, <1>6 DEF AnswerInv
<1> QED BY <1>3, <1>4, <1>5, <1>6

(* The client gets one answer, whatever fails and wherever.                *)
THEOREM OneAnswerHolds == Spec => []OneAnswer
<1>1. HandlerInv => OneAnswer
  <2> SUFFICES ASSUME HandlerInv PROVE OneAnswer
    OBVIOUS
  <2>0. AnswerDue \in 0 .. MaxBody /\ MaxBody \in Nat /\ AnswerInv
    BY PeerFacts, HandlerAssumption DEF HandlerInv
  <2>1. ASSUME NEW i \in DOMAIN toClient
        PROVE  /\ toClient[i][1] = "head" => i = 1
               /\ toClient[i][1] = "page" =>
                    /\ i = Len(toClient)
                    /\ i > 1 => toClient[i][2] = 502 /\ response.end = "reset"
    <3>1. CASE toClient = <<>>
      BY <2>1, <3>1
    <3>2. ASSUME NEW code \in {400, 500, 502, 505}, toClient = <<<<"page", code>>>>
          PROVE  i = 1 /\ Len(toClient) = 1 /\ toClient[i][1] = "page"
      BY <2>1, <3>2
    <3>3. ASSUME NEW n \in 0 .. AnswerDue, toClient = Answered(n)
          PROVE  (toClient[i][1] = "head" => i = 1) /\ toClient[i][1] # "page"
      BY <2>0, <2>1, <3>3 DEF Answered
    <3>4. ASSUME NEW n \in 0 .. AnswerDue,
                 toClient = Append(Answered(n), <<"page", 502>>)
          PROVE  /\ toClient[i][1] = "head" => i = 1
                 /\ toClient[i][1] = "page" => i = Len(toClient) /\ toClient[i][2] = 502
      <4>1. PICK p \in Piece, m \in Nat : p = <<"page", 502>> /\ m = n
        <5>1. <<"page", 502>> \in Piece /\ n \in Nat
          BY <2>0 DEF Piece
        <5> QED BY <5>1
      <4>2. /\ Len(toClient) = n + 2 /\ i \in 1 .. n + 2
            /\ toClient[i] = IF i = n + 2 THEN p ELSE Answered(n)[i]
        <5>1. /\ Len(Append(Answered(m), p)) = m + 2
              /\ DOMAIN Append(Answered(m), p) = 1 .. m + 2
              /\ \A k \in 1 .. m + 2 :
                   Append(Answered(m), p)[k] = IF k = m + 2 THEN p ELSE Answered(m)[k]
          BY AnsweredAppend
        <5>2. toClient = Append(Answered(m), p)
          BY <3>4, <4>1
        <5> QED BY <2>1, <4>1, <5>1, <5>2
      <4>3. CASE i = n + 2
        BY <4>1, <4>2, <4>3
      <4>4. CASE i # n + 2
        <5>1. i \in 1 .. n + 1
          BY <4>1, <4>2, <4>4
        <5> QED BY <4>2, <4>4, <5>1 DEF Answered
      <4> QED BY <4>3, <4>4
    <3>5. CASE \E n \in 0 .. AnswerDue :
                 \/ toClient = Answered(n)
                 \/ /\ response.end = "reset"
                    /\ toClient = Append(Answered(n), <<"page", 502>>)
      <4>1. PICK n \in 0 .. AnswerDue :
                 \/ toClient = Answered(n)
                 \/ /\ response.end = "reset"
                    /\ toClient = Append(Answered(n), <<"page", 502>>)
        BY <3>5
      <4> QED BY <3>3, <3>4, <4>1
    <3>6. CASE \E code \in {400, 500, 502, 505} : toClient = <<<<"page", code>>>>
      BY <3>2, <3>6
    <3>7. \/ toClient = <<>>
          \/ \E code \in {400, 500, 502, 505} : toClient = <<<<"page", code>>>>
          \/ \E n \in 0 .. AnswerDue :
               \/ toClient = Answered(n)
               \/ /\ response.end = "reset"
                  /\ toClient = Append(Answered(n), <<"page", 502>>)
      BY WhatWasSent
    <3> QED BY <3>1, <3>5, <3>6, <3>7
  <2>2. broken => pc \in {"closeHost", "closeClient", "done"}
    BY <2>0 DEF AnswerInv, Closing
  <2>3. pc = "done" /\ ~broken /\ toClient = <<>> => NothingToSay
    <3> SUFFICES ASSUME pc = "done", ~broken, toClient = <<>> PROVE NothingToSay
      OBVIOUS
    <3>1. ASSUME NEW n \in 0 .. AnswerDue PROVE Answered(n) # <<>>
      BY <2>0, AnsweredLen, EmptySeq
    <3>2. ASSUME NEW n \in 0 .. AnswerDue
          PROVE  Append(Answered(n), <<"page", 502>>) # <<>>
      <4>1. PICK p \in Piece, m \in Nat : p = <<"page", 502>> /\ m = n
        <5>1. <<"page", 502>> \in Piece /\ n \in Nat
          BY <2>0 DEF Piece
        <5> QED BY <5>1
      <4>2. Len(Append(Answered(m), p)) = m + 2
        BY AnsweredAppend
      <4> QED BY <4>1, <4>2, EmptySeq, SMTT(30)
    <3>3. \A code : <<<<"page", code>>>> # <<>>
      OBVIOUS
    <3> QED BY <2>0, <3>1, <3>2, <3>3 DEF AnswerInv, Closing
  <2> QED BY <2>1, <2>2, <2>3 DEF OneAnswer, NothingToSay
<1> QED BY <1>1, HandlerInvHolds, PTL

(* Both bodies are relayed in order, without gap or excess, and completely *)
(* when no write failed.                                                   *)
THEOREM RelayExactHolds == Spec => []RelayExact
<1>1. HandlerInv => RelayExact
  <2> SUFFICES ASSUME HandlerInv PROVE RelayExact
    OBVIOUS
  <2>0. /\ AnswerDue \in 0 .. MaxBody /\ MaxBody \in Nat
        /\ TypeOK /\ UploadInv /\ UploadDue \in 0 .. MaxBody
    BY PeerFacts, HandlerAssumption DEF HandlerInv
  <2>1. uploaded = Units(0, Len(uploaded)) /\ Len(uploaded) <= UploadDue
    BY <2>0 DEF UploadInv
  <2> DEFINE Ended == pc = "done" /\ ~broken /\ toClient # <<>> /\ toClient[1][1] = "head"
             Exact(n) == /\ Relayed = 2 .. n + 1
                         /\ \A i \in Relayed : toClient[i][2] = i - 1
                         /\ Ended => n = AnswerDue /\ Len(uploaded) = UploadDue
  <2>2. ASSUME toClient = <<>> PROVE Exact(0)
    <3>1. Relayed = {}
      BY <2>2 DEF Relayed
    <3> QED BY <2>2, <3>1
  <2>3. ASSUME NEW code \in {400, 500, 502, 505}, toClient = <<<<"page", code>>>>
        PROVE  Exact(0)
    <3>1. Relayed = {} /\ toClient[1][1] = "page"
      BY <2>3 DEF Relayed
    <3> QED BY <3>1
  <2>4. ASSUME NEW n \in 0 .. AnswerDue,
               pc = "done" /\ ~broken => n = AnswerDue /\ Len(uploaded) = UploadDue,
               \/ toClient = Answered(n)
               \/ toClient = Append(Answered(n), <<"page", 502>>)
        PROVE  Exact(n)
    <3>1. PICK p \in Piece, m \in Nat : p = <<"page", 502>> /\ m = n
      <4>1. <<"page", 502>> \in Piece /\ n \in Nat
        BY <2>0 DEF Piece
      <4> QED BY <4>1
    <3>2. PICK k \in {m + 1, m + 2} :
            /\ DOMAIN toClient = 1 .. k
            /\ \A i \in 1 .. k : toClient[i] = IF i = m + 2 THEN p ELSE Answered(m)[i]
      <4>1. CASE toClient = Answered(n)
        BY <3>1, <4>1 DEF Answered
      <4>2. CASE toClient = Append(Answered(n), <<"page", 502>>)
        <5>1. /\ DOMAIN Append(Answered(m), p) = 1 .. m + 2
              /\ \A i \in 1 .. m + 2 :
                   Append(Answered(m), p)[i] = IF i = m + 2 THEN p ELSE Answered(m)[i]
          BY AnsweredAppend
        <5>2. toClient = Append(Answered(m), p)
          BY <3>1, <4>2
        <5> QED BY <5>1, <5>2
      <4> QED BY <2>4, <4>1, <4>2
    <3>3. \A i \in 1 .. k : /\ toClient[i][1] = "body" <=> i \in 2 .. m + 1
                            /\ i \in 2 .. m + 1 => toClient[i][2] = i - 1
      <4> SUFFICES ASSUME NEW i \in 1 .. k
                   PROVE  /\ toClient[i][1] = "body" <=> i \in 2 .. m + 1
                          /\ i \in 2 .. m + 1 => toClient[i][2] = i - 1
        OBVIOUS
      <4>1. CASE i = m + 2
        BY <3>1, <3>2, <4>1
      <4>2. CASE i = 1
        <5>1. i # m + 2 /\ i \in 1 .. m + 1
          BY <4>2
        <5>2. toClient[i] = Answered(m)[i]
          BY <3>2, <5>1
        <5>3. toClient[i] = <<"head", 0>>
          BY <4>2, <5>1, <5>2 DEF Answered
        <5> QED BY <4>2, <5>3
      <4>3. CASE i \in 2 .. m + 1
        <5>1. i # m + 2 /\ i \in 1 .. m + 1 /\ i # 1
          BY <4>3
        <5>2. toClient[i] = Answered(m)[i]
          BY <3>2, <5>1
        <5>3. toClient[i] = <<"body", i - 1>>
          BY <5>1, <5>2 DEF Answered
        <5> QED BY <4>3, <5>3
      <4> QED BY <3>2, <4>1, <4>2, <4>3
    <3>4. Relayed = 2 .. m + 1
      BY <3>2, <3>3 DEF Relayed
    <3> QED BY <2>4, <3>1, <3>2, <3>3, <3>4
  <2>5. \E n \in 0 .. AnswerDue : Exact(n)
    <3>1. 0 \in 0 .. AnswerDue
      BY <2>0
    <3> HIDE DEF Exact
    <3> QED BY <2>2, <2>3, <2>4, <3>1, WhatWasSent
  <2> QED BY <2>0, <2>1, <2>5 DEF RelayExact
<1> QED BY <1>1, HandlerInvHolds, PTL

(* The request line that reaches the server, by the blanks in the client's.*)
THEOREM ForwardsOriginFormHolds == Spec => []ForwardsOriginForm
<1>1. HandlerInv => ForwardsOriginForm
  BY PeerFacts, RewriteForm DEF HandlerInv, ForwardsOriginForm
<1> QED BY <1>1, HandlerInvHolds, PTL

-----------------------------------------------------------------------------
(* How long a handler can go on.                                           *)

(* The steps a handler has left at most, at place p with n units read and  *)
(* g of them not written: a unit of body costs two steps, one to read and  *)
(* one to write it.                                                        *)
StepsAt(p, n, g) ==
  CASE p = "start" -> 4 * MaxBody + 12
    [] p = "parse" -> 4 * MaxBody + 11
    [] p = "socket" -> 4 * MaxBody + 10
    [] p = "connect" -> 4 * MaxBody + 9
    [] p = "forward" -> 4 * MaxBody + 8
    [] p \in {"body", "passBody"} -> 4 * MaxBody - 2 * n + g + 7
    [] p = "answer" -> 2 * MaxBody + 6
    [] p = "passHead" -> 2 * MaxBody + 5
    [] p \in {"relay", "pass"} -> 2 * MaxBody - 2 * n + g + 4
    [] p = "page" -> 3
    [] p = "closeHost" -> 2
    [] p = "closeClient" -> 1
    [] OTHER -> 0

(* A handler whose peer no longer reads takes no step any more.            *)
StepsLeft == IF stalled THEN 0 ELSE StepsAt(pc, x, got)

(* StepsAt, place by place.                                                *)
LEMMA StepsAtPlaces ==
  ASSUME NEW n \in 0 .. MaxBody, NEW g \in 0 .. MaxBody
  PROVE  /\ StepsAt("start", n, g) = 4 * MaxBody + 12
         /\ StepsAt("parse", n, g) = 4 * MaxBody + 11
         /\ StepsAt("socket", n, g) = 4 * MaxBody + 10
         /\ StepsAt("connect", n, g) = 4 * MaxBody + 9
         /\ StepsAt("forward", n, g) = 4 * MaxBody + 8
         /\ StepsAt("body", n, g) = 4 * MaxBody - 2 * n + g + 7
         /\ StepsAt("passBody", n, g) = 4 * MaxBody - 2 * n + g + 7
         /\ StepsAt("answer", n, g) = 2 * MaxBody + 6
         /\ StepsAt("passHead", n, g) = 2 * MaxBody + 5
         /\ StepsAt("relay", n, g) = 2 * MaxBody - 2 * n + g + 4
         /\ StepsAt("pass", n, g) = 2 * MaxBody - 2 * n + g + 4
         /\ StepsAt("page", n, g) = 3
         /\ StepsAt("closeHost", n, g) = 2
         /\ StepsAt("closeClient", n, g) = 1
         /\ StepsAt("done", n, g) = 0
BY HandlerAssumption DEF StepsAt

(* A read returns units that were not read before, at least one.           *)
LEMMA ReadsMore ==
  ASSUME HandlerInv, ReadBody \/ ReadAnswer
  PROVE  got = 0 /\ got' \in 1 .. MaxBody /\ x' = x + got'
<1>1. /\ x \in 0 .. MaxBody /\ got \in 0 .. MaxBody /\ MaxBody \in Nat
      /\ request.len \in NoLen .. MaxBody /\ request.body \in 0 .. MaxBody
      /\ response.len \in NoLen .. MaxBody /\ response.body \in 0 .. MaxBody
  BY HandlerAssumption, PeerFacts DEF HandlerInv, TypeOK
<1>2. PICK s \in NoLen .. MaxBody : got' \in 1 .. s - x /\ x' = x + got'
  BY <1>1 DEF ReadBody, ReadAnswer, Smaller, NoLen
<1>3. got = 0
  BY DEF ReadBody, ReadAnswer, HandlerInv, UploadInv
<1>4. got' \in 1 .. MaxBody
  BY <1>1, <1>2 DEF NoLen
<1> QED BY <1>2, <1>3, <1>4

(* A turn of write_all writes at least one unit, and leaves its loop when  *)
(* none is left.                                                           *)
LEMMA WritesMore ==
  ASSUME HandlerInv, PassBody \/ Pass
  PROVE  got \in 1 .. MaxBody /\ got' \in 0 .. got - 1 /\ x' = x
<1>1. got \in 0 .. MaxBody /\ MaxBody \in Nat
  BY HandlerAssumption DEF HandlerInv, TypeOK
<1>2. PICK n \in 1 .. got : got' = got - n /\ x' = x
  BY DEF PassBody, Pass
<1> QED BY <1>1, <1>2

(* No step is a step on the spot: each brings the handler closer to its    *)
(* end, or to a write that never returns.                                  *)
LEMMA StepCounts ==
  ASSUME HandlerInv, FdsInv, Next
  PROVE  StepsLeft' < StepsLeft
<1>0. /\ MaxBody \in Nat /\ x \in 0 .. MaxBody /\ x' \in 0 .. MaxBody
      /\ got \in 0 .. MaxBody /\ got' \in 0 .. MaxBody
  BY HandlerAssumption, TypeStep DEF HandlerInv, TypeOK
<1> DEFINE after(p) == StepsAt(p, x', got')
           before(p) == StepsAt(p, x, got)
<1>1. /\ after("parse") < before("start") /\ after("closeClient") < before("start")
      /\ after("socket") < before("parse") /\ after("page") < before("parse")
      /\ after("connect") < before("socket") /\ after("closeClient") < before("socket")
      /\ after("forward") < before("connect") /\ after("page") < before("connect")
  BY <1>0, StepsAtPlaces
<1>c. /\ MaxBody \in Int /\ 0 <= MaxBody
      /\ x \in Int /\ 0 <= x /\ x <= MaxBody /\ x' \in Int
      /\ got \in Int /\ 0 <= got /\ got' \in Int
  BY <1>0
<1>a. /\ before("body") = 4 * MaxBody - 2 * x + got + 7
      /\ before("passBody") = 4 * MaxBody - 2 * x + got + 7
      /\ before("relay") = 2 * MaxBody - 2 * x + got + 4
      /\ before("pass") = 2 * MaxBody - 2 * x + got + 4
      /\ before("forward") = 4 * MaxBody + 8 /\ before("answer") = 2 * MaxBody + 6
      /\ before("passHead") = 2 * MaxBody + 5
  BY <1>0, StepsAtPlaces
<1>b. /\ after("body") = 4 * MaxBody - 2 * x' + got' + 7
      /\ after("passBody") = 4 * MaxBody - 2 * x' + got' + 7
      /\ after("relay") = 2 * MaxBody - 2 * x' + got' + 4
      /\ after("pass") = 2 * MaxBody - 2 * x' + got' + 4
      /\ after("answer") = 2 * MaxBody + 6 /\ after("passHead") = 2 * MaxBody + 5
      /\ after("page") = 3 /\ after("closeHost") = 2
  BY <1>0, StepsAtPlaces
<1> HIDE DEF after, before
<1>2. /\ x' = 0 /\ got' = 0 => after("body") < before("forward")
      /\ after("page") < before("forward")
      /\ x' = x /\ got' < got => after("body") < before("passBody")
                                  /\ after("passBody") < before("passBody")
      /\ after("page") < before("passBody")
      /\ got = 0 /\ got' >= 1 /\ x' = x + got' => after("passBody") < before("body")
      /\ after("answer") < before("body") /\ after("page") < before("body")
  <2>1. /\ x' = 0 /\ got' = 0 => after("body") < before("forward")
        /\ after("page") < before("forward")
    BY <1>c, <1>a, <1>b
  <2>2. x' = x /\ got' < got => after("body") < before("passBody")
                              /\ after("passBody") < before("passBody")
    BY <1>c, <1>a, <1>b
  <2>3. after("page") < before("passBody")
    BY <1>c, <1>a, <1>b
  <2>4. got = 0 /\ got' >= 1 /\ x' = x + got' => after("passBody") < before("body")
    BY <1>c, <1>a, <1>b
  <2>5. after("answer") < before("body") /\ after("page") < before("body")
    BY <1>c, <1>a, <1>b
  <2> QED BY <2>1, <2>2, <2>3, <2>4, <2>5
<1>3. /\ after("passHead") < before("answer")
      /\ x' = 0 /\ got' = 0 => after("relay") < before("passHead")
      /\ after("closeHost") < before("passHead")
      /\ got = 0 /\ got' >= 1 /\ x' = x + got' => after("pass") < before("relay")
      /\ after("closeHost") < before("relay") /\ after("page") < before("relay")
      /\ x' = x /\ got' < got => after("relay") < before("pass")
                                  /\ after("pass") < before("pass")
      /\ after("closeHost") < before("pass")
  <2>1. /\ after("passHead") < before("answer")
        /\ x' = 0 /\ got' = 0 => after("relay") < before("passHead")
        /\ after("closeHost") < before("passHead")
    BY <1>c, <1>a, <1>b
  <2>2. got = 0 /\ got' >= 1 /\ x' = x + got' => after("pass") < before("relay")
    BY <1>c, <1>a, <1>b
  <2>3. after("closeHost") < before("relay") /\ after("page") < before("relay")
    BY <1>c, <1>a, <1>b
  <2>4. x' = x /\ got' < got => after("relay") < before("pass")
                              /\ after("pass") < before("pass")
    BY <1>c, <1>a, <1>b
  <2>5. after("closeHost") < before("pass")
    BY <1>c, <1>a, <1>b
  <2> QED BY <2>1, <2>2, <2>3, <2>4, <2>5
<1> USE DEF after, before
<1>4. /\ after("closeHost") < before("page") /\ after("closeClient") < before("page")
      /\ after("closeClient") < before("closeHost") /\ after("done") < before("closeClient")
  BY <1>0, StepsAtPlaces
<1>5. /\ ~stalled' => StepsLeft' = after(pc')
      /\ ~stalled => StepsLeft = before(pc)
  BY DEF StepsLeft
<1>6. CASE Stall
  <2>1. StepsLeft' = 0 /\ ~stalled
        /\ pc \in {"forward", "passBody", "passHead", "pass", "page"}
    BY <1>6 DEF Stall, StepsLeft
  <2>2. /\ 0 < before("forward") /\ 0 < before("passBody") /\ 0 < before("passHead")
        /\ 0 < before("pass") /\ 0 < before("page")
    BY <1>0, StepsAtPlaces
  <2> HIDE DEF before
  <2> QED BY <1>5, <2>1, <2>2
<1> HIDE DEF after, before
<1>7. CASE ReadsRequest
  BY <1>1, <1>5, <1>7
     DEF ReadsRequest, ReadRequest, Reject, Accept, SocketFails, SocketOpens,
         Unreachable, Connects
<1>8. CASE SendsRequest
  <2>1. CASE Forward
    <3>1. x = 0 /\ got = 0
      BY <2>1 DEF Forward, HandlerInv, UploadInv, Early
    <3> QED BY <1>2, <1>5, <2>1, <3>1 DEF Forward
  <2>2. CASE ReadBody
    <3>1. got' >= 1
      BY <1>0, <2>2, ReadsMore
    <3> QED BY <1>2, <1>5, <2>2, <3>1, ReadsMore DEF ReadBody
  <2>3. CASE PassBody
    <3>1. got' < got
      BY <1>0, <2>3, WritesMore
    <3> QED BY <1>2, <1>5, <2>3, <3>1, WritesMore DEF PassBody
  <2> QED BY <1>2, <1>5, <1>8, <2>1, <2>2, <2>3
          DEF SendsRequest, ForwardFails, BodyDone, ReadBodyEof, ReadBodyFails,
              PassBodyFails
<1>9. CASE RelaysAnswer
  <2>1. CASE ReadAnswer
    <3>1. got' >= 1
      BY <1>0, <2>1, ReadsMore
    <3> QED BY <1>3, <1>5, <2>1, <3>1, ReadsMore DEF ReadAnswer
  <2>2. CASE Pass
    <3>1. got' < got
      BY <1>0, <2>2, WritesMore
    <3> QED BY <1>3, <1>5, <2>2, <3>1, WritesMore DEF Pass
  <2> QED BY <1>3, <1>5, <1>9, <2>1, <2>2
          DEF RelaysAnswer, ReadHead, PassHead, PassHeadFails, RelayDone,
              ReadAnswerEof, ReadAnswerFails, PassFails, data
<1>10. CASE SendPage \/ CloseHost \/ CloseClient
  BY <1>4, <1>5, <1>10 DEF SendPage, CloseHost, CloseClient
<1> QED BY <1>6, <1>7, <1>8, <1>9, <1>10 DEF Next

(* A handler makes at most 4 * MaxBody + 12 steps, whatever its peers do:  *)
(* no read or write in it can be tried for ever.  With the fact that it    *)
(* can step where no peer keeps it, this is Settles.                       *)
THEOREM HandlerIsBounded ==
  Spec => /\ [](StepsLeft \in 0 .. 4 * MaxBody + 12)
          /\ [][StepsLeft' < StepsLeft]_vars
<1>1. HandlerInv => StepsLeft \in 0 .. 4 * MaxBody + 12
  <2> SUFFICES ASSUME HandlerInv PROVE StepsAt(pc, x, got) \in 0 .. 4 * MaxBody + 12
    BY HandlerAssumption DEF StepsLeft
  <2>1. /\ MaxBody \in Nat /\ x \in 0 .. MaxBody /\ got \in 0 .. MaxBody
        /\ pc \in {"body", "passBody", "relay", "pass"} => got <= x
    BY HandlerAssumption, PeerFacts DEF HandlerInv, TypeOK, UploadInv, AnswerInv
  <2> DEFINE few(p) == StepsAt(p, x, got) \in 0 .. 4 * MaxBody + 12
  <2>2. /\ few("start") /\ few("parse") /\ few("socket") /\ few("connect")
        /\ few("forward") /\ few("answer") /\ few("passHead") /\ few("page")
        /\ few("closeHost") /\ few("closeClient") /\ few("done")
        /\ got <= x => few("passBody") /\ few("body") /\ few("pass") /\ few("relay")
    BY <2>1, StepsAtPlaces
  <2>3. few(pc)
    <3> HIDE DEF few
    <3> QED BY <2>1, <2>2 DEF HandlerInv, TypeOK
  <2> QED BY <2>3
<1>2. HandlerInv /\ FdsInv /\ [Next]_vars => [StepsLeft' < StepsLeft]_vars
  BY StepCounts
<1> QED BY <1>1, <1>2, HandlerInvHolds, PTL DEF Spec

(* A handler that waits for a silent peer, or for one that does not read,  *)
(* waits for ever, with the descriptor of its client open: nothing in the  *)
(* code ends a read or a write.                                            *)
THEOREM HeldForEver ==
  Spec => [](WaitsForPeer => [](WaitsForPeer /\ fds.client = "open"))
<1>1. FdsInv /\ WaitsForPeer => fds.client = "open"
  BY DEF FdsInv, WaitsForPeer, Starved
<1>2. HandlerInv /\ WaitsForPeer /\ [Next]_vars => WaitsForPeer'
  <2>1. stalled /\ [Next]_vars => stalled'
    BY DEF Next, ReadsRequest, ReadRequest, Reject, Accept, SocketFails, SocketOpens,
           Unreachable, Connects, SendsRequest, Forward, ForwardFails, BodyDone,
           ReadBody, ReadBodyEof, ReadBodyFails, PassBody, PassBodyFails, RelaysAnswer,
           ReadHead, PassHead, PassHeadFails, RelayDone, ReadAnswer, ReadAnswerEof,
           ReadAnswerFails, Pass, PassFails, SendPage, CloseHost, CloseClient, Stall,
           vars
  <2>2. ASSUME HandlerInv, Starved, ~stalled, [Next]_vars PROVE UNCHANGED vars
    <3>0. /\ MaxBody \in Nat /\ x \in 0 .. MaxBody /\ got \in 0 .. MaxBody
          /\ request.len \in NoLen .. MaxBody /\ request.body \in 0 .. MaxBody
          /\ response.len \in NoLen .. MaxBody /\ response.body \in 0 .. MaxBody
      BY <2>2, HandlerAssumption, PeerFacts DEF HandlerInv, TypeOK
    <3>1. ~ReadsRequest /\ ~SendPage /\ ~CloseHost /\ ~CloseClient /\ ~Stall
      BY <2>2 DEF Starved, ReadsRequest, ReadRequest, Reject, Accept, SocketFails,
                  SocketOpens, Unreachable, Connects, SendPage, CloseHost, CloseClient,
                  Stall
    <3>2. ~SendsRequest
      BY <2>2, <3>0 DEF Starved, SendsRequest, Forward, ForwardFails, BodyDone,
                        ReadBody, ReadBodyEof, ReadBodyFails, PassBody, PassBodyFails,
                        Smaller, NoLen
    <3>3. ~RelaysAnswer
      BY <2>2, <3>0 DEF Starved, RelaysAnswer, ReadHead, PassHead, PassHeadFails,
                        RelayDone, WantsMore, ReadAnswer, ReadAnswerEof,
                        ReadAnswerFails, Pass, PassFails, Smaller, NoLen
    <3> QED BY <2>2, <3>1, <3>2, <3>3 DEF Next
  <2>3. Starved /\ UNCHANGED vars => Starved'
    BY DEF Starved, Answers, vars
  <2> QED BY <2>1, <2>2, <2>3 DEF WaitsForPeer
<1> QED BY <1>1, <1>2, HandlerInvHolds, PTL DEF Spec
=============================================================================

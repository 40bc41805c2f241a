------------------------- MODULE GuardedQueueProofs -------------------------
(***************************************************************************)
(* What is proved once for all queues of Synchronization/2.2, for every    *)
(* heap, every MaxCount and every number of calls.  First the list surgery *)
(* of queue_add, queue_get and queue_destroy: what it does to a well-      *)
(* formed list.  Then QueueStep, a bound on what a step of such a queue    *)
(* may do to the variables of GuardedQueue: it keeps QueueInv and it is a  *)
(* step of the bounded FIFO buffer or changes nothing the buffer shows.    *)
(* The proofs about the three queues only have to show that their steps    *)
(* are QueueSteps.                                                         *)
(*                                                                         *)
(* The last two sections are about the end of the program: a weight for    *)
(* the steps that are left after the stop, and who is blocked.             *)
(***************************************************************************)
EXTENDS GuardedQueue, Sequences, FiniteSetTheorems, WellFoundedInduction,
        TLAPS

-----------------------------------------------------------------------------
(* The list.                                                               *)

(* The surgery keeps the types of the list fields.                         *)
ListTypeOK ==
  /\ first \in Nodes \cup {NULL} /\ last \in Nodes \cup {NULL}
  /\ heap \subseteq Nodes
  /\ val \in [heap -> Int] /\ next \in [heap -> Nodes \cup {NULL}]

(* Linking a new node ...                                                  *)
LEMMA LinkNodeType ==
  ASSUME ListTypeOK, NEW n \in Nodes, NEW v \in Int, LinkNode(n, v)
  PROVE  ListTypeOK'
BY DEF ListTypeOK, LinkNode, Allocate

(* ... unlinking the head, whose value is a number ...                     *)
LEMMA UnlinkFirstType ==
  ASSUME ListTypeOK, first \in heap, UnlinkFirst
  PROVE  ListTypeOK' /\ val[first] \in Int
BY DEF ListTypeOK, UnlinkFirst, Free

(* ... and freeing any node.                                               *)
LEMMA FreeType ==
  ASSUME ListTypeOK, NEW n \in heap, Free(n)
  PROVE  /\ heap' \subseteq Nodes
         /\ val' \in [heap' -> Int] /\ next' \in [heap' -> Nodes \cup {NULL}]
         /\ next[n] \in Nodes \cup {NULL}
BY DEF ListTypeOK, Free

(* A list from lo up to lo has no node, and any other list has a head.     *)
LEMMA ChainEmpty ==
  ASSUME NEW h, NEW v, NEW nx, NEW head, NEW lo \in Int, NEW hi \in Int,
         IsChain(h, v, nx, head, lo, hi), NULL \notin h
  PROVE  /\ lo = hi => h = {}
         /\ head = NULL <=> lo = hi
<1>1. lo = hi => h = {}
  BY DEF IsChain
<1>2. head = NULL <=> lo = hi
  BY DEF IsChain
<1> QED BY <1>1, <1>2

(* The tail of a list that is not empty is one of its nodes.               *)
LEMMA TailIsLive ==
  ASSUME NEW lo, NEW hi, ListHolds(lo, hi)
  PROVE  first = NULL \/ last \in heap
BY DEF ListHolds, IsChain, IsTail

(* Linking a node that carries the next value extends the list at its end. *)
LEMMA LinkNodeExtends ==
  ASSUME ListTypeOK, NEW lo \in Int, NEW hi \in Int, lo <= hi,
         ListHolds(lo, hi), NEW n \in Nodes, LinkNode(n, hi)
  PROVE  /\ IsChain(heap', val', next', first', lo, hi + 1)
         /\ IsTail(heap', val', last', lo, hi + 1)
<1> DEFINE h == heap \cup {n}
<1>1. /\ n \notin heap /\ heap' = h
      /\ val' = [m \in h |-> IF m = n THEN hi ELSE val[m]]
      /\ first' = IF first = NULL THEN n ELSE first
      /\ last' = n
      /\ next' = [m \in h |-> IF first # NULL /\ m = last THEN n
                              ELSE IF m = n THEN NULL
                              ELSE next[m]]
  BY DEF LinkNode, Allocate
<1>2. NULL \notin heap /\ n # NULL
  BY QueueDataAssumption DEF ListTypeOK
<1>3. /\ \A m \in heap : val[m] \in lo .. (hi - 1)
      /\ \A m, k \in heap : val[m] = val[k] => m = k
      /\ \A m \in heap : IF val[m] = hi - 1
                         THEN next[m] = NULL
                         ELSE next[m] \in heap /\ val[next[m]] = val[m] + 1
      /\ IF lo = hi THEN first = NULL ELSE first \in heap /\ val[first] = lo
      /\ IF lo = hi THEN last = NULL ELSE last \in heap /\ val[last] = hi - 1
  BY DEF ListHolds, IsChain, IsTail
<1>4. val'[n] = hi /\ \A m \in heap : val'[m] = val[m] /\ val[m] \in Int /\ val[m] < hi
  BY <1>1, <1>3
<1>5. \A m \in heap' : val'[m] \in lo .. ((hi + 1) - 1)
  BY <1>1, <1>3, <1>4
<1>6. \A m, k \in heap' : val'[m] = val'[k] => m = k
  BY <1>1, <1>3, <1>4
<1>7. ASSUME NEW m \in heap'
      PROVE  IF val'[m] = (hi + 1) - 1
             THEN next'[m] = NULL
             ELSE next'[m] \in heap' /\ val'[next'[m]] = val'[m] + 1
  <2>1. CASE m = n
    <3>1. first # NULL => m # last
      BY <2>1, <1>1, TailIsLive
    <3> QED BY <2>1, <3>1, <1>1, <1>4
  <2>2. CASE m # n /\ val[m] = hi - 1
    <3>1. m \in heap /\ lo # hi
      BY <2>2, <1>1, <1>3
    <3>2. m = last /\ first # NULL
      BY <3>1, <2>2, <1>2, <1>3
    <3>3. next'[m] = n
      BY <3>1, <3>2, <2>2, <1>1
    <3> QED BY <3>1, <3>3, <2>2, <1>1, <1>4
  <2>3. CASE m # n /\ val[m] # hi - 1
    <3>1. m \in heap /\ lo # hi
      BY <2>3, <1>1, <1>3
    <3>2. m # last
      BY <3>1, <2>3, <1>3
    <3>3. next'[m] = next[m]
      BY <3>1, <3>2, <2>3, <1>1
    <3> QED BY <3>1, <3>3, <2>3, <1>1, <1>3, <1>4
  <2> QED BY <2>1, <2>2, <2>3
<1>8. lo # hi + 1 /\ first' \in heap' /\ val'[first'] = lo
  <2>1. CASE lo = hi
    BY <2>1, <1>1, <1>3, <1>4
  <2>2. CASE lo # hi
    BY <2>2, <1>1, <1>2, <1>3, <1>4
  <2> QED BY <2>1, <2>2
<1>9. IsChain(heap', val', next', first', lo, hi + 1)
  BY <1>5, <1>6, <1>7, <1>8 DEF IsChain
<1>10. IsTail(heap', val', last', lo, hi + 1)
  BY <1>1, <1>4, <1>8 DEF IsTail
<1> QED BY <1>9, <1>10

(* Freeing the head of a list leaves the list that starts behind it.       *)
LEMMA FreeHeadShortens ==
  ASSUME ListTypeOK, NEW head, NEW lo \in Int, NEW hi \in Int, lo < hi,
         IsChain(heap, val, next, head, lo, hi), Free(head)
  PROVE  IsChain(heap', val', next', next[head], lo + 1, hi)
<1>1. /\ heap' = heap \ {head}
      /\ val' = [m \in heap \ {head} |-> val[m]]
      /\ next' = [m \in heap \ {head} |-> next[m]]
  BY DEF Free
<1>2. /\ \A m \in heap : val[m] \in lo .. (hi - 1)
      /\ \A m, k \in heap : val[m] = val[k] => m = k
      /\ \A m \in heap : IF val[m] = hi - 1
                         THEN next[m] = NULL
                         ELSE next[m] \in heap /\ val[next[m]] = val[m] + 1
      /\ head \in heap /\ val[head] = lo
  BY DEF IsChain
<1>3. \A m \in heap' : m \in heap /\ val'[m] = val[m] /\ next'[m] = next[m]
                         /\ val[m] # lo /\ val[m] \in (lo + 1) .. (hi - 1)
  BY <1>1, <1>2
<1>4. \A m, k \in heap' : val'[m] = val'[k] => m = k
  BY <1>2, <1>3
<1>5. ASSUME NEW m \in heap'
      PROVE  IF val'[m] = hi - 1
             THEN next'[m] = NULL
             ELSE next'[m] \in heap' /\ val'[next'[m]] = val'[m] + 1
  <2>1. CASE val[m] = hi - 1
    BY <2>1, <1>2, <1>3
  <2>2. CASE val[m] # hi - 1
    <3>1. next[m] \in heap /\ val[next[m]] = val[m] + 1
      BY <2>2, <1>2, <1>3
    <3>2. next[m] # head
      BY <3>1, <1>2, <1>3
    <3>3. next[m] \in heap'
      BY <3>1, <3>2, <1>1
    <3> QED BY <2>2, <3>1, <3>3, <1>3
  <2> QED BY <2>1, <2>2
<1>6. IF lo + 1 = hi THEN next[head] = NULL
      ELSE next[head] \in heap' /\ val'[next[head]] = lo + 1
  <2>1. CASE lo + 1 = hi
    BY <2>1, <1>2
  <2>2. CASE lo + 1 # hi
    <3>1. next[head] \in heap /\ val[next[head]] = lo + 1
      BY <2>2, <1>2
    <3>2. next[head] \in heap'
      BY <3>1, <1>1, <1>2
    <3> QED BY <2>2, <3>1, <3>2, <1>3
  <2> QED BY <2>1, <2>2
<1> QED BY <1>3, <1>4, <1>5, <1>6 DEF IsChain

(* queue_get's surgery takes the oldest value away and keeps both ends     *)
(* right, the reset of q->last included.                                   *)
LEMMA UnlinkFirstShortens ==
  ASSUME ListTypeOK, NEW lo \in Int, NEW hi \in Int, lo < hi,
         ListHolds(lo, hi), UnlinkFirst
  PROVE  /\ IsChain(heap', val', next', first', lo + 1, hi)
         /\ IsTail(heap', val', last', lo + 1, hi)
<1>1. /\ first' = next[first]
      /\ last' = IF next[first] = NULL THEN NULL ELSE last
      /\ Free(first)
  BY DEF UnlinkFirst
<1>2. IsChain(heap', val', next', first', lo + 1, hi)
  BY <1>1, FreeHeadShortens DEF ListHolds
<1>3. /\ first \in heap /\ val[first] = lo /\ last \in heap /\ val[last] = hi - 1
      /\ IF lo = hi - 1 THEN next[first] = NULL ELSE next[first] \in heap
  BY DEF ListHolds, IsChain, IsTail
<1>4. NULL \notin heap
  BY QueueDataAssumption DEF ListTypeOK
<1>5. IsTail(heap', val', last', lo + 1, hi)
  <2>1. CASE lo + 1 = hi
    BY <2>1, <1>1, <1>3 DEF IsTail
  <2>2. CASE lo + 1 # hi
    <3>1. last' = last /\ last # first
      BY <2>2, <1>1, <1>3, <1>4
    <3>2. last \in heap' /\ val'[last] = val[last]
      BY <3>1, <1>1, <1>3 DEF Free
    <3> QED BY <2>2, <3>1, <3>2, <1>3 DEF IsTail
  <2> QED BY <2>1, <2>2
<1> QED BY <1>2, <1>5

(* The values lo, lo+1, ..., hi-1 in this order.                           *)
Interval(lo, hi) == [k \in 1 .. (hi - lo) |-> lo + k - 1]

(* Every nonempty set of naturals has a least element.                     *)
LEMMA LeastElement ==
  ASSUME NEW S \in SUBSET Nat, S # {}
  PROVE  \E m \in S : \A n \in S : m <= n
<1>1. PICK m \in S : \A n \in S : ~(<<n, m>> \in OpToRel(<, Nat))
  BY WFMin, NatLessThanWellFounded, Zenon
<1>2. \A n \in S : ~(n < m)
  BY <1>1, Zenon DEF OpToRel
<1>3. \A n \in S : m <= n
  BY <1>2
<1> QED BY <1>3

(* A list from lo to hi has a node for every value in between.             *)
LEMMA ChainIsFull ==
  ASSUME NEW h, NEW v \in [h -> Int], NEW nx, NEW head, NEW lo \in Int, NEW hi \in Int,
         IsChain(h, v, nx, head, lo, hi)
  PROVE  \A x \in lo .. (hi - 1) : \E n \in h : v[n] = x
<1> DEFINE Missing == {k \in Nat : lo + k < hi /\ ~\E n \in h : v[n] = lo + k}
<1>1. SUFFICES ASSUME Missing # {} PROVE FALSE
  <2>1. SUFFICES ASSUME NEW x \in lo .. (hi - 1), ~\E n \in h : v[n] = x
                 PROVE  FALSE
    OBVIOUS
  <2>2. x - lo \in Missing
    BY <2>1
  <2> QED BY <2>2, <1>1
<1>2. PICK k \in Missing : \A j \in Missing : k <= j
  BY <1>1, LeastElement
<1>3. k # 0
  BY <1>2 DEF IsChain
<1>4. PICK n \in h : v[n] = lo + (k - 1)
  BY <1>2, <1>3
<1>5. nx[n] \in h /\ v[nx[n]] = lo + k
  BY <1>2, <1>4 DEF IsChain
<1> QED BY <1>2, <1>5

(* A walk along a list of as many nodes as values meets lo, ..., hi-1: the *)
(* recursive function in Contents has a value, and it follows the list.    *)
LEMMA ContentsOf ==
  ASSUME NEW head, NEW lo \in Int, NEW hi \in Int, lo <= hi,
         val \in [heap -> Int],
         IsChain(heap, val, next, head, lo, hi),
         Cardinality(heap) = hi - lo
  PROVE  Contents(head) = Interval(lo, hi)
<1> DEFINE len == Cardinality(heap)
           Walks(f) == f = [k \in 1 .. len |-> IF k = 1 THEN head ELSE next[f[k - 1]]]
           node == CHOOSE f : Walks(f)
<1>1. Contents(head) = [k \in 1 .. len |-> val[node[k]]]
  BY DEF Contents
<1>2. /\ \A m, n \in heap : val[m] = val[n] => m = n
      /\ \A n \in heap : val[n] # hi - 1 => next[n] \in heap /\ val[next[n]] = val[n] + 1
      /\ lo < hi => head \in heap /\ val[head] = lo
  BY DEF IsChain
<1>3. \E f : Walks(f)
  <2> DEFINE g == [k \in 1 .. len |-> CHOOSE n \in heap : val[n] = lo + k - 1]
  <2>1. ASSUME NEW k \in 1 .. len
        PROVE  g[k] \in heap /\ val[g[k]] = lo + k - 1
    <3>1. \E n \in heap : val[n] = lo + k - 1
      BY ChainIsFull
    <3> QED BY <3>1
  <2>2. ASSUME NEW k \in 1 .. len
        PROVE  g[k] = IF k = 1 THEN head ELSE next[g[k - 1]]
    <3>1. CASE k = 1
      BY <3>1, <2>1, <1>2
    <3>2. CASE k # 1
      <4>1. k - 1 \in 1 .. len
        BY <3>2
      <4>2. g[k - 1] \in heap /\ val[g[k - 1]] = lo + (k - 1) - 1
        BY <4>1, <2>1
      <4>3. next[g[k - 1]] \in heap /\ val[next[g[k - 1]]] = lo + k - 1
        BY <4>2, <1>2
      <4> QED BY <4>3, <3>2, <2>1, <1>2
    <3> QED BY <3>1, <3>2
  <2>3. g = [k \in 1 .. len |-> g[k]]
    OBVIOUS
  <2> HIDE DEF g
  <2>4. g = [k \in 1 .. len |-> IF k = 1 THEN head ELSE next[g[k - 1]]]
    BY <2>2, <2>3
  <2> QED BY <2>4
<1>4. Walks(node)
  BY <1>3
<1>5. \A k \in 1 .. len : node[k] = IF k = 1 THEN head ELSE next[node[k - 1]]
  BY <1>4
<1> HIDE DEF node
<1>6. \A k \in 1 .. len : node[k] \in heap /\ val[node[k]] = lo + k - 1
  <2> DEFINE Astray == {k \in 1 .. len : ~(node[k] \in heap /\ val[node[k]] = lo + k - 1)}
  <2>1. SUFFICES ASSUME Astray # {} PROVE FALSE
    OBVIOUS
  <2>0. Astray \in SUBSET Nat
    OBVIOUS
  <2>2. PICK k \in Astray : \A j \in Astray : k <= j
    <3> HIDE DEF Astray
    <3> QED BY <2>0, <2>1, LeastElement
  <2>3. k # 1
    BY <2>2, <1>2, <1>5
  <2>4. node[k - 1] \in heap /\ val[node[k - 1]] = lo + (k - 1) - 1
    BY <2>2, <2>3
  <2>5. node[k] = next[node[k - 1]]
    BY <2>2, <2>3, <1>5
  <2> QED BY <2>2, <2>4, <2>5, <1>2
<1> QED BY <1>1, <1>6 DEF Interval

(* The four ways the buffer changes, seen on intervals.                    *)
LEMMA IntervalSeq ==
  ASSUME NEW lo \in Int, NEW hi \in Int, lo <= hi
  PROVE  /\ Interval(lo, hi) \in Seq(Int) /\ Len(Interval(lo, hi)) = hi - lo
         /\ Interval(lo, hi + 1) = Append(Interval(lo, hi), hi)
         /\ lo = hi <=> Interval(lo, hi) = <<>>
         /\ lo < hi => /\ Head(Interval(lo, hi)) = lo
                       /\ Tail(Interval(lo, hi)) = Interval(lo + 1, hi)
<1>1. Interval(lo, hi) \in Seq(Int) /\ Len(Interval(lo, hi)) = hi - lo
  BY DEF Interval
<1>2. Interval(lo, hi + 1) = Append(Interval(lo, hi), hi)
  BY <1>1 DEF Interval
<1>3. lo = hi <=> Interval(lo, hi) = <<>>
  BY <1>1
<1>4. ASSUME lo < hi
      PROVE  /\ Head(Interval(lo, hi)) = lo
             /\ Tail(Interval(lo, hi)) = Interval(lo + 1, hi)
  <2>1. Head(Interval(lo, hi)) = lo
    BY <1>1, <1>4 DEF Interval
  <2>2. Tail(Interval(lo, hi)) = Interval(lo + 1, hi)
    BY <1>1, <1>4, SMTT(30) DEF Interval
  <2> QED BY <2>1, <2>2
<1> QED BY <1>1, <1>2, <1>3, <1>4

-----------------------------------------------------------------------------
(* What a step of a guarded queue may do.                                  *)

Workers == Threads \ {"main"}

(* A call between its test and its result is in the middle of an update.   *)
Busy == {"link", "unlink", "count", "stat"} \cup Succeeded

(* The lock goes with the label: taken on the way in, given up on the way  *)
(* out.                                                                    *)
LockFollows(t, to) ==
  IF Inside(t) <=> to \notin Outside
  THEN UNCHANGED lock
  ELSE IF Inside(t)
       THEN lock' = "nobody"
       ELSE lock = "nobody" /\ lock' = t

(* A step that moves one thread and leaves list, count and results alone:  *)
(* it enters an update only as the test of the call allows.                *)
ControlStep(t, to) ==
  /\ pc[t] \notin {"none", "done"} /\ to # "none"
  /\ pc' = [pc EXCEPT ![t] = to]
  /\ LockFollows(t, to)
  /\ \/ t = "qmonitor"
     \/ pc[t] \notin Busy /\ to \notin Busy
     \/ pc[t] \in Succeeded /\ to \in Succeeded
     \/ t = "writer" /\ pc[t] \notin Busy /\ to = "link" /\ count # MaxCount
     \/ t = "reader" /\ pc[t] \notin Busy /\ to = "unlink" /\ count # 0
  /\ \/ shown' = shown
     \/ /\ t = "qmonitor" /\ Inside(t)
        /\ shown' = [size |-> count, difference |-> add_count - get_count]
  /\ got' = got \/ (t = "reader" /\ pc[t] \notin Busy /\ got' = -1)
  /\ add_attempts' \in Nat /\ get_attempts' \in Nat
  /\ UNCHANGED <<proc, mainVars, i, expected, mismatch, listVars, count,
                 add_count, get_count>>

QueueStep ==
  \/ \E t \in Workers : \E to : ControlStep(t, to)
  \/ AddNoMemory \/ AddLink \/ AddCount
  \/ \E to \in Succeeded : to \notin Outside /\ AddStat(to)
  \/ \E from \in Succeeded : WriterSucceeds(from) /\ LockFollows("writer", "loop")
  \/ GetUnlink \/ GetCount
  \/ \E to \in Succeeded : to \notin Outside /\ GetStat(to)
  \/ \E from \in Succeeded : ReaderSucceeds(from) /\ LockFollows("reader", "loop")
  \/ MainStep /\ UNCHANGED lock

USE DEF Threads, Workers

(* QueueInv in three parts: types, control and data.                       *)
Types == ProgramTypeOK /\ pc = [s \in Threads |-> pc[s]]
Data == CountInv /\ ListInv /\ ValueInv
Outcome == FifoOrder /\ NoCrash /\ StatsConsistent

(* QueueInv is these parts.                                                *)
LEMMA QueueInvParts ==
  QueueInv <=> Types /\ LockInv /\ MainInv /\ Data /\ Outcome
BY Zenon DEF QueueInv, Types, Data, Outcome

(* QueueInv holds when main is about to call queue_init.                   *)
LEMMA QueueInitInv == GuardedInit => QueueInv
<1> SUFFICES ASSUME GuardedInit PROVE QueueInv
  OBVIOUS
<1>1. /\ pc = [t \in Threads |-> IF t = "main" THEN "create_qmonitor" ELSE "none"]
      /\ proc = "running" /\ stop = FALSE /\ curr = NULL /\ lock = "nobody"
      /\ shown = [size |-> 0, difference |-> 0] /\ QueueInit
      /\ i = 0 /\ got = -1 /\ expected = 0
  BY DEF GuardedInit, ProgramInit
<1>2. mismatch = FALSE
  BY Zenon DEF GuardedInit, ProgramInit
<1>3. /\ pc = [s \in Threads |-> pc[s]]
      /\ pc["main"] = "create_qmonitor" /\ pc["writer"] = "none"
      /\ pc["reader"] = "none" /\ pc["qmonitor"] = "none"
  BY <1>1
<1>4. Types
  <2>1. QueueTypeOK
    BY <1>1 DEF QueueTypeOK, QueueInit
  <2>2. stop \in BOOLEAN /\ mismatch \in BOOLEAN
    BY <1>1, <1>2, Zenon
  <2>3. proc \in ProcStates /\ i \in Nat /\ got \in Int /\ expected \in Int
        /\ curr \in Nodes \cup {NULL} /\ shown \in [size : Int, difference : Int]
    BY <1>1 DEF ProcStates
  <2> QED BY <1>3, <2>1, <2>2, <2>3, Zenon DEF Types, ProgramTypeOK
<1>5. LockInv /\ MainInv
  BY <1>1, <1>3 DEF LockInv, MainInv, Inside, Outside, Tearing
<1>6. CountInv
  BY <1>1, <1>3, QueueDataAssumption DEF CountInv, linked, unlinked, QueueInit
<1>7. ValueInv
  <2>1. i = add_count /\ add_count = 0 /\ expected = get_count /\ get_count = 0
    BY <1>1 DEF QueueInit
  <2>2. /\ pc["writer"] \notin Succeeded
        /\ pc["reader"] \notin {"count", "stat"} \cup Succeeded
    BY <1>3 DEF Succeeded
  <2>3. i = add_count - 0 /\ expected = get_count - 0
    BY <2>1
  <2> QED BY <2>2, <2>3, Zenon DEF ValueInv
<1>8. ListInv
  BY <1>1, <1>3, FS_EmptySet
     DEF ListInv, Tearing, linked, unlinked, ListHolds, IsChain, IsTail, QueueInit
<1>9. Outcome
  <2>1. NoCrash /\ StatsConsistent
    BY <1>1 DEF NoCrash, StatsConsistent
  <2> QED BY <2>1, <1>2, Zenon DEF Outcome, FifoOrder
<1> QED BY <1>4, <1>5, <1>6, <1>7, <1>8, <1>9, QueueInvParts DEF Data

(* A step of a worker leaves main where it is, before the teardown, and    *)
(* the lock with the thread that is inside.                                *)
LEMMA WorkerMoves ==
  ASSUME Types, LockInv, MainInv, NEW t \in Workers, NEW to,
         pc[t] \notin {"none", "done"}, to # "none",
         pc' = [pc EXCEPT ![t] = to], LockFollows(t, to)
  PROVE  /\ pc' = [s \in Threads |-> pc'[s]] /\ LockInv' /\ MainInv'
         /\ pc'[t] = to /\ \A s \in Threads \ {t} : pc'[s] = pc[s]
         /\ ~Tearing /\ ~Tearing'
<1>1. /\ pc' = [s \in Threads |-> pc'[s]]
      /\ pc'[t] = to /\ \A s \in Threads \ {t} : pc'[s] = pc[s]
  BY DEF Types
<1>2. ~Tearing /\ ~Tearing'
  BY <1>1 DEF MainInv, Tearing
<1>3. MainInv'
  BY <1>1 DEF MainInv, Tearing
<1>4. LockInv'
  <2>1. CASE Inside(t) <=> to \notin Outside
    BY <2>1, <1>1 DEF LockInv, LockFollows, Inside
  <2>2. CASE ~(Inside(t) <=> to \notin Outside)
    BY <2>2, <1>1 DEF LockInv, LockFollows, Inside
  <2> QED BY <2>1, <2>2
<1> QED BY <1>1, <1>2, <1>3, <1>4

(* A step that neither prints nor dies of an error keeps the outcome.      *)
LEMMA SameOutcome ==
  ASSUME Outcome, UNCHANGED <<mismatch, shown>>,
         proc' \in {proc, "aborted", "exited"}
  PROVE  Outcome'
<1>1. NoCrash' /\ StatsConsistent'
  BY DEF Outcome, NoCrash, StatsConsistent
<1>2. FifoOrder'
  BY Zenon DEF Outcome, FifoOrder
<1> QED BY <1>1, <1>2 DEF Outcome

(* The list does not change when neither its fields nor what was linked    *)
(* and unlinked do.                                                        *)
LEMMA SameList ==
  ASSUME ListInv, UNCHANGED <<listVars, curr, linked, unlinked>>,
         UNCHANGED pc["main"] \/ (~Tearing /\ ~Tearing')
  PROVE  ListInv'
BY DEF ListInv, ListHolds, Tearing, listVars

(* A step of control: the tests it passes make room for the update.        *)
LEMMA ControlInv ==
  ASSUME QueueInv, NEW t \in Workers, NEW to, ControlStep(t, to)
  PROVE  QueueInv'
<1>0. Types /\ LockInv /\ MainInv /\ CountInv /\ ListInv /\ ValueInv /\ Outcome
  BY QueueInvParts DEF Data
<1>1. /\ pc' = [s \in Threads |-> pc'[s]] /\ LockInv' /\ MainInv'
      /\ pc'[t] = to /\ \A s \in Threads \ {t} : pc'[s] = pc[s]
  BY <1>0, WorkerMoves DEF ControlStep
<1>2. ProgramTypeOK'
  BY <1>0 DEF ControlStep, Types, ProgramTypeOK, QueueTypeOK, listVars, mainVars
<1>3. UNCHANGED <<linked, unlinked>>
  BY <1>1 DEF ControlStep, linked, unlinked, Busy, Succeeded
<1>4. CountInv'
  BY <1>0, <1>1, <1>3, QueueDataAssumption
     DEF ControlStep, CountInv, Busy, Succeeded, Types, ProgramTypeOK, QueueTypeOK
<1>5. ListInv'
  BY <1>0, <1>1, <1>3, SameList DEF ControlStep, mainVars
<1>6. ValueInv'
  BY <1>0, <1>1 DEF ControlStep, ValueInv, Busy, Succeeded
<1>7. Outcome'
  <2>1. NoCrash' /\ FifoOrder'
    BY <1>0, Zenon DEF ControlStep, Outcome, NoCrash, FifoOrder
  <2>2. StatsConsistent'
    <3>1. CASE shown' = shown
      BY <3>1, <1>0 DEF Outcome, StatsConsistent
    <3>2. CASE shown' # shown
      <4>1. lock = "qmonitor" /\ ~Inside("writer") /\ ~Inside("reader")
        BY <3>2, <1>0 DEF ControlStep, LockInv
      <4>2. count = add_count - get_count
        BY <4>1, <1>0
           DEF Inside, Outside, CountInv, linked, unlinked, Types,
               ProgramTypeOK, QueueTypeOK
      <4> QED BY <3>2, <4>2 DEF ControlStep, StatsConsistent
    <3> QED BY <3>1, <3>2
  <2> QED BY <2>1, <2>2 DEF Outcome
<1> QED BY <1>1, <1>2, <1>4, <1>5, <1>6, <1>7, Zenon DEF QueueInv, Outcome

(* queue_add's node goes behind the last one: the value i is linked.       *)
LEMMA AddLinkInv == QueueInv /\ AddLink => QueueInv'
<1> SUFFICES ASSUME QueueInv, AddLink PROVE QueueInv'
  OBVIOUS
<1>0. Types /\ LockInv /\ MainInv /\ CountInv /\ ListInv /\ ValueInv /\ Outcome
  BY QueueInvParts DEF Data
<1>1. /\ pc' = [s \in Threads |-> pc'[s]] /\ LockInv' /\ MainInv'
      /\ pc["writer"] = "link" /\ pc'["writer"] = "count"
      /\ \A s \in Threads \ {"writer"} : pc'[s] = pc[s]
      /\ ~Tearing /\ ~Tearing'
  BY <1>0, WorkerMoves DEF AddLink, Step, LockFollows, Inside, Outside
<1>a. proc' = proc /\ proc # "crashed"
  <2>1. first = NULL \/ last \in heap
    BY <1>0, <1>1, TailIsLive DEF ListInv
  <2> QED BY <2>1 DEF AddLink, LinkOutcomes, Step, Running
<1>2. PICK n \in Nodes : LinkNode(n, i)
  BY <1>a DEF AddLink
<1>3. ListTypeOK /\ ListTypeOK'
  BY <1>0, <1>2, LinkNodeType DEF Types, ProgramTypeOK, QueueTypeOK, ListTypeOK
<1>4. ProgramTypeOK'
  BY <1>0, <1>3, <1>a
     DEF AddLink, Types, ProgramTypeOK, QueueTypeOK, ListTypeOK, mainVars,
         readerVars, statVars
<1>5. /\ i = linked /\ linked' = linked + 1 /\ unlinked' = unlinked
      /\ linked \in Nat /\ unlinked \in Nat /\ unlinked <= linked
  BY <1>0, <1>1
     DEF AddLink, Types, ProgramTypeOK, QueueTypeOK, ValueInv, CountInv, linked,
         unlinked, statVars, Succeeded
<1>6. CountInv'
  BY <1>0, <1>1, <1>5, <1>a, QueueDataAssumption
     DEF AddLink, CountInv, Types, ProgramTypeOK, QueueTypeOK
<1>7. ListInv'
  <2>1. /\ IsChain(heap', val', next', first', unlinked, linked + 1)
        /\ IsTail(heap', val', last', unlinked, linked + 1)
    BY <1>0, <1>1, <1>2, <1>3, <1>5, LinkNodeExtends DEF ListInv
  <2>2. IsFiniteSet(heap') /\ Cardinality(heap') = Cardinality(heap) + 1
    BY <1>0, <1>2, FS_AddElement DEF ListInv, LinkNode, Allocate
  <2> QED BY <2>1, <2>2, <1>0, <1>1, <1>5 DEF ListInv, ListHolds, Tearing
<1>8. ValueInv'
  BY <1>0, <1>1 DEF AddLink, ValueInv, readerVars, statVars, Succeeded
<1>9. Outcome'
  BY <1>0, <1>a, SameOutcome DEF AddLink, readerVars
<1> QED BY <1>1, <1>4, <1>6, <1>7, <1>8, <1>9, Zenon DEF QueueInv, Outcome

(* The updates of count and of the statistics: count and what is linked    *)
(* meet again.                                                             *)
LEMMA AddCountInv == QueueInv /\ AddCount => QueueInv'
<1> SUFFICES ASSUME QueueInv, AddCount PROVE QueueInv'
  OBVIOUS
<1>0. Types /\ LockInv /\ MainInv /\ CountInv /\ ListInv /\ ValueInv /\ Outcome
  BY QueueInvParts DEF Data
<1>1. /\ pc' = [s \in Threads |-> pc'[s]] /\ LockInv' /\ MainInv'
      /\ pc["writer"] = "count" /\ pc'["writer"] = "stat"
      /\ \A s \in Threads \ {"writer"} : pc'[s] = pc[s]
  BY <1>0, WorkerMoves DEF AddCount, Step, LockFollows, Inside, Outside
<1>2. ProgramTypeOK'
  BY <1>0
     DEF AddCount, Types, ProgramTypeOK, QueueTypeOK, mainVars, readerVars,
         listVars, statVars
<1>3. UNCHANGED <<linked, unlinked>>
  BY <1>1 DEF AddCount, linked, unlinked, statVars
<1>4. CountInv'
  <2>1. count' = count + 1 /\ count \in Int /\ MaxCount \in Int
        /\ linked \in Int /\ unlinked \in Int
    BY <1>0, QueueDataAssumption
       DEF AddCount, Types, ProgramTypeOK, QueueTypeOK, linked, unlinked
  <2> QED BY <2>1, <1>0, <1>1, <1>3 DEF CountInv
<1>5. ListInv'
  BY <1>0, <1>1, <1>3, SameList DEF AddCount, mainVars
<1>6. ValueInv'
  BY <1>0, <1>1 DEF AddCount, ValueInv, readerVars, statVars, Succeeded
<1>7. Outcome'
  BY <1>0, SameOutcome DEF AddCount, readerVars
<1> QED BY <1>1, <1>2, <1>4, <1>5, <1>6, <1>7, Zenon DEF QueueInv, Outcome

(* Its statistics: the call has succeeded.                                 *)
LEMMA AddStatInv ==
  ASSUME QueueInv, NEW to \in Succeeded, to \notin Outside, AddStat(to)
  PROVE  QueueInv'
<1>0. Types /\ LockInv /\ MainInv /\ CountInv /\ ListInv /\ ValueInv /\ Outcome
  BY QueueInvParts DEF Data
<1>1. /\ pc' = [s \in Threads |-> pc'[s]] /\ LockInv' /\ MainInv'
      /\ pc["writer"] = "stat" /\ pc'["writer"] = to
      /\ \A s \in Threads \ {"writer"} : pc'[s] = pc[s]
  BY <1>0, WorkerMoves DEF AddStat, Step, LockFollows, Inside, Outside
<1>2. ProgramTypeOK'
  BY <1>0
     DEF AddStat, Types, ProgramTypeOK, QueueTypeOK, mainVars, readerVars, listVars
<1>3. UNCHANGED <<linked, unlinked>>
  BY <1>0, <1>1
     DEF AddStat, linked, unlinked, Succeeded, Types, ProgramTypeOK, QueueTypeOK
<1>4. CountInv'
  BY <1>0, <1>1, <1>3 DEF AddStat, CountInv, Succeeded
<1>5. ListInv'
  BY <1>0, <1>1, <1>3, SameList DEF AddStat, mainVars
<1>6. ValueInv'
  BY <1>0, <1>1
     DEF AddStat, ValueInv, readerVars, Succeeded, Types, ProgramTypeOK,
         QueueTypeOK
<1>7. Outcome'
  BY <1>0, SameOutcome DEF AddStat, readerVars
<1> QED BY <1>1, <1>2, <1>4, <1>5, <1>6, <1>7, Zenon DEF QueueInv, Outcome

(* queue_add returns 1: the writer's next value is its next node's.        *)
LEMMA AddDoneInv ==
  ASSUME QueueInv, NEW from \in Succeeded, WriterSucceeds(from),
         LockFollows("writer", "loop")
  PROVE  QueueInv'
<1>0. Types /\ LockInv /\ MainInv /\ CountInv /\ ListInv /\ ValueInv /\ Outcome
  BY QueueInvParts DEF Data
<1>1. /\ pc' = [s \in Threads |-> pc'[s]] /\ LockInv' /\ MainInv'
      /\ pc["writer"] = from /\ pc'["writer"] = "loop"
      /\ \A s \in Threads \ {"writer"} : pc'[s] = pc[s]
  BY <1>0, WorkerMoves DEF WriterSucceeds, Step, Succeeded
<1>2. ProgramTypeOK'
  BY <1>0
     DEF WriterSucceeds, Types, ProgramTypeOK, QueueTypeOK, mainVars, readerVars,
         queueVars, listVars, statVars
<1>3. UNCHANGED <<linked, unlinked>>
  BY <1>1 DEF WriterSucceeds, linked, unlinked, Succeeded, queueVars, statVars
<1>4. CountInv'
  BY <1>0, <1>1, <1>3 DEF WriterSucceeds, CountInv, Succeeded, queueVars
<1>5. ListInv'
  BY <1>0, <1>1, <1>3, SameList DEF WriterSucceeds, mainVars, queueVars
<1>6. ValueInv'
  BY <1>0, <1>1
     DEF WriterSucceeds, ValueInv, readerVars, Succeeded, Types, ProgramTypeOK,
         QueueTypeOK, queueVars, statVars
<1>7. Outcome'
  BY <1>0, SameOutcome DEF WriterSucceeds, readerVars
<1> QED BY <1>1, <1>2, <1>4, <1>5, <1>6, <1>7, Zenon DEF QueueInv, Outcome

(* malloc fails: only the state of the process changes.                    *)
LEMMA AddNoMemoryInv == QueueInv /\ AddNoMemory => QueueInv'
<1> SUFFICES ASSUME QueueInv, AddNoMemory PROVE QueueInv'
  OBVIOUS
<1>0. Types /\ LockInv /\ MainInv /\ CountInv /\ ListInv /\ ValueInv /\ Outcome
  BY QueueInvParts DEF Data
<1>1. /\ UNCHANGED <<pc, lock, linked, unlinked>>
      /\ UNCHANGED <<queueVars, i, readerVars, curr>>
  BY DEF AddNoMemory, OutOfMemory, linked, unlinked, queueVars, statVars, mainVars
<1>2. Types' /\ LockInv' /\ MainInv'
  BY <1>0, <1>1
     DEF AddNoMemory, OutOfMemory, Types, ProgramTypeOK, QueueTypeOK, ProcStates,
         mainVars, readerVars, queueVars, listVars, statVars, LockInv, Inside,
         MainInv, Tearing
<1>3. CountInv' /\ ValueInv'
  BY <1>0, <1>1 DEF CountInv, ValueInv, queueVars, statVars, readerVars
<1>4. ListInv'
  BY <1>0, <1>1, SameList DEF queueVars
<1>5. Outcome'
  BY <1>0, SameOutcome DEF AddNoMemory, OutOfMemory, readerVars
<1> QED BY <1>2, <1>3, <1>4, <1>5, Zenon DEF QueueInv, Types, Outcome

(* queue_get takes the first node, which is there, and its value is the    *)
(* oldest one.                                                             *)
LEMMA GetUnlinkTakes ==
  ASSUME QueueInv, GetUnlink
  PROVE  /\ UNCHANGED proc /\ UnlinkFirst /\ first \in heap /\ got' = unlinked
         /\ linked' = linked /\ unlinked' = unlinked + 1
         /\ linked \in Nat /\ unlinked \in Nat /\ unlinked < linked
         /\ ListHolds(unlinked, linked)
         /\ pc' = [s \in Threads |-> pc'[s]] /\ LockInv' /\ MainInv'
         /\ pc["reader"] = "unlink" /\ pc'["reader"] = "count"
         /\ \A s \in Threads \ {"reader"} : pc'[s] = pc[s]
         /\ ~Tearing /\ ~Tearing'
<1>0. Types /\ LockInv /\ MainInv /\ CountInv /\ ListInv /\ ValueInv
  BY QueueInvParts DEF Data
<1>1. /\ pc' = [s \in Threads |-> pc'[s]] /\ LockInv' /\ MainInv'
      /\ pc["reader"] = "unlink" /\ pc'["reader"] = "count"
      /\ \A s \in Threads \ {"reader"} : pc'[s] = pc[s]
      /\ ~Tearing /\ ~Tearing'
  BY <1>0, WorkerMoves DEF GetUnlink, Step, LockFollows, Inside, Outside
<1>2. /\ linked' = linked /\ unlinked' = unlinked + 1
      /\ linked \in Nat /\ unlinked \in Nat
  BY <1>0, <1>1
     DEF GetUnlink, Types, ProgramTypeOK, QueueTypeOK, linked, unlinked, statVars
<1>3. unlinked < linked
  BY <1>0, <1>1, <1>2 DEF Types, ProgramTypeOK, QueueTypeOK, CountInv
<1>4. ListHolds(unlinked, linked)
  BY <1>0, <1>1 DEF ListInv
<1>5. first \in heap /\ val[first] = unlinked
  BY <1>2, <1>3, <1>4 DEF ListHolds, IsChain
<1>6. UNCHANGED proc /\ UnlinkFirst /\ got' = unlinked
  BY <1>5 DEF GetUnlink
<1> QED BY <1>1, <1>2, <1>3, <1>4, <1>5, <1>6

(* The reader unlinks the oldest value, which is the one it expects.       *)
LEMMA GetUnlinkInv == QueueInv /\ GetUnlink => QueueInv'
<1> SUFFICES ASSUME QueueInv, GetUnlink PROVE QueueInv'
  OBVIOUS
<1>0. Types /\ LockInv /\ MainInv /\ CountInv /\ ListInv /\ ValueInv /\ Outcome
  BY QueueInvParts DEF Data
<1>1. /\ UNCHANGED proc /\ UnlinkFirst /\ first \in heap /\ got' = unlinked
      /\ linked' = linked /\ unlinked' = unlinked + 1
      /\ linked \in Nat /\ unlinked \in Nat /\ unlinked < linked
      /\ ListHolds(unlinked, linked)
      /\ pc' = [s \in Threads |-> pc'[s]] /\ LockInv' /\ MainInv'
      /\ pc["reader"] = "unlink" /\ pc'["reader"] = "count"
      /\ \A s \in Threads \ {"reader"} : pc'[s] = pc[s]
      /\ ~Tearing /\ ~Tearing'
  BY GetUnlinkTakes
<1>2. ListTypeOK /\ ListTypeOK'
  BY <1>0, <1>1, UnlinkFirstType DEF Types, ProgramTypeOK, QueueTypeOK, ListTypeOK
<1>3. ProgramTypeOK'
  <2>1. got' \in Int
    BY <1>1
  <2> QED BY <2>1, <1>0, <1>1, <1>2
             DEF GetUnlink, Types, ProgramTypeOK, QueueTypeOK, ListTypeOK,
                 mainVars, statVars
<1>4. CountInv'
  BY <1>0, <1>1 DEF GetUnlink, CountInv, Types, ProgramTypeOK, QueueTypeOK
<1>5. ListInv'
  <2>1. /\ IsChain(heap', val', next', first', unlinked + 1, linked)
        /\ IsTail(heap', val', last', unlinked + 1, linked)
    BY <1>1, <1>2, UnlinkFirstShortens
  <2>2. IsFiniteSet(heap') /\ Cardinality(heap') = Cardinality(heap) - 1
    BY <1>0, <1>1, FS_RemoveElement DEF ListInv, UnlinkFirst, Free
  <2>3. Cardinality(heap) = linked - unlinked
    BY <1>0, <1>1 DEF ListInv
  <2> QED BY <2>1, <2>2, <2>3, <1>1 DEF ListInv, ListHolds, Tearing
<1>6. ValueInv'
  <2>1. expected = unlinked
    BY <1>0, <1>1
       DEF ValueInv, unlinked, Succeeded, Types, ProgramTypeOK, QueueTypeOK
  <2> QED BY <2>1, <1>0, <1>1 DEF GetUnlink, ValueInv, statVars, Succeeded
<1>7. Outcome'
  BY <1>0, <1>1, SameOutcome DEF GetUnlink
<1> QED BY <1>1, <1>3, <1>4, <1>5, <1>6, <1>7, Zenon DEF QueueInv, Outcome

(* It takes the node off count.                                            *)
LEMMA GetCountInv == QueueInv /\ GetCount => QueueInv'
<1> SUFFICES ASSUME QueueInv, GetCount PROVE QueueInv'
  OBVIOUS
<1>0. Types /\ LockInv /\ MainInv /\ CountInv /\ ListInv /\ ValueInv /\ Outcome
  BY QueueInvParts DEF Data
<1>1. /\ pc' = [s \in Threads |-> pc'[s]] /\ LockInv' /\ MainInv'
      /\ pc["reader"] = "count" /\ pc'["reader"] = "stat"
      /\ \A s \in Threads \ {"reader"} : pc'[s] = pc[s]
  BY <1>0, WorkerMoves DEF GetCount, Step, LockFollows, Inside, Outside
<1>2. ProgramTypeOK'
  BY <1>0
     DEF GetCount, Types, ProgramTypeOK, QueueTypeOK, mainVars, readerVars,
         listVars, statVars
<1>3. UNCHANGED <<linked, unlinked>>
  BY <1>1 DEF GetCount, linked, unlinked, statVars
<1>4. CountInv'
  BY <1>0, <1>1, <1>3, QueueDataAssumption
     DEF GetCount, CountInv, Types, ProgramTypeOK, QueueTypeOK, statVars,
         linked, unlinked
<1>5. ListInv'
  BY <1>0, <1>1, <1>3, SameList DEF GetCount, mainVars
<1>6. ValueInv'
  BY <1>0, <1>1 DEF GetCount, ValueInv, readerVars, statVars, Succeeded
<1>7. Outcome'
  BY <1>0, SameOutcome DEF GetCount, readerVars
<1> QED BY <1>1, <1>2, <1>4, <1>5, <1>6, <1>7, Zenon DEF QueueInv, Outcome

(* Its statistics: the call has succeeded.                                 *)
LEMMA GetStatInv ==
  ASSUME QueueInv, NEW to \in Succeeded, to \notin Outside, GetStat(to)
  PROVE  QueueInv'
<1>0. Types /\ LockInv /\ MainInv /\ CountInv /\ ListInv /\ ValueInv /\ Outcome
  BY QueueInvParts DEF Data
<1>1. /\ pc' = [s \in Threads |-> pc'[s]] /\ LockInv' /\ MainInv'
      /\ pc["reader"] = "stat" /\ pc'["reader"] = to
      /\ \A s \in Threads \ {"reader"} : pc'[s] = pc[s]
  BY <1>0, WorkerMoves DEF GetStat, Step, LockFollows, Inside, Outside
<1>2. ProgramTypeOK'
  BY <1>0
     DEF GetStat, Types, ProgramTypeOK, QueueTypeOK, mainVars, readerVars, listVars
<1>3. UNCHANGED <<linked, unlinked>>
  BY <1>0, <1>1
     DEF GetStat, linked, unlinked, Succeeded, Types, ProgramTypeOK, QueueTypeOK
<1>4. CountInv'
  BY <1>0, <1>1, <1>3 DEF GetStat, CountInv, Succeeded
<1>5. ListInv'
  BY <1>0, <1>1, <1>3, SameList DEF GetStat, mainVars
<1>6. ValueInv'
  BY <1>0, <1>1
     DEF GetStat, ValueInv, readerVars, Succeeded, Types, ProgramTypeOK,
         QueueTypeOK
<1>7. Outcome'
  BY <1>0, SameOutcome DEF GetStat, readerVars
<1> QED BY <1>1, <1>2, <1>4, <1>5, <1>6, <1>7, Zenon DEF QueueInv, Outcome

(* queue_get returns 1: the reader's test finds the value it expects.      *)
LEMMA GetDoneInv ==
  ASSUME QueueInv, NEW from \in Succeeded, ReaderSucceeds(from),
         LockFollows("reader", "loop")
  PROVE  QueueInv'
<1>0. Types /\ LockInv /\ MainInv /\ CountInv /\ ListInv /\ ValueInv /\ Outcome
  BY QueueInvParts DEF Data
<1>1. /\ pc' = [s \in Threads |-> pc'[s]] /\ LockInv' /\ MainInv'
      /\ pc["reader"] = from /\ pc'["reader"] = "loop"
      /\ \A s \in Threads \ {"reader"} : pc'[s] = pc[s]
  BY <1>0, WorkerMoves DEF ReaderSucceeds, Step, Succeeded
<1>2. got = expected /\ expected' = got + 1
  BY <1>0, <1>1 DEF ReaderSucceeds, ValueInv
<1>3. mismatch' = FALSE
  BY <1>0, <1>2, Zenon DEF ReaderSucceeds, Outcome, FifoOrder
<1>4. ProgramTypeOK'
  <2>1. QueueTypeOK' /\ i' \in Nat /\ got' \in Int /\ expected' \in Int
        /\ curr' \in Nodes \cup {NULL} /\ proc' \in ProcStates
        /\ shown' \in [size : Int, difference : Int]
    BY <1>0, <1>2
       DEF ReaderSucceeds, Types, ProgramTypeOK, QueueTypeOK, mainVars, queueVars,
           listVars, statVars
  <2>2. stop' \in BOOLEAN /\ mismatch' \in BOOLEAN
    BY <1>0, <1>3, Zenon DEF ReaderSucceeds, Types, ProgramTypeOK, mainVars
  <2> QED BY <2>1, <2>2, Zenon DEF ProgramTypeOK
<1>5. UNCHANGED <<linked, unlinked>>
  BY <1>1 DEF ReaderSucceeds, linked, unlinked, Succeeded, queueVars, statVars
<1>6. CountInv'
  BY <1>0, <1>1, <1>5 DEF ReaderSucceeds, CountInv, Succeeded, queueVars
<1>7. ListInv'
  BY <1>0, <1>1, <1>5, SameList DEF ReaderSucceeds, mainVars, queueVars
<1>8. ValueInv'
  BY <1>0, <1>1, <1>2
     DEF ReaderSucceeds, ValueInv, Succeeded, Types, ProgramTypeOK, QueueTypeOK,
         queueVars, statVars
<1>9. Outcome'
  <2>1. NoCrash' /\ StatsConsistent'
    BY <1>0 DEF ReaderSucceeds, Outcome, NoCrash, StatsConsistent
  <2> QED BY <2>1, <1>3, Zenon DEF Outcome, FifoOrder
<1> QED BY <1>1, <1>4, <1>6, <1>7, <1>8, <1>9, Zenon DEF QueueInv, Outcome

(* A step of main that at most starts a thread keeps what the workers own. *)
LEMMA MainControl ==
  ASSUME Types, LockInv, CountInv, ValueInv,
         \A t \in Workers :
           pc'[t] = pc[t] \/ (pc[t] = "none" /\ pc'[t] = "loop"),
         UNCHANGED <<count, statVars, i, readerVars, lock>>
  PROVE  LockInv' /\ CountInv' /\ ValueInv' /\ UNCHANGED <<linked, unlinked>>
<1> USE DEF statVars, readerVars
<1>1. LockInv'
  BY DEF LockInv, Inside, Outside
<1>2. UNCHANGED <<linked, unlinked>>
  BY DEF linked, unlinked
<1>3. CountInv'
  BY <1>2 DEF CountInv
<1>4. ValueInv'
  BY DEF ValueInv, Succeeded
<1> QED BY <1>1, <1>2, <1>3, <1>4

(* main up to the teardown: it starts, waits and joins.                    *)
LEMMA MainBeforeTeardown ==
  ASSUME QueueInv, NEW t \in Threads, NEW to, ~Tearing, ~Tearing',
         \/ pc' = [pc EXCEPT !["main"] = to]
         \/ /\ pc' = [pc EXCEPT !["main"] = to, ![t] = "loop"]
            /\ t # "main" /\ pc[t] = "none"
         \/ pc' = pc,
         MainInv', stop' \in {stop, TRUE}, proc' \in {proc, "aborted", "exited"},
         UNCHANGED <<curr, i, readerVars, shown, queueVars, lock>>
  PROVE  QueueInv'
<1>0. Types /\ LockInv /\ MainInv /\ CountInv /\ ListInv /\ ValueInv /\ Outcome
  BY QueueInvParts DEF Data
<1>1. /\ pc' = [s \in Threads |-> pc'[s]]
      /\ \A s \in Workers : pc'[s] = pc[s] \/ (pc[s] = "none" /\ pc'[s] = "loop")
  BY <1>0 DEF Types
<1>2. UNCHANGED <<count, statVars, i, readerVars, lock, listVars>>
  BY DEF queueVars
<1>3. LockInv' /\ CountInv' /\ ValueInv' /\ UNCHANGED <<linked, unlinked>>
  BY <1>0, <1>1, <1>2, MainControl
<1>4. ProgramTypeOK'
  <2>1. QueueTypeOK' /\ i' \in Nat /\ got' \in Int /\ expected' \in Int
        /\ curr' \in Nodes \cup {NULL} /\ proc' \in ProcStates
        /\ shown' \in [size : Int, difference : Int]
    BY <1>0
       DEF Types, ProgramTypeOK, QueueTypeOK, queueVars, listVars, statVars,
           readerVars, ProcStates
  <2>2. stop' \in BOOLEAN /\ mismatch' \in BOOLEAN
    BY <1>0, Zenon DEF Types, ProgramTypeOK, readerVars
  <2> QED BY <2>1, <2>2, Zenon DEF ProgramTypeOK
<1>5. ListInv'
  BY <1>0, <1>2, <1>3, SameList
<1>6. Outcome'
  BY <1>0, SameOutcome DEF readerVars
<1> QED BY <1>1, <1>3, <1>4, <1>5, <1>6, Zenon DEF QueueInv, Outcome

(* main creates the monitor, the reader and the writer.                    *)
LEMMA CreateInv ==
  QueueInv /\ (CreateMonitor \/ CreateReader \/ CreateWriter) /\ UNCHANGED lock
    => QueueInv'
<1> SUFFICES ASSUME QueueInv, CreateMonitor \/ CreateReader \/ CreateWriter,
                    UNCHANGED lock
             PROVE  QueueInv'
  OBVIOUS
<1>0. Types /\ MainInv
  BY QueueInvParts
<1>1. CASE CreateMonitor
  <2>1. /\ ~Tearing /\ ~Tearing' /\ pc["qmonitor"] = "none" /\ MainInv'
        /\ pc' = [pc EXCEPT !["main"] = "create_reader", !["qmonitor"] = "loop"]
    BY <1>0, <1>1 DEF CreateMonitor, Create, Types, MainInv, Tearing
  <2> QED BY <1>1, <2>1, MainBeforeTeardown DEF CreateMonitor, Create, mainVars
<1>2. CASE CreateReader
  <2>1. /\ ~Tearing /\ ~Tearing' /\ pc["reader"] = "none" /\ MainInv'
        /\ pc' = [pc EXCEPT !["main"] = "create_writer", !["reader"] = "loop"]
    BY <1>0, <1>2 DEF CreateReader, Create, Types, MainInv, Tearing
  <2> QED BY <1>2, <2>1, MainBeforeTeardown DEF CreateReader, Create, mainVars
<1>3. CASE CreateWriter
  <2>1. /\ ~Tearing /\ ~Tearing' /\ pc["writer"] = "none" /\ MainInv'
        /\ pc' = [pc EXCEPT !["main"] = "sleep", !["writer"] = "loop"]
    BY <1>0, <1>3 DEF CreateWriter, Create, Types, MainInv, Tearing
  <2> QED BY <1>3, <2>1, MainBeforeTeardown DEF CreateWriter, Create, mainVars
<1> QED BY <1>1, <1>2, <1>3

(* main sets q->stop and joins the reader and the writer; a creation that  *)
(* fails ends the process.                                                 *)
LEMMA StopInv ==
  /\ QueueInv /\ UNCHANGED lock
  /\ CreateFails \/ SetStop \/ JoinReader \/ JoinWriter \/ DestroyStop
  => QueueInv'
<1> SUFFICES ASSUME QueueInv, UNCHANGED lock,
                    CreateFails \/ SetStop \/ JoinReader \/ JoinWriter \/ DestroyStop
             PROVE  QueueInv'
  OBVIOUS
<1>0. Types /\ MainInv
  BY QueueInvParts
<1>1. CASE CreateFails
  <2>1. ~Tearing /\ ~Tearing' /\ MainInv' /\ proc' \in {"aborted", "exited"}
    BY <1>0, <1>1 DEF CreateFails, MainInv, Tearing
  <2> QED BY <1>1, <2>1, MainBeforeTeardown DEF CreateFails, mainVars
<1>2. CASE SetStop \/ JoinReader \/ JoinWriter \/ DestroyStop
  <2>1. /\ ~Tearing /\ ~Tearing' /\ MainInv'
        /\ \E to : pc' = [pc EXCEPT !["main"] = to]
    BY <1>0, <1>2
       DEF SetStop, JoinReader, JoinWriter, DestroyStop, Join, Step, Types,
           MainInv, Tearing
  <2>2. stop' \in {stop, TRUE}
    BY <1>2, Zenon
       DEF SetStop, JoinReader, JoinWriter, DestroyStop, Join, mainVars
  <2>3. UNCHANGED <<proc, curr, i, readerVars, shown, queueVars>>
    BY <1>2 DEF SetStop, JoinReader, JoinWriter, DestroyStop, Join, mainVars
  <2> QED BY <2>1, <2>2, <2>3, MainBeforeTeardown
<1> QED BY <1>1, <1>2

(* queue_destroy: behind the join of the monitor main is alone, and frees  *)
(* the list from its head.                                                 *)
LEMMA TeardownInv ==
  /\ QueueInv /\ UNCHANGED lock
  /\ JoinMonitor \/ FreeNode \/ FreeNodesDone \/ FreeQueue
  => QueueInv'
<1> SUFFICES ASSUME QueueInv, UNCHANGED lock,
                    JoinMonitor \/ FreeNode \/ FreeNodesDone \/ FreeQueue
             PROVE  QueueInv'
  OBVIOUS
<1>0. Types /\ LockInv /\ MainInv /\ CountInv /\ ListInv /\ ValueInv /\ Outcome
  BY QueueInvParts DEF Data
<1> USE DEF JoinMonitor, FreeNode, FreeNodesDone, FreeQueue
<1>1. /\ pc' = [s \in Threads |-> pc'[s]] /\ \A s \in Workers : pc'[s] = pc[s]
      /\ MainInv' /\ Tearing'
  BY <1>0 DEF Step, Types, MainInv, Tearing
<1>2. UNCHANGED <<count, statVars, i, readerVars, stop, shown, first, last>>
  BY DEF queueVars, listVars, mainVars, statVars, readerVars
<1>3. LockInv' /\ CountInv' /\ ValueInv' /\ UNCHANGED <<linked, unlinked>>
  BY <1>0, <1>1, <1>2, MainControl
<1>4. linked \in Nat /\ unlinked \in Nat /\ unlinked <= linked /\ NULL \notin heap
  BY <1>0, QueueDataAssumption
     DEF Types, ProgramTypeOK, QueueTypeOK, linked, unlinked, CountInv
<1>5. CASE JoinMonitor
  <2>1. /\ UNCHANGED <<proc, listVars>> /\ curr' = first
        /\ pc'["main"] = "free_nodes" /\ ~Tearing
    BY <1>0, <1>5 DEF Step, Types, queueVars, Tearing
  <2>2. ListInv'
    <3>1. /\ IsFiniteSet(heap) /\ Cardinality(heap) = linked - unlinked
          /\ IsChain(heap, val, next, first, unlinked, linked)
      BY <1>0, <2>1 DEF ListInv, ListHolds
    <3>2. linked - Cardinality(heap) = unlinked /\ Cardinality(heap) <= linked
      BY <3>1, <1>4
    <3> QED BY <3>1, <3>2, <2>1, <1>1, <1>3 DEF ListInv, listVars
  <2>3. ProgramTypeOK'
    BY <1>0, <1>2, <2>1
       DEF Types, ProgramTypeOK, QueueTypeOK, listVars, statVars, readerVars
  <2>4. Outcome'
    BY <1>0, <1>2, <2>1, SameOutcome DEF readerVars
  <2> QED BY <1>1, <1>3, <2>2, <2>3, <2>4, Zenon DEF QueueInv, Outcome
<1>6. CASE FreeNode
  <2> DEFINE lo == linked - Cardinality(heap)
  <2>1. /\ pc["main"] = "free_nodes" /\ curr # NULL /\ UNCHANGED pc
        /\ IsFiniteSet(heap) /\ Cardinality(heap) \in Nat
        /\ Cardinality(heap) <= linked /\ lo \in Nat
        /\ IsChain(heap, val, next, curr, lo, linked)
    BY <1>0, <1>4, <1>6, FS_CardinalityType DEF ListInv
  <2>2. lo < linked
    BY <2>1, <1>4 DEF IsChain
  <2>3. curr \in heap
    BY <2>1, <2>2, <1>4 DEF IsChain
  <2>4. Free(curr) /\ curr' = next[curr] /\ UNCHANGED proc
    BY <1>6, <2>3
  <2>5. ListTypeOK
    BY <1>0 DEF Types, ProgramTypeOK, QueueTypeOK, ListTypeOK
  <2>6. ProgramTypeOK'
    <3>1. /\ heap' \subseteq Nodes /\ val' \in [heap' -> Int]
          /\ next' \in [heap' -> Nodes \cup {NULL}]
          /\ curr' \in Nodes \cup {NULL}
      BY <2>3, <2>4, <2>5, FreeType
    <3> QED BY <3>1, <1>0, <1>2, <2>4
               DEF Types, ProgramTypeOK, QueueTypeOK, statVars, readerVars
  <2>7. ListInv'
    <3>1. IsChain(heap', val', next', curr', lo + 1, linked')
      BY <1>3, <1>4, <2>1, <2>2, <2>4, <2>5, FreeHeadShortens
    <3>2. IsFiniteSet(heap') /\ Cardinality(heap') = Cardinality(heap) - 1
      BY <2>1, <2>3, <2>4, FS_RemoveElement DEF Free
    <3>3. lo + 1 = linked' - Cardinality(heap') /\ Cardinality(heap') <= linked'
      BY <3>2, <1>3, <1>4, <2>1
    <3> QED BY <3>1, <3>2, <3>3, <2>1, <1>1 DEF ListInv
  <2>8. Outcome'
    BY <1>0, <1>2, <2>4, SameOutcome DEF readerVars
  <2> QED BY <1>1, <1>3, <2>6, <2>7, <2>8, Zenon DEF QueueInv, Outcome
<1>7. CASE FreeNodesDone \/ FreeQueue
  <2>1. heap = {}
    <3>1. CASE FreeQueue
      BY <3>1, <1>0 DEF ListInv, Step
    <3>2. CASE FreeNodesDone
      <4>1. /\ IsFiniteSet(heap) /\ curr = NULL
            /\ IsChain(heap, val, next, curr, linked - Cardinality(heap), linked)
        BY <3>2, <1>0 DEF ListInv, Step
      <4>2. linked - Cardinality(heap) \in Int
        BY <4>1, <1>4, FS_CardinalityType
      <4> QED BY <4>1, <4>2, <1>4, ChainEmpty
    <3> QED BY <1>7, <3>1, <3>2
  <2>2. /\ UNCHANGED <<listVars, curr>> /\ proc' \in {proc, "exited"}
        /\ pc'["main"] \in {"free_queue", "returned"}
    BY <1>0, <1>7 DEF Step, Types, mainVars, queueVars
  <2>3. ListInv'
    BY <1>0, <1>1, <2>1, <2>2 DEF ListInv, listVars, Tearing
  <2>4. ProgramTypeOK'
    BY <1>0, <1>2, <2>2
       DEF Types, ProgramTypeOK, QueueTypeOK, listVars, statVars, readerVars,
           ProcStates
  <2>5. Outcome'
    BY <1>0, <1>2, <2>2, SameOutcome DEF readerVars
  <2> QED BY <1>1, <1>3, <2>3, <2>4, <2>5, Zenon DEF QueueInv, Outcome
<1> QED BY <1>5, <1>6, <1>7

(* QueueInv survives every step of a guarded queue.                        *)
THEOREM QueueStepInv == QueueInv /\ QueueStep => QueueInv'
<1> SUFFICES ASSUME QueueInv, QueueStep PROVE QueueInv'
  OBVIOUS
<1>1. CASE \E t \in Workers : \E to : ControlStep(t, to)
  BY <1>1, ControlInv
<1>2. CASE AddNoMemory \/ AddLink \/ AddCount
  BY <1>2, AddNoMemoryInv, AddLinkInv, AddCountInv
<1>3. CASE \E to \in Succeeded : to \notin Outside /\ AddStat(to)
  BY <1>3, AddStatInv
<1>4. CASE \E from \in Succeeded :
             WriterSucceeds(from) /\ LockFollows("writer", "loop")
  BY <1>4, AddDoneInv
<1>5. CASE GetUnlink \/ GetCount
  BY <1>5, GetUnlinkInv, GetCountInv
<1>6. CASE \E to \in Succeeded : to \notin Outside /\ GetStat(to)
  BY <1>6, GetStatInv
<1>7. CASE \E from \in Succeeded :
             ReaderSucceeds(from) /\ LockFollows("reader", "loop")
  BY <1>7, GetDoneInv
<1>8. CASE MainStep /\ UNCHANGED lock
  BY <1>8, CreateInv, StopInv, TeardownInv DEF MainStep
<1> QED BY <1>1, <1>2, <1>3, <1>4, <1>5, <1>6, <1>7, <1>8 DEF QueueStep

-----------------------------------------------------------------------------
(* What QueueInv means for the callers.                                    *)

(* With the lock free nothing is in the middle of an update, and main      *)
(* destroys the queue alone.                                               *)
LEMMA QueueInvSafe ==
  ASSUME QueueInv
  PROVE  /\ MutualExclusion /\ FifoOrder /\ NoCrash /\ StatsConsistent
         /\ ListIntact /\ TeardownSafe
<1>0. Types /\ LockInv /\ MainInv /\ CountInv /\ ListInv /\ ValueInv /\ Outcome
  BY QueueInvParts DEF Data
<1>1. MutualExclusion
  BY <1>0 DEF LockInv, MutualExclusion
<1>2. ListIntact
  <2> SUFFICES ASSUME lock = "nobody", ~Tearing
               PROVE  /\ count = Cardinality(heap)
                      /\ count = add_count - get_count
                      /\ count \in 0 .. MaxCount
                      /\ ListHolds(get_count, add_count)
    BY DEF ListIntact
  <2>1. ~Inside("writer") /\ ~Inside("reader")
    BY <1>0 DEF LockInv
  <2>2. linked = add_count /\ unlinked = get_count
    BY <2>1, <1>0
       DEF Inside, Outside, linked, unlinked, Types, ProgramTypeOK, QueueTypeOK
  <2>3. count = linked - unlinked /\ count \in 0 .. MaxCount
    BY <1>0, <2>1, <2>2, QueueDataAssumption
       DEF Inside, Outside, CountInv, Types, ProgramTypeOK, QueueTypeOK
  <2> QED BY <2>2, <2>3, <1>0 DEF ListInv
<1>3. TeardownSafe
  BY <1>0 DEF LockInv, MainInv, ListInv, TeardownSafe, Tearing, Inside, Outside
<1>4. FifoOrder /\ NoCrash /\ StatsConsistent
  BY <1>0, Zenon DEF Outcome
<1> QED BY <1>1, <1>2, <1>3, <1>4

-----------------------------------------------------------------------------
(* The queue as a bounded FIFO buffer.                                     *)

(* The buffer holds the values linked and not yet unlinked or discarded.   *)
QueuedInv == Queued = Interval(linked - Cardinality(heap), linked)

(* In every state the buffer holds exactly the values in flight.           *)
LEMMA QueuedIs == QueueInv => QueuedInv
<1> SUFFICES ASSUME QueueInv PROVE QueuedInv
  OBVIOUS
<1>0. Types /\ CountInv /\ ListInv
  BY QueueInvParts DEF Data
<1>1. /\ linked \in Nat /\ unlinked \in Nat /\ unlinked <= linked
      /\ IsFiniteSet(heap) /\ Cardinality(heap) \in Nat /\ val \in [heap -> Int]
  <2>1. /\ linked \in Nat /\ unlinked \in Nat /\ unlinked <= linked
        /\ val \in [heap -> Int]
    BY <1>0 DEF Types, ProgramTypeOK, QueueTypeOK, linked, unlinked, CountInv
  <2>2. IsFiniteSet(heap) /\ Cardinality(heap) \in Nat
    BY <1>0, FS_CardinalityType DEF ListInv
  <2> QED BY <2>1, <2>2
<1> DEFINE head == IF pc["main"] = "free_nodes" THEN curr ELSE first
           lo == linked - Cardinality(heap)
<1>2. CASE ~Tearing \/ pc["main"] = "free_nodes"
  <2>1. IsChain(heap, val, next, head, lo, linked) /\ lo <= linked
    <3>1. CASE ~Tearing
      <4>1. lo = unlinked /\ head = first
        BY <3>1, <1>0, <1>1 DEF ListInv, Tearing
      <4> QED BY <3>1, <4>1, <1>0, <1>1 DEF ListInv, ListHolds
    <3>2. CASE pc["main"] = "free_nodes"
      BY <3>2, <1>0, <1>1 DEF ListInv
    <3> QED BY <1>2, <3>1, <3>2
  <2>2. lo \in Int /\ Cardinality(heap) = linked - lo
    BY <1>1
  <2> HIDE DEF lo, head
  <2>3. Contents(head) = Interval(lo, linked)
    BY <2>1, <2>2, <1>1, ContentsOf
  <2> QED BY <2>3 DEF QueuedInv, Queued, head, lo
<1>3. CASE pc["main"] \in {"free_queue", "returned"}
  <2>1. Cardinality(heap) = 0
    BY <1>3, <1>0, FS_EmptySet DEF ListInv
  <2>2. Contents(head) = <<>>
    BY <2>1 DEF Contents
  <2>3. Interval(linked - 0, linked) = <<>>
    BY <1>1, IntervalSeq
  <2> QED BY <2>1, <2>2, <2>3 DEF QueuedInv, Queued
<1> QED BY <1>2, <1>3 DEF Tearing

(* At the start nothing is queued and nothing taken.                       *)
LEMMA FifoInit == GuardedInit /\ QueuedInv => Buffer!Init
<1> SUFFICES ASSUME GuardedInit, QueuedInv PROVE Buffer!Init
  OBVIOUS
<1>1. pc["main"] = "create_qmonitor" /\ pc["reader"] = "none"
      /\ pc["writer"] = "none" /\ expected = 0 /\ heap = {} /\ add_count = 0
  BY DEF GuardedInit, ProgramInit, QueueInit
<1>2. linked = 0 /\ Cardinality(heap) = 0
  BY <1>1, FS_EmptySet DEF linked
<1>3. Queued = <<>>
  BY <1>2, IntervalSeq DEF QueuedInv
<1>4. LastTaken = -1 /\ Tearing = FALSE
  BY <1>1 DEF LastTaken, Succeeded, Tearing
<1> QED BY <1>3, <1>4 DEF Buffer!Init

(* A step that leaves the heap and what was linked leaves the buffer.      *)
LEMMA SameQueued ==
  ASSUME QueuedInv, QueuedInv', UNCHANGED <<heap, linked>>
  PROVE  UNCHANGED Queued
BY DEF QueuedInv

(* Both sides are truth values.                                            *)
LEMMA SameTearing ==
  ASSUME Tearing' <=> Tearing
  PROVE  UNCHANGED Tearing
<1>1. Tearing \in BOOLEAN /\ Tearing' \in BOOLEAN
  BY DEF Tearing
<1> QED BY <1>1

(* A step that neither links nor unlinks, nor tears down, is no step of    *)
(* the buffer.                                                             *)
LEMMA FifoStutters ==
  ASSUME QueuedInv, QueuedInv', UNCHANGED <<heap, linked, LastTaken>>,
         Tearing' <=> Tearing
  PROVE  UNCHANGED Buffer!vars
BY SameQueued, SameTearing DEF Buffer!vars

(* A node linked is a Put, a node unlinked a Take, the last join is Close  *)
(* and a node freed after it a Discard; everything else the callers do not *)
(* see.                                                                    *)
THEOREM QueueStepFifo ==
  ASSUME QueueInv, QueueInv', QueuedInv, QueuedInv', AttemptsInv, QueueStep
  PROVE  [Buffer!Next]_(Buffer!vars)
<1>0. Types /\ LockInv /\ MainInv /\ CountInv /\ ListInv /\ ValueInv
  BY QueueInvParts DEF Data
<1>1. /\ linked \in Nat /\ unlinked \in Nat /\ unlinked <= linked
      /\ add_attempts \in Nat /\ IsFiniteSet(heap) /\ Cardinality(heap) \in Nat
      /\ linked \in Int /\ unlinked \in Int
  <2>1. /\ linked \in Nat /\ unlinked \in Nat /\ unlinked <= linked
        /\ add_attempts \in Nat
    BY <1>0 DEF Types, ProgramTypeOK, QueueTypeOK, linked, unlinked, CountInv
  <2>2. IsFiniteSet(heap) /\ Cardinality(heap) \in Nat
    BY <1>0, FS_CardinalityType DEF ListInv
  <2> QED BY <2>1, <2>2
<1>2. ASSUME NEW t \in Workers, NEW to, ControlStep(t, to)
      PROVE  UNCHANGED Buffer!vars
  <2>1. /\ pc'[t] = to /\ \A s \in Threads \ {t} : pc'[s] = pc[s]
        /\ ~Tearing /\ ~Tearing'
    BY <1>0, <1>2, WorkerMoves DEF ControlStep
  <2>2. UNCHANGED <<heap, linked>>
    BY <1>2, <2>1 DEF ControlStep, listVars, linked, Busy, Succeeded
  <2>3. UNCHANGED LastTaken
    BY <1>2, <2>1 DEF ControlStep, LastTaken, Busy, Succeeded
  <2> QED BY <2>1, <2>2, <2>3, FifoStutters
<1>3. CASE AddNoMemory
  <2>1. UNCHANGED <<pc, heap, linked, LastTaken>>
    BY <1>3
       DEF AddNoMemory, OutOfMemory, queueVars, listVars, statVars, readerVars,
           linked, LastTaken
  <2> QED BY <2>1, FifoStutters DEF Tearing
<1>4. CASE AddLink
  <2>1. /\ pc["writer"] = "link" /\ pc'["writer"] = "count"
        /\ \A s \in Threads \ {"writer"} : pc'[s] = pc[s]
        /\ ~Tearing /\ ~Tearing'
    BY <1>0, <1>4, WorkerMoves DEF AddLink, Step, LockFollows, Inside, Outside
  <2>2. /\ i = linked /\ linked' = linked + 1 /\ unlinked' = unlinked
    BY <1>0, <1>4, <2>1
       DEF AddLink, ValueInv, linked, unlinked, statVars, Succeeded, Types,
           ProgramTypeOK, QueueTypeOK
  <2>3. linked - unlinked < MaxCount
    BY <1>0, <1>1, <2>1, QueueDataAssumption
       DEF CountInv, Types, ProgramTypeOK, QueueTypeOK
  <2>4. Queued = Interval(unlinked, linked) /\ Queued' = Interval(unlinked, linked + 1)
    <3>1. Cardinality(heap) = linked - unlinked
      BY <1>0, <2>1 DEF ListInv
    <3>2. Cardinality(heap') = (linked + 1) - unlinked
      BY <2>1, <2>2 DEF QueueInv, ListInv
    <3> QED BY <1>1, <2>2, <3>1, <3>2 DEF QueuedInv
  <2>5. Queued' = Append(Queued, i) /\ Len(Queued) < MaxCount
    <3>1. /\ Len(Interval(unlinked, linked)) = linked - unlinked
          /\ Interval(unlinked, linked + 1)
               = Append(Interval(unlinked, linked), linked)
      BY <1>1, IntervalSeq, Zenon
    <3> QED BY <2>2, <2>3, <2>4, <3>1
  <2>6. i \in 0 .. MaxAttempts
    BY <1>1, <2>1, <2>2, MaxAttemptsAssumption DEF AttemptsInv
  <2>7. UNCHANGED LastTaken
    BY <1>4, <2>1 DEF AddLink, LastTaken, readerVars
  <2>8. Buffer!Put
    BY <2>1, <2>5, <2>6, <2>7, SameTearing DEF Buffer!Put
  <2> QED BY <2>8 DEF Buffer!Next
<1>5. CASE AddCount
  <2>1. /\ pc["writer"] = "count" /\ pc'["writer"] = "stat"
        /\ \A s \in Threads \ {"writer"} : pc'[s] = pc[s]
        /\ ~Tearing /\ ~Tearing'
    BY <1>0, <1>5, WorkerMoves DEF AddCount, Step, LockFollows, Inside, Outside
  <2>2. UNCHANGED <<heap, linked, LastTaken>>
    BY <1>5, <2>1 DEF AddCount, linked, LastTaken, listVars, statVars, readerVars
  <2> QED BY <2>1, <2>2, FifoStutters
<1>6. ASSUME NEW to \in Succeeded, to \notin Outside, AddStat(to)
      PROVE  UNCHANGED Buffer!vars
  <2>1. /\ pc["writer"] = "stat" /\ pc'["writer"] = to
        /\ \A s \in Threads \ {"writer"} : pc'[s] = pc[s]
        /\ ~Tearing /\ ~Tearing'
    BY <1>0, <1>6, WorkerMoves DEF AddStat, Step, LockFollows, Inside, Outside
  <2>2. UNCHANGED <<heap, linked>>
    BY <1>0, <1>6, <2>1
       DEF AddStat, linked, listVars, Succeeded, Types, ProgramTypeOK, QueueTypeOK
  <2>3. UNCHANGED LastTaken
    BY <1>6, <2>1 DEF AddStat, LastTaken, readerVars
  <2> QED BY <2>1, <2>2, <2>3, FifoStutters
<1>7. ASSUME NEW from \in Succeeded, WriterSucceeds(from),
             LockFollows("writer", "loop")
      PROVE  UNCHANGED Buffer!vars
  <2>1. /\ pc["writer"] = from /\ pc'["writer"] = "loop"
        /\ \A s \in Threads \ {"writer"} : pc'[s] = pc[s]
        /\ ~Tearing /\ ~Tearing'
    BY <1>0, <1>7, WorkerMoves DEF WriterSucceeds, Step, Succeeded
  <2>2. UNCHANGED <<heap, linked, LastTaken>>
    BY <1>7, <2>1
       DEF WriterSucceeds, linked, LastTaken, queueVars, listVars, statVars,
           readerVars, Succeeded
  <2> QED BY <2>1, <2>2, FifoStutters
<1>8. CASE GetUnlink
  <2>1. /\ UnlinkFirst /\ first \in heap /\ got' = unlinked
        /\ linked' = linked /\ unlinked' = unlinked + 1 /\ unlinked < linked
        /\ pc["reader"] = "unlink" /\ pc'["reader"] = "count"
        /\ ~Tearing /\ ~Tearing'
    BY <1>8, GetUnlinkTakes
  <2>2. Queued = Interval(unlinked, linked) /\ Queued' = Interval(unlinked + 1, linked)
    <3>1. Cardinality(heap) = linked - unlinked
      BY <1>0, <2>1 DEF ListInv
    <3>2. Cardinality(heap') = linked - (unlinked + 1)
      BY <2>1 DEF QueueInv, ListInv
    <3> QED BY <1>1, <2>1, <3>1, <3>2 DEF QueuedInv
  <2>3. Queued # <<>> /\ Head(Queued) = unlinked /\ Queued' = Tail(Queued)
    <3>1. /\ unlinked = linked <=> Interval(unlinked, linked) = <<>>
          /\ Head(Interval(unlinked, linked)) = unlinked
          /\ Tail(Interval(unlinked, linked)) = Interval(unlinked + 1, linked)
      BY <1>1, <2>1, IntervalSeq, Zenon
    <3> QED BY <1>1, <2>1, <2>2, <3>1
  <2>4. LastTaken' = Head(Queued)
    BY <2>1, <2>3 DEF LastTaken
  <2>5. Buffer!Take
    BY <2>1, <2>3, <2>4, SameTearing DEF Buffer!Take
  <2> QED BY <2>5 DEF Buffer!Next
<1>9. CASE GetCount
  <2>1. /\ pc["reader"] = "count" /\ pc'["reader"] = "stat"
        /\ \A s \in Threads \ {"reader"} : pc'[s] = pc[s]
        /\ ~Tearing /\ ~Tearing'
    BY <1>0, <1>9, WorkerMoves DEF GetCount, Step, LockFollows, Inside, Outside
  <2>2. UNCHANGED <<heap, linked, LastTaken>>
    BY <1>9, <2>1 DEF GetCount, linked, LastTaken, listVars, statVars, readerVars
  <2> QED BY <2>1, <2>2, FifoStutters
<1>10. ASSUME NEW to \in Succeeded, to \notin Outside, GetStat(to)
       PROVE  UNCHANGED Buffer!vars
  <2>1. /\ pc["reader"] = "stat" /\ pc'["reader"] = to
        /\ \A s \in Threads \ {"reader"} : pc'[s] = pc[s]
        /\ ~Tearing /\ ~Tearing'
    BY <1>0, <1>10, WorkerMoves DEF GetStat, Step, LockFollows, Inside, Outside
  <2>2. UNCHANGED <<heap, linked, LastTaken>>
    BY <1>10, <2>1 DEF GetStat, linked, LastTaken, listVars, readerVars, Succeeded
  <2> QED BY <2>1, <2>2, FifoStutters
<1>11. ASSUME NEW from \in Succeeded, ReaderSucceeds(from),
              LockFollows("reader", "loop")
       PROVE  UNCHANGED Buffer!vars
  <2>1. /\ pc["reader"] = from /\ pc'["reader"] = "loop"
        /\ \A s \in Threads \ {"reader"} : pc'[s] = pc[s]
        /\ ~Tearing /\ ~Tearing'
    BY <1>0, <1>11, WorkerMoves DEF ReaderSucceeds, Step, Succeeded
  <2>2. UNCHANGED <<heap, linked>>
    BY <1>11, <2>1 DEF ReaderSucceeds, linked, queueVars, listVars, statVars
  <2>3. LastTaken = got /\ LastTaken' = expected' - 1 /\ expected' = got + 1
    BY <1>11, <2>1 DEF ReaderSucceeds, LastTaken, Succeeded
  <2>4. UNCHANGED LastTaken
    BY <2>3, <1>0 DEF Types, ProgramTypeOK
  <2> QED BY <2>1, <2>2, <2>4, FifoStutters
<1>12. CASE MainStep /\ UNCHANGED lock
  <2>1. UNCHANGED <<linked, LastTaken>>
    <3>1. /\ pc'["writer"] = pc["writer"]
               \/ (pc["writer"] = "none" /\ pc'["writer"] = "loop")
          /\ pc'["reader"] = pc["reader"]
               \/ (pc["reader"] = "none" /\ pc'["reader"] = "loop")
      BY <1>0, <1>12
         DEF MainStep, CreateMonitor, CreateReader, CreateWriter, Create,
             CreateFails, SetStop, JoinReader, JoinWriter, Join, DestroyStop,
             JoinMonitor, FreeNode, FreeNodesDone, FreeQueue, Step, Types, MainInv
    <3>2. UNCHANGED <<add_count, got, expected>>
      BY <1>12
         DEF MainStep, CreateMonitor, CreateReader, CreateWriter, Create,
             CreateFails, SetStop, JoinReader, JoinWriter, Join, DestroyStop,
             JoinMonitor, FreeNode, FreeNodesDone, FreeQueue, queueVars, statVars,
             readerVars
    <3> QED BY <3>1, <3>2 DEF linked, LastTaken, Succeeded
  <2>2. CASE JoinMonitor
    <3>1. ~Tearing /\ Tearing' /\ UNCHANGED heap
      BY <1>0, <2>2 DEF JoinMonitor, Step, Types, Tearing, queueVars, listVars
    <3>2. UNCHANGED Queued
      BY <2>1, <3>1, SameQueued
    <3> QED BY <2>1, <3>1, <3>2 DEF Buffer!Next, Buffer!Close, Tearing
  <2>3. CASE FreeNode
    <3> DEFINE lo == linked - Cardinality(heap)
    <3>1. /\ pc["main"] = "free_nodes" /\ curr # NULL /\ UNCHANGED pc
          /\ Cardinality(heap) <= linked /\ lo \in Nat
          /\ IsChain(heap, val, next, curr, lo, linked)
      BY <1>0, <1>1, <2>3 DEF FreeNode, ListInv
    <3>2. lo < linked /\ curr \in heap
      BY <3>1, <1>1 DEF IsChain
    <3>3. Cardinality(heap') = Cardinality(heap) - 1
      BY <1>1, <2>3, <3>2, FS_RemoveElement DEF FreeNode, Free
    <3>4. Queued = Interval(lo, linked) /\ Queued' = Interval(lo + 1, linked)
      <4>1. linked' - Cardinality(heap') = lo + 1
        BY <1>1, <2>1, <3>3
      <4> QED BY <2>1, <4>1 DEF QueuedInv
    <3>5. Queued # <<>> /\ Queued' = Tail(Queued)
      <4> HIDE DEF lo
      <4>1. /\ lo = linked <=> Interval(lo, linked) = <<>>
            /\ Tail(Interval(lo, linked)) = Interval(lo + 1, linked)
        BY <1>1, <3>1, <3>2, IntervalSeq
      <4> QED BY <1>1, <3>1, <3>2, <3>4, <4>1
    <3> QED BY <2>1, <3>1, <3>5 DEF Buffer!Next, Buffer!Discard, Tearing
  <2>4. CASE FreeNodesDone \/ FreeQueue
    <3>1. Tearing /\ Tearing' /\ UNCHANGED heap
      BY <1>0, <2>4
         DEF FreeNodesDone, FreeQueue, Step, Types, Tearing, queueVars, listVars
    <3> QED BY <2>1, <3>1, FifoStutters DEF Tearing
  <2>5. CASE \/ CreateMonitor \/ CreateReader \/ CreateWriter \/ CreateFails
             \/ SetStop \/ JoinReader \/ JoinWriter \/ DestroyStop
    <3>1. ~Tearing /\ ~Tearing' /\ UNCHANGED heap
      BY <1>0, <2>5
         DEF CreateMonitor, CreateReader, CreateWriter, Create, CreateFails,
             SetStop, JoinReader, JoinWriter, Join, DestroyStop, Step, Types,
             Tearing, queueVars, listVars
    <3> QED BY <2>1, <3>1, FifoStutters DEF Tearing
  <2> QED BY <1>12, <2>2, <2>3, <2>4, <2>5 DEF MainStep
<1> QED BY <1>2, <1>3, <1>4, <1>5, <1>6, <1>7, <1>8, <1>9, <1>10, <1>11, <1>12
        DEF QueueStep

-----------------------------------------------------------------------------
(* The steps the three queues share, as QueueSteps.                        *)

(* A thread leaves its loop or calls one of the functions.                 *)
LEMMA LoopSteps ==
  ASSUME QueueInv, UNCHANGED lock
  PROVE  /\ \A t \in Workers : LeaveLoop(t) => ControlStep(t, "done")
         /\ \A entry \in {"lock", "wait"} :
              /\ WriterCalls(entry) => ControlStep("writer", entry)
              /\ ReaderCalls(entry) => ControlStep("reader", entry)
<1>0. Types
  BY QueueInvParts
<1> USE <1>0 DEF ControlStep, LockFollows, Inside, Outside, Busy, Succeeded, Step,
             Types, ProgramTypeOK, QueueTypeOK, queueVars, statVars, readerVars
<1>1. ASSUME NEW t \in Workers, LeaveLoop(t)
      PROVE  ControlStep(t, "done")
  BY <1>1 DEF LeaveLoop
<1>2. ASSUME NEW entry \in {"lock", "wait"}, WriterCalls(entry)
      PROVE  ControlStep("writer", entry)
  BY <1>2 DEF WriterCalls
<1>3. ASSUME NEW entry \in {"lock", "wait"}, ReaderCalls(entry)
      PROVE  ControlStep("reader", entry)
  BY <1>3 DEF ReaderCalls
<1> QED BY <1>1, <1>2, <1>3

(* It takes the lock.                                                      *)
LEMMA AcquireStep ==
  ASSUME QueueInv, NEW t \in Workers, NEW from \in {"lock", "waiting"},
         NEW to, to \notin Outside, to \notin Busy, Acquire(t, from, to)
  PROVE  ControlStep(t, to)
<1>1. Types
  BY QueueInvParts
<1> QED BY <1>1
        DEF Acquire, ControlStep, LockFollows, Inside, Outside, Busy, Succeeded,
            Step, Types, ProgramTypeOK, QueueTypeOK, queueVars, statVars, readerVars

(* The monitor prints under the lock.                                      *)
LEMMA MonitorQueueStep ==
  ASSUME QueueInv, MonitorStep
  PROVE  /\ QueueStep
         /\ \E to \in MonitorLabels : pc' = [pc EXCEPT !["qmonitor"] = to]
         /\ UNCHANGED <<count, add_attempts, add_count>>
<1>0. Types
  BY QueueInvParts
<1> USE <1>0 DEF Step, Types, ProgramTypeOK, QueueTypeOK, queueVars, statVars,
             readerVars
<1>1. \E to \in MonitorLabels : /\ pc' = [pc EXCEPT !["qmonitor"] = to]
                                /\ ControlStep("qmonitor", to)
  <2>1. CASE LeaveLoop("qmonitor") /\ UNCHANGED lock
    BY <2>1, LoopSteps DEF LeaveLoop, MonitorLabels
  <2>2. CASE MonitorCalls("lock") /\ UNCHANGED lock
    BY <2>2
       DEF MonitorCalls, ControlStep, LockFollows, Inside, Outside, MonitorLabels
  <2>3. CASE StatsLock
    <3>1. "print" \notin Outside /\ "print" \notin Busy
      BY DEF Outside, Busy, Succeeded
    <3> QED BY <2>3, <3>1, AcquireStep DEF StatsLock, Acquire, MonitorLabels
  <2>4. CASE StatsPrint
    BY <2>4
       DEF StatsPrint, ShowStats, ControlStep, LockFollows, Inside, Outside,
           MonitorLabels
  <2>5. CASE StatsUnlock
    BY <2>5
       DEF StatsUnlock, TriesAgain, Release, ControlStep, LockFollows, Inside,
           Outside, MonitorLabels
  <2> QED BY <2>1, <2>2, <2>3, <2>4, <2>5 DEF MonitorStep
<1>2. UNCHANGED <<count, add_attempts, add_count>>
  BY DEF MonitorStep, MonitorCalls, LeaveLoop, StatsLock, Acquire, StatsPrint,
         ShowStats, StatsUnlock, TriesAgain
<1> QED BY <1>1, <1>2 DEF QueueStep

(* main moves itself and starts threads; it counts nothing.                *)
LEMMA MainFrame ==
  ASSUME QueueInv, MainStep, pc["main"] \in MainLabels
  PROVE  /\ pc'["main"] \in MainLabels
         /\ \A t \in Workers :
              pc'[t] = pc[t] \/ (pc[t] = "none" /\ pc'[t] = "loop")
         /\ UNCHANGED <<count, add_attempts, add_count>>
<1>1. Types /\ MainInv
  BY QueueInvParts
<1> QED BY <1>1
        DEF MainStep, CreateMonitor, CreateReader, CreateWriter, Create,
            CreateFails, SetStop, JoinReader, JoinWriter, Join, DestroyStop,
            JoinMonitor, FreeNode, FreeNodesDone, FreeQueue, Step, Types, MainInv,
            MainLabels, queueVars, statVars

(* Only the writer's steps matter to the number of its calls.              *)
LEMMA SameAttempts ==
  ASSUME AttemptsInv, UNCHANGED <<add_attempts, add_count>>,
         pc'["writer"] = pc["writer"] \/ pc'["writer"] = "loop",
         pc["writer"] \notin {"count", "stat"} \/ pc'["writer"] = pc["writer"]
  PROVE  AttemptsInv'
BY DEF AttemptsInv, linked

(* Where AttemptsInv starts.                                               *)
LEMMA AttemptsInit == GuardedInit => AttemptsInv
<1> SUFFICES ASSUME GuardedInit PROVE AttemptsInv
  OBVIOUS
<1>1. pc["writer"] = "none" /\ add_attempts = 0 /\ add_count = 0
  BY DEF GuardedInit, ProgramInit, QueueInit
<1> QED BY <1>1, MaxAttemptsAssumption DEF AttemptsInv, linked

(* A step that changes nothing keeps what was established.                 *)
LEMMA GuardedStutter ==
  ASSUME QueueInv, AttemptsInv, UNCHANGED <<queueVars, programVars, lock>>
  PROVE  QueueInv' /\ AttemptsInv' /\ UNCHANGED Buffer!vars
<1>0. Types /\ LockInv /\ MainInv /\ CountInv /\ ListInv /\ ValueInv /\ Outcome
  BY QueueInvParts DEF Data
<1> USE DEF queueVars, listVars, statVars, programVars, mainVars, readerVars
<1>1. UNCHANGED <<linked, unlinked>>
  BY DEF linked, unlinked
<1>2. Types' /\ LockInv' /\ MainInv'
  BY <1>0 DEF Types, ProgramTypeOK, QueueTypeOK, LockInv, Inside, MainInv, Tearing
<1>3. CountInv' /\ ValueInv' /\ AttemptsInv'
  BY <1>0, <1>1 DEF CountInv, ValueInv, AttemptsInv
<1>4. ListInv'
  BY <1>0, <1>1, SameList
<1>5. Outcome'
  BY <1>0, SameOutcome
<1>6. UNCHANGED Buffer!vars
  BY DEF Buffer!vars, Queued, Contents, LastTaken, Tearing
<1> QED BY <1>2, <1>3, <1>4, <1>5, <1>6, Zenon DEF QueueInv, Types, Outcome

-----------------------------------------------------------------------------
(* How long a queue goes on after the stop.                                *)

(* A weight for the steps left to a thread from a label to its end, when   *)
(* its loop is not taken again.  Linking a node leaves one more to free,   *)
(* and a signal may send the other worker back from waiting to its test.   *)
After(p) ==
  CASE p = "wait" -> 17       [] p = "lock" -> 16
    [] p = "enter" -> 15      [] p = "test" -> 14
    [] p = "waiting" -> 13
    [] p = "link" -> 12       [] p = "unlink" -> 12
    [] p = "count" -> 10      [] p = "stat" -> 9
    [] p = "signal" -> 8      [] p = "print" -> 6
    [] p = "unlock" -> 5      [] p = "unlock_full" -> 5
    [] p = "unlock_empty" -> 5
    [] p = "post" -> 4        [] p = "loop" -> 1
    [] p = "join_reader" -> 6 [] p = "join_writer" -> 5
    [] p = "destroy" -> 4     [] p = "join_qmonitor" -> 3
    [] p = "free_nodes" -> 2  [] p = "free_queue" -> 1
    [] OTHER -> 0

Alive == IF Running THEN 1 ELSE 0

StepsLeft ==
  Alive + After(pc["main"]) + After(pc["writer"]) + After(pc["reader"])
        + After(pc["qmonitor"]) + Cardinality(heap)

Creating == {"create_qmonitor", "create_reader", "create_writer"}

(* What main has done by the time it is at a label: created the threads,   *)
(* and once it has slept, and only then, stopped the queue.                *)
StageInv ==
  /\ stop <=> pc["main"] \notin Creating \cup {"sleep"}
  /\ pc["main"] # "create_qmonitor" => pc["qmonitor"] # "none"
  /\ pc["main"] \notin {"create_qmonitor", "create_reader"} => pc["reader"] # "none"
  /\ pc["main"] \notin Creating => pc["writer"] # "none"
  /\ Running => pc["main"] # "returned"

(* The labels the steps come from and go to.                               *)
LEMMA AfterLabels ==
  /\ \A p : After(p) \in 0 .. 17
  /\ After("wait") = 17 /\ After("lock") = 16 /\ After("enter") = 15
  /\ After("test") = 14 /\ After("waiting") = 13
  /\ After("link") = 12 /\ After("unlink") = 12 /\ After("count") = 10
  /\ After("stat") = 9 /\ After("signal") = 8 /\ After("print") = 6
  /\ After("unlock") = 5 /\ After("unlock_full") = 5 /\ After("unlock_empty") = 5
  /\ After("post") = 4 /\ After("loop") = 1 /\ After("done") = 0
BY DEF After

(* The same for main.                                                      *)
LEMMA AfterMainLabels ==
  /\ After("join_reader") = 6 /\ After("join_writer") = 5 /\ After("destroy") = 4
  /\ After("join_qmonitor") = 3 /\ After("free_nodes") = 2
  /\ After("free_queue") = 1 /\ After("returned") = 0
BY DEF After

(* Where main starts.                                                      *)
LEMMA StageInit == GuardedInit => StageInv
BY DEF GuardedInit, ProgramInit, StageInv, Creating

(* Only main creates threads and stops the queue.                          *)
LEMMA StageStep ==
  ASSUME Types, StageInv, QueueStep
  PROVE  StageInv'
<1>1. CASE MainStep
  BY <1>1
     DEF StageInv, Creating, MainStep, CreateMonitor, CreateReader, CreateWriter,
         Create, CreateFails, SetStop, JoinReader, JoinWriter, Join, DestroyStop,
         JoinMonitor, FreeNode, FreeNodesDone, FreeQueue, Step, Types, mainVars,
         Running
<1>2. CASE ~MainStep
  <2>1. /\ UNCHANGED <<stop, pc["main"]>>
        /\ \A t \in Workers : pc[t] # "none" => pc'[t] # "none"
        /\ Running' => Running
    BY <1>2 DEF QueueStep, ControlStep, AddNoMemory, OutOfMemory, AddLink, AddCount,
                AddStat, WriterSucceeds, GetUnlink, GetCount, GetStat,
                ReaderSucceeds, Step, Types, mainVars, Succeeded, Running
  <2> QED BY <2>1 DEF StageInv
<1> QED BY <1>1, <1>2

(* What a step of a worker, with what it does to the heap, adds or takes.  *)
LEMMA WorkerCosts ==
  ASSUME Types, IsFiniteSet(heap), IsFiniteSet(heap'), Running,
         NEW t \in Workers, NEW to, pc' = [pc EXCEPT ![t] = to]
  PROVE  /\ StepsLeft \in Nat /\ StepsLeft' \in Nat
         /\ StepsLeft' + After(pc[t]) + Cardinality(heap)
              <= StepsLeft + After(to) + Cardinality(heap')
<1>1. Cardinality(heap) \in Nat /\ Cardinality(heap') \in Nat
  BY FS_CardinalityType
<1>2. Alive = 1 /\ Alive' \in 0 .. 1
  BY DEF Alive
<1>3. pc'[t] = to /\ \A s \in Threads \ {t} : pc'[s] = pc[s]
  BY DEF Types
<1>4. \A p : After(p) \in 0 .. 17
  BY AfterLabels
<1> DEFINE a(s) == After(pc[s])
           b(s) == After(pc'[s])
<1>5. \A s \in Threads : a(s) \in 0 .. 17 /\ b(s) \in 0 .. 17
  BY <1>4
<1>6. /\ \A s \in Threads \ {t} : b(s) = a(s)
      /\ b(t) = After(to) /\ a(t) = After(pc[t])
  BY <1>3
<1>7. /\ StepsLeft = Alive + a("main") + a("writer") + a("reader") + a("qmonitor")
                     + Cardinality(heap)
      /\ StepsLeft' = Alive' + b("main") + b("writer") + b("reader") + b("qmonitor")
                      + Cardinality(heap')
  BY DEF StepsLeft
<1> HIDE DEF a, b
<1>8. /\ a("main") \in Nat /\ b("main") = a("main")
      /\ a("writer") \in Nat /\ b("writer") \in Nat /\ a("reader") \in Nat
      /\ b("reader") \in Nat /\ a("qmonitor") \in Nat /\ b("qmonitor") \in Nat
  BY <1>5, <1>6
<1>9. b("writer") + b("reader") + b("qmonitor") + a(t)
        = a("writer") + a("reader") + a("qmonitor") + b(t)
  <2>1. CASE t = "writer"
    <3>1. b("reader") = a("reader") /\ b("qmonitor") = a("qmonitor")
      BY <1>6, <2>1
    <3> QED BY <1>1, <1>6, <1>8, <2>1, <3>1
  <2>2. CASE t = "reader"
    <3>1. b("writer") = a("writer") /\ b("qmonitor") = a("qmonitor")
      BY <1>6, <2>2
    <3> QED BY <1>1, <1>6, <1>8, <2>2, <3>1
  <2>3. CASE t = "qmonitor"
    <3>1. b("writer") = a("writer") /\ b("reader") = a("reader")
      BY <1>6, <2>3
    <3> QED BY <1>1, <1>6, <1>8, <2>3, <3>1
  <2> QED BY <2>1, <2>2, <2>3
<1>10. a(t) \in Nat /\ b(t) \in Nat
  BY <1>5
<1>11. /\ StepsLeft \in Nat /\ StepsLeft' \in Nat
       /\ StepsLeft' + a(t) + Cardinality(heap) <= StepsLeft + b(t) + Cardinality(heap')
  BY <1>1, <1>2, <1>7, <1>8, <1>9, <1>10
<1> QED BY <1>6, <1>11

(* A worker that comes closer to its end brings the program closer to it.  *)
LEMMA WorkerNearsEnd ==
  ASSUME Types, IsFiniteSet(heap), IsFiniteSet(heap'), Running,
         NEW t \in Workers, NEW to, pc' = [pc EXCEPT ![t] = to],
         After(to) + Cardinality(heap') < After(pc[t]) + Cardinality(heap)
  PROVE  StepsLeft' < StepsLeft
<1>1. /\ Cardinality(heap) \in Nat /\ Cardinality(heap') \in Nat
      /\ After(to) \in 0 .. 17 /\ After(pc[t]) \in 0 .. 17
  BY FS_CardinalityType, AfterLabels
<1>2. /\ StepsLeft \in Nat /\ StepsLeft' \in Nat
      /\ StepsLeft' + After(pc[t]) + Cardinality(heap)
           <= StepsLeft + After(to) + Cardinality(heap')
  BY WorkerCosts
<1> QED BY <1>1, <1>2

(* The same where the heap stays.                                          *)
LEMMA CalmWorkerNearsEnd ==
  ASSUME Types, IsFiniteSet(heap), Running, UNCHANGED heap,
         NEW t \in Workers, NEW to, pc' = [pc EXCEPT ![t] = to],
         After(to) < After(pc[t])
  PROVE  StepsLeft' < StepsLeft
<1>1. After(to) \in 0 .. 17 /\ After(pc[t]) \in 0 .. 17
  BY AfterLabels
<1>2. Cardinality(heap) \in Nat /\ Cardinality(heap') = Cardinality(heap)
  BY FS_CardinalityType
<1>3. After(to) + Cardinality(heap') < After(pc[t]) + Cardinality(heap)
  BY <1>1, <1>2
<1> QED BY <1>2, <1>3, WorkerNearsEnd

(* A new node has to be freed, but queue_add has less left to do.          *)
LEMMA NodeNearsEnd ==
  ASSUME Types, IsFiniteSet(heap),
         NEW to \in {"signal", "unlock"},
         \/ AddNoMemory \/ AddLink \/ AddCount \/ AddStat(to)
         \/ GetUnlink \/ GetCount \/ GetStat(to)
  PROVE  StepsLeft' < StepsLeft
<1>0. Cardinality(heap) \in Nat
  BY FS_CardinalityType
<1>1. CASE AddNoMemory
  <2>1. Alive = 1 /\ Alive' = 0 /\ UNCHANGED <<pc, heap>>
    BY <1>1 DEF AddNoMemory, OutOfMemory, Alive, Running, queueVars, listVars
  <2>2. /\ After(pc["main"]) \in Nat /\ After(pc["writer"]) \in Nat
        /\ After(pc["reader"]) \in Nat /\ After(pc["qmonitor"]) \in Nat
    BY AfterLabels
  <2>3. StepsLeft' = 0 + After(pc["main"]) + After(pc["writer"])
                       + After(pc["reader"]) + After(pc["qmonitor"])
                       + Cardinality(heap)
    BY <2>1 DEF StepsLeft
  <2>4. StepsLeft = 1 + After(pc["main"]) + After(pc["writer"])
                      + After(pc["reader"]) + After(pc["qmonitor"])
                      + Cardinality(heap)
    BY <2>1 DEF StepsLeft
  <2> QED BY <1>0, <2>2, <2>3, <2>4
<1>2. CASE AddLink
  <2>1. UNCHANGED heap \/ \E n \in Nodes : n \notin heap /\ heap' = heap \cup {n}
    BY <1>2 DEF AddLink, LinkNode, Allocate, listVars
  <2>2. /\ IsFiniteSet(heap') /\ Cardinality(heap') \in Nat
        /\ Cardinality(heap') <= Cardinality(heap) + 1
    BY <1>0, <2>1, FS_AddElement
  <2>3. Running /\ pc["writer"] = "link" /\ pc' = [pc EXCEPT !["writer"] = "count"]
    BY <1>2 DEF AddLink, Step
  <2>4. After("count") + Cardinality(heap') < After(pc["writer"]) + Cardinality(heap)
    BY <1>0, <2>2, <2>3, AfterLabels
  <2> QED BY <2>2, <2>3, <2>4, WorkerNearsEnd
<1>3. CASE AddCount \/ AddStat(to)
  <2>1. /\ Running /\ UNCHANGED heap
        /\ \/ pc["writer"] = "count" /\ pc' = [pc EXCEPT !["writer"] = "stat"]
           \/ pc["writer"] = "stat" /\ pc' = [pc EXCEPT !["writer"] = to]
    BY <1>3 DEF AddCount, AddStat, Step, listVars
  <2> QED BY <2>1, AfterLabels, CalmWorkerNearsEnd
<1>4. CASE GetUnlink
  <2>1. /\ Running /\ pc["reader"] = "unlink"
        /\ pc' = [pc EXCEPT !["reader"] = "count"]
        /\ UNCHANGED heap \/ heap' = heap \ {first}
    BY <1>4 DEF GetUnlink, UnlinkFirst, Free, Step, listVars
  <2>2. IsFiniteSet(heap') /\ Cardinality(heap') <= Cardinality(heap)
    BY <1>0, <2>1, FS_Subset
  <2>3. Cardinality(heap') \in Nat
    BY <2>2, FS_CardinalityType
  <2>4. After("count") + Cardinality(heap') < After(pc["reader"]) + Cardinality(heap)
    BY <1>0, <2>1, <2>2, <2>3, AfterLabels
  <2> QED BY <2>1, <2>2, <2>4, WorkerNearsEnd
<1>5. CASE GetCount \/ GetStat(to)
  <2>1. /\ Running /\ UNCHANGED heap
        /\ \/ pc["reader"] = "count" /\ pc' = [pc EXCEPT !["reader"] = "stat"]
           \/ pc["reader"] = "stat" /\ pc' = [pc EXCEPT !["reader"] = to]
    BY <1>5 DEF GetCount, GetStat, Step, listVars
  <2> QED BY <2>1, AfterLabels, CalmWorkerNearsEnd
<1> QED BY <1>1, <1>2, <1>3, <1>4, <1>5

(* So has a process that has ended, and one whose main moved on.           *)
LEMMA MainNearsEnd ==
  ASSUME Types, IsFiniteSet(heap), StageInv, stop, MainStep
  PROVE  StepsLeft' < StepsLeft
<1>0. Running /\ UNCHANGED <<pc["writer"], pc["reader"], pc["qmonitor"]>>
  BY DEF StageInv, Creating, MainStep, CreateMonitor, CreateReader, CreateWriter, Create,
         CreateFails, SetStop, JoinReader, JoinWriter, Join, DestroyStop,
         JoinMonitor, FreeNode, FreeNodesDone, FreeQueue, Step, Types
<1>1. \/ /\ After(pc'["main"]) < After(pc["main"]) /\ UNCHANGED heap
      \/ /\ UNCHANGED <<pc["main"], heap>> /\ ~Running'
      \/ /\ UNCHANGED pc["main"] /\ curr \in heap /\ heap' = heap \ {curr}
  <2>1. CASE CreateMonitor \/ CreateReader \/ CreateWriter \/ CreateFails \/ SetStop
    BY <2>1 DEF StageInv, Creating, CreateMonitor, CreateReader, CreateWriter, Create,
                CreateFails, SetStop, Step
  <2>2. CASE JoinReader \/ JoinWriter \/ DestroyStop \/ JoinMonitor
    <3>1. /\ UNCHANGED heap
          /\ \/ pc["main"] = "join_reader" /\ pc'["main"] = "join_writer"
             \/ pc["main"] = "join_writer" /\ pc'["main"] = "destroy"
             \/ pc["main"] = "destroy" /\ pc'["main"] = "join_qmonitor"
             \/ pc["main"] = "join_qmonitor" /\ pc'["main"] = "free_nodes"
      BY <2>2 DEF JoinReader, JoinWriter, Join, DestroyStop, JoinMonitor, Step,
                  Types, queueVars, listVars
    <3> QED BY <3>1, AfterMainLabels
  <2>3. CASE FreeNode
    BY <2>3 DEF FreeNode, Free, Running
  <2>4. CASE FreeNodesDone \/ FreeQueue
    BY <2>4, AfterMainLabels
       DEF FreeNodesDone, FreeQueue, Step, Types, queueVars, listVars
  <2> QED BY <2>1, <2>2, <2>3, <2>4 DEF MainStep
<1>2. Alive = 1 /\ Alive' \in 0 .. 1 /\ (~Running' => Alive' = 0)
  BY <1>0 DEF Alive
<1>3. /\ \A p : After(p) \in 0 .. 17
      /\ Cardinality(heap) \in Nat
  BY AfterLabels, FS_CardinalityType
<1>4. curr \in heap /\ heap' = heap \ {curr} =>
        Cardinality(heap') = Cardinality(heap) - 1
  BY FS_RemoveElement
<1> DEFINE rest == After(pc["writer"]) + After(pc["reader"]) + After(pc["qmonitor"])
<1>5. /\ After(pc["main"]) \in Nat /\ After(pc["writer"]) \in Nat
      /\ After(pc["reader"]) \in Nat /\ After(pc["qmonitor"]) \in Nat
      /\ After(pc'["main"]) \in Nat
  BY <1>3
<1>6. /\ StepsLeft = Alive + After(pc["main"]) + rest + Cardinality(heap)
      /\ StepsLeft' = Alive' + After(pc'["main"]) + rest + Cardinality(heap')
      /\ rest \in Nat
  <2>1. /\ After(pc'["writer"]) = After(pc["writer"])
        /\ After(pc'["reader"]) = After(pc["reader"])
        /\ After(pc'["qmonitor"]) = After(pc["qmonitor"])
    BY <1>0
  <2>2. StepsLeft' = Alive' + After(pc'["main"]) + After(pc["writer"])
                     + After(pc["reader"]) + After(pc["qmonitor"]) + Cardinality(heap')
    BY <2>1 DEF StepsLeft
  <2>3. Alive \in Nat /\ Alive' \in Nat /\ rest \in Nat
    BY <1>2, <1>5
  <2>4. Cardinality(heap') \in Int
    BY <1>1, <1>3, <1>4
  <2>5. StepsLeft = Alive + After(pc["main"]) + After(pc["writer"])
                    + After(pc["reader"]) + After(pc["qmonitor"]) + Cardinality(heap)
    BY DEF StepsLeft
  <2> QED BY <1>3, <1>5, <2>2, <2>3, <2>4, <2>5
<1> HIDE DEF rest
<1>7. CASE After(pc'["main"]) < After(pc["main"]) /\ UNCHANGED heap
  BY <1>2, <1>3, <1>5, <1>6, <1>7
<1>8. CASE UNCHANGED <<pc["main"], heap>> /\ ~Running'
  BY <1>2, <1>3, <1>5, <1>6, <1>8
<1>9. CASE UNCHANGED pc["main"] /\ curr \in heap /\ heap' = heap \ {curr}
  BY <1>2, <1>3, <1>4, <1>5, <1>6, <1>9
<1> QED BY <1>1, <1>7, <1>8, <1>9

(* The monitor after the stop.                                             *)
LEMMA MonitorNearsEnd ==
  ASSUME Types, IsFiniteSet(heap), stop, MonitorStep
  PROVE  StepsLeft' < StepsLeft
<1>1. /\ Running /\ UNCHANGED heap
      /\ \E to : /\ pc' = [pc EXCEPT !["qmonitor"] = to]
                 /\ After(to) < After(pc["qmonitor"])
  BY AfterLabels
     DEF MonitorStep, MonitorCalls, LeaveLoop, StatsLock, Acquire, StatsPrint,
         ShowStats, StatsUnlock, TriesAgain, Step, queueVars, listVars
<1>2. PICK to : /\ pc' = [pc EXCEPT !["qmonitor"] = to]
                /\ After(to) < After(pc["qmonitor"])
  BY <1>1
<1> QED BY <1>1, <1>2, CalmWorkerNearsEnd

(* What the steps left are at most.                                        *)
LEMMA FewStepsLeft ==
  ASSUME QueueInv
  PROVE  StepsLeft \in Nat /\ (~Tearing => StepsLeft <= MaxCount + 69)
<1>1. Types /\ ListInv /\ CountInv
  BY QueueInvParts DEF Data
<1>2. Cardinality(heap) \in Nat /\ Alive \in 0 .. 1 /\ MaxCount \in Nat
  BY <1>1, FS_CardinalityType, QueueDataAssumption DEF ListInv, Alive
<1>3. \A p : After(p) \in 0 .. 17
  BY AfterLabels
<1>4. ~Tearing => Cardinality(heap) <= MaxCount
  BY <1>1, <1>2 DEF ListInv, CountInv, linked, unlinked, Types, ProgramTypeOK, QueueTypeOK
<1> QED BY <1>2, <1>3, <1>4 DEF StepsLeft

-----------------------------------------------------------------------------
(* Who cannot go on.                                                       *)

(* The calls a worker has left, by the bound of the model.                 *)
CallsLeft(t) ==
  CASE t = "writer" -> add_attempts < MaxAttempts
    [] t = "reader" -> get_attempts < MaxAttempts
    [] OTHER -> TRUE

(* main is in a join of a thread that has not ended, or has returned.      *)
MainBlocked ==
  \/ pc["main"] = "join_reader" /\ pc["reader"] # "done"
  \/ pc["main"] = "join_writer" /\ pc["writer"] # "done"
  \/ pc["main"] = "join_qmonitor" /\ pc["qmonitor"] # "done"
  \/ pc["main"] = "returned"

(* A worker does not exist yet, has ended, waits for the lock, or has made *)
(* the calls main's sleep leaves time for.                                 *)
WorkerBlocked(t) ==
  \/ pc[t] \in {"none", "done"}
  \/ pc[t] \in {"lock", "waiting"} /\ lock # "nobody"
  \/ pc[t] = "loop" /\ ~stop /\ ~CallsLeft(t)

(* When main and the monitor are blocked and nobody is inside the lock,    *)
(* main waits for one of the two workers, after the stop, or for nobody.   *)
LEMMA WhoIsBlocked ==
  ASSUME QueueInv, StageInv, Running, MainBlocked, WorkerBlocked("qmonitor"),
         pc["main"] \in MainLabels, \A t \in Workers : ~Inside(t)
  PROVE  /\ lock = "nobody" /\ stop /\ pc["qmonitor"] = "done"
         /\ \A t \in Workers : pc[t] # "none"
         /\ \/ pc["main"] = "join_reader" /\ pc["reader"] # "done"
            \/ /\ pc["main"] = "join_writer" /\ pc["writer"] # "done"
               /\ pc["reader"] = "done"
<1>1. LockInv /\ MainInv
  BY QueueInvParts
<1>2. lock = "nobody"
  BY <1>1 DEF LockInv, Inside
<1>3. /\ stop /\ \A t \in Workers : pc[t] # "none"
      /\ pc["main"] \in {"join_reader", "join_writer", "join_qmonitor"}
  BY DEF MainBlocked, StageInv, Creating
<1>4. pc["qmonitor"] = "done"
  BY <1>2, <1>3 DEF WorkerBlocked
<1> QED BY <1>1, <1>2, <1>3, <1>4 DEF MainBlocked, MainInv
=============================================================================

----------------------------- MODULE QueueData -----------------------------
(***************************************************************************)
(* The queue_t of Synchronization/: a singly linked list of heap nodes     *)
(* with a bounded length and four statistics counters.  This module holds  *)
(* the fields of the structure, the heap the nodes live in, and the list   *)
(* surgery that the five copies of queue.c share.  How the surgery is      *)
(* protected against other threads is the business of the modules that     *)
(* extend this one.                                                        *)
(***************************************************************************)
EXTENDS Integers, FiniteSets

CONSTANTS
  MaxCount,   \* q->max_count, the queue_size argument of the program
  Nodes,      \* the addresses malloc can return for a qnode_t
  NULL        \* the null pointer

ASSUME QueueDataAssumption ==
  /\ MaxCount \in Nat \ {0}     \* main replaces a queue_size <= 0
  /\ NULL \notin Nodes

VARIABLES
  first, last,                  \* q->first, q->last
  heap,                         \* the nodes allocated and not yet freed
  val, next,                    \* node->val, node->next, for the nodes of heap
  count,                        \* q->count
  add_attempts, get_attempts, add_count, get_count   \* the statistics

listVars == <<first, last, heap, val, next>>
statVars == <<add_attempts, get_attempts, add_count, get_count>>
queueVars == <<listVars, count, statVars>>

(* queue_init: an empty list and zeroed counters.                          *)
QueueInit ==
  /\ first = NULL /\ last = NULL
  /\ heap = {} /\ val = [n \in {} |-> 0] /\ next = [n \in {} |-> NULL]
  /\ count = 0
  /\ add_attempts = 0 /\ get_attempts = 0 /\ add_count = 0 /\ get_count = 0

-----------------------------------------------------------------------------

(* malloc of a node n and the two assignments to its fields.               *)
Allocate(n, v) ==
  /\ n \in Nodes \ heap
  /\ heap' = heap \cup {n}
  /\ val' = [m \in heap \cup {n} |-> IF m = n THEN v ELSE val[m]]

(* Mutant: q->last stays behind.                                           *)
LinkNodeKeepsLast(n, v) ==
  /\ Allocate(n, v)
  /\ first' = IF first = NULL THEN n ELSE first
  /\ last' = IF first = NULL THEN n ELSE last
  /\ next' = [m \in heap \cup {n} |->
                IF first # NULL /\ m = last THEN n
                ELSE IF m = n THEN NULL
                ELSE next[m]]

(* The tail of queue_add: hang the new node n, holding v, behind q->last.  *)
(* What is written to a q->last that was freed is lost.                    *)
LinkNode(n, v) ==
  /\ Allocate(n, v)
  /\ first' = IF first = NULL THEN n ELSE first
  /\ last' = n
  /\ next' = [m \in heap \cup {n} |->
                IF first # NULL /\ m = last THEN n
                ELSE IF m = n THEN NULL
                ELSE next[m]]

(* free(n): the node leaves the heap and its fields with it.               *)
Free(n) ==
  /\ heap' = heap \ {n}
  /\ val' = [m \in heap \ {n} |-> val[m]]
  /\ next' = [m \in heap \ {n} |-> next[m]]

(* Mutant: the queue_get of 2.1, which does not reset q->last.             *)
UnlinkFirstKeepsLast ==
  /\ first' = next[first]
  /\ last' = last
  /\ Free(first)

(* The body of queue_get: advance q->first, reset q->last when the list    *)
(* became empty, free the old head.                                        *)
UnlinkFirst ==
  /\ first' = next[first]
  /\ last' = IF next[first] = NULL THEN NULL ELSE last
  /\ Free(first)

-----------------------------------------------------------------------------

QueueTypeOK ==
  /\ first \in Nodes \cup {NULL}
  /\ last \in Nodes \cup {NULL}
  /\ heap \subseteq Nodes
  /\ val \in [heap -> Int]
  /\ next \in [heap -> Nodes \cup {NULL}]
  /\ count \in Int
  /\ add_attempts \in Nat /\ get_attempts \in Nat
  /\ add_count \in Nat /\ get_count \in Nat

(* The nodes h, with the fields v and nx, are one list that starts at head *)
(* and carries the consecutive values lo, lo+1, ..., hi-1 in this order.   *)
IsChain(h, v, nx, head, lo, hi) ==
  /\ \A n \in h : v[n] \in lo .. (hi - 1)
  /\ \A m, n \in h : v[m] = v[n] => m = n
  /\ \A n \in h : IF v[n] = hi - 1
                  THEN nx[n] = NULL
                  ELSE nx[n] \in h /\ v[nx[n]] = v[n] + 1
  /\ IF lo = hi THEN head = NULL ELSE head \in h /\ v[head] = lo

(* The tail points at the node with the newest value, or nowhere.          *)
IsTail(h, v, tail, lo, hi) ==
  IF lo = hi THEN tail = NULL ELSE tail \in h /\ v[tail] = hi - 1

(* The whole heap is the list between q->first and q->last, and it holds   *)
(* the values lo .. hi-1: nothing is lost, freed too early or shared.      *)
ListHolds(lo, hi) ==
  /\ IsChain(heap, val, next, first, lo, hi)
  /\ IsTail(heap, val, last, lo, hi)

(* The values a walk from head along next meets, as a sequence.            *)
Contents(head) ==
  LET length == Cardinality(heap)
      node[k \in 1 .. length] == IF k = 1 THEN head ELSE next[node[k - 1]]
  IN  [k \in 1 .. length |-> val[node[k]]]
=============================================================================

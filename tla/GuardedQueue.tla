---------------------------- MODULE GuardedQueue ----------------------------
(***************************************************************************)
(* What the queues of Synchronization/2.2 have in common.  In each of them *)
(* one lock guards the list, count and the statistics; they differ in how  *)
(* a call waits for its turn, for a place or for a value, which the        *)
(* modules that extend this one add: LockQueue, CondQueue, SemQueue.       *)
(*                                                                         *)
(* Inside the lock the tests, the list, count and the statistics are       *)
(* accessed in steps of their own, so that it is the lock, and not the     *)
(* grain of the model, that keeps the threads apart.                       *)
(***************************************************************************)
EXTENDS QueueProgram

VARIABLE lock                 \* the thread that holds q->lock, or "nobody"

GuardedInit == ProgramInit /\ lock = "nobody"

Acquire(t, from, to) ==
  /\ Step(t, from, to)
  /\ lock = "nobody"
  /\ lock' = t
  /\ UNCHANGED <<proc, mainVars, i, readerVars, shown, queueVars>>

Release == lock' = "nobody"

-----------------------------------------------------------------------------
(* queue_add behind its test for a full queue, up to the label "to" where  *)
(* the node is in the list and accounted for                               *)

AddNoMemory == OutOfMemory("link") /\ UNCHANGED lock

(* What q->last->next = new makes of the process: a null tail kills it, a  *)
(* freed one may.                                                          *)
LinkOutcomes ==
  IF first = NULL \/ last \in heap THEN {proc}
  ELSE IF last = NULL THEN {"crashed"}
  ELSE {proc, "crashed"}

AddLink ==
  /\ Step("writer", "link", "count")
  /\ proc' \in LinkOutcomes
  /\ IF proc' = "crashed" THEN UNCHANGED listVars ELSE \E n \in Nodes : LinkNode(n, i)
  /\ UNCHANGED <<mainVars, i, readerVars, shown, count, statVars, lock>>

AddCount ==
  /\ Step("writer", "count", "stat")
  /\ count' = count + 1
  /\ UNCHANGED <<proc, mainVars, i, readerVars, shown, listVars, statVars,
                 lock>>

AddStat(to) ==
  /\ Step("writer", "stat", to)
  /\ add_count' = add_count + 1
  /\ UNCHANGED <<proc, mainVars, i, readerVars, shown, listVars, count,
                 add_attempts, get_attempts, get_count, lock>>

-----------------------------------------------------------------------------
(* queue_get behind its test for an empty queue                            *)

(* Mutant: *val is never written.                                          *)
GetUnlinkNoValue ==
  /\ Step("reader", "unlink", "count")
  /\ IF first \in heap
     THEN UnlinkFirst /\ UNCHANGED proc
     ELSE proc' = "crashed" /\ UNCHANGED listVars
  /\ UNCHANGED <<mainVars, i, readerVars, shown, count, statVars, lock>>

(* A null or freed head makes *val = tmp->val a bad access.                *)
GetUnlink ==
  /\ Step("reader", "unlink", "count")
  /\ IF first \in heap
     THEN UnlinkFirst /\ got' = val[first] /\ UNCHANGED proc
     ELSE proc' = "crashed" /\ UNCHANGED <<listVars, got>>
  /\ UNCHANGED <<mainVars, i, expected, mismatch, shown, count, statVars, lock>>

GetCount ==
  /\ Step("reader", "count", "stat")
  /\ count' = count - 1
  /\ UNCHANGED <<proc, mainVars, i, readerVars, shown, listVars, statVars,
                 lock>>

GetStat(to) ==
  /\ Step("reader", "stat", to)
  /\ get_count' = get_count + 1
  /\ UNCHANGED <<proc, mainVars, i, readerVars, shown, listVars, count,
                 add_attempts, get_attempts, add_count, lock>>

-----------------------------------------------------------------------------
(* qmonitor and queue_print_stats                                          *)

(* Mutant: the statistics are read without the lock, as in 2.1.            *)
StatsWithoutLock ==
  /\ Step("qmonitor", "lock", "print")
  /\ UNCHANGED <<proc, mainVars, i, readerVars, shown, queueVars, lock>>

StatsLock == Acquire("qmonitor", "lock", "print")

StatsPrint == ShowStats("print", "unlock") /\ UNCHANGED lock

StatsUnlock == TriesAgain("qmonitor", "unlock") /\ Release

MonitorStep ==
  \/ (MonitorCalls("lock") \/ LeaveLoop("qmonitor")) /\ UNCHANGED lock
  \/ StatsLock \/ StatsPrint \/ StatsUnlock

-----------------------------------------------------------------------------
(* Properties                                                              *)

MonitorLabels == {"none", "loop", "lock", "print", "unlock", "done"}

(* Where a thread does not hold the lock: in its loop, before and behind   *)
(* the critical section, and asleep.                                       *)
Outside == {"none", "loop", "wait", "lock", "waiting", "post", "done"}

Inside(t) == pc[t] \notin Outside

(* At most one of the threads is between locking and unlocking, on every   *)
(* path through the three operations.                                      *)
MutualExclusion ==
  \A s, t \in Threads \ {"main"} : Inside(s) /\ Inside(t) => s = t

(* The reader never prints ERROR: it receives 0, 1, 2, ... without a gap.  *)
FifoOrder == ~mismatch

(* No assertion fails and no thread touches a null or freed node; not the  *)
(* walk of queue_destroy either.                                           *)
NoCrash == proc \notin {"assert_failed", "crashed"}

(* Each printed line is a snapshot: its size is its adds minus its gets.   *)
StatsConsistent == shown.size = shown.difference

(* While nobody holds the lock the fields agree with the list: count is    *)
(* its length, the statistics account for every node, and both ends point  *)
(* where the values say, so the list is the interval of values in flight.  *)
ListIntact ==
  lock = "nobody" /\ ~Tearing =>
    /\ count = Cardinality(heap)
    /\ count = add_count - get_count
    /\ count \in 0 .. MaxCount
    /\ ListHolds(get_count, add_count)

(* queue_destroy frees nodes, lock and structure only when no other thread *)
(* can touch them any more and nobody holds the lock; and when main        *)
(* returns every node has been freed, whatever was still queued.           *)
TeardownSafe ==
  /\ Tearing => /\ \A t \in Threads \ {"main"} : pc[t] = "done"
                /\ lock = "nobody"
  /\ pc["main"] = "returned" => heap = {}

(* Where a successful call stands between its statistics and its result.   *)
Succeeded == {"signal", "unlock", "post"}

(* The value of the last node unlinked: still in the reader's val, or      *)
(* already compared.                                                       *)
LastTaken ==
  IF pc["reader"] \in {"count", "stat"} \cup Succeeded THEN got ELSE expected - 1

(* What is in the list, and while queue_destroy frees it, what is left.    *)
Queued == Contents(IF pc["main"] = "free_nodes" THEN curr ELSE first)

(* The queue implements the bounded FIFO buffer.  queue_add takes effect   *)
(* when it links its node, queue_get when it unlinks one; queue_destroy    *)
(* discards from the node it is about to free.                             *)
Buffer == INSTANCE Fifo
            WITH Capacity <- MaxCount,
                 Values <- 0 .. MaxAttempts,
                 buffer <- Queued,
                 taken <- LastTaken,
                 closed <- Tearing

ImplementsFifo == Buffer!Spec
-----------------------------------------------------------------------------
(* The invariant behind these properties: what holds in every state,       *)
(* inside the critical sections as well.                                   *)

(* The values 0 .. linked-1 have been linked, 0 .. unlinked-1 unlinked.    *)
linked == add_count + (IF pc["writer"] \in {"count", "stat"} THEN 1 ELSE 0)
unlinked == get_count + (IF pc["reader"] \in {"count", "stat"} THEN 1 ELSE 0)

(* A thread is inside iff it holds the lock.                               *)
LockInv ==
  /\ lock \in (Threads \ {"main"}) \cup {"nobody"}
  /\ \A t \in Threads \ {"main"} : Inside(t) <=> lock = t

(* main creates the threads one by one and passes its joins one by one.    *)
MainInv ==
  /\ pc["main"] = "create_qmonitor" => pc["qmonitor"] = "none"
  /\ pc["main"] \in {"create_qmonitor", "create_reader"} => pc["reader"] = "none"
  /\ pc["main"] \in {"create_qmonitor", "create_reader", "create_writer"} =>
       pc["writer"] = "none"
  /\ pc["main"] \in {"join_writer", "destroy", "join_qmonitor"} \/ Tearing =>
       pc["reader"] = "done"
  /\ pc["main"] \in {"destroy", "join_qmonitor"} \/ Tearing =>
       pc["writer"] = "done"
  /\ Tearing => pc["qmonitor"] = "done"

(* count follows the list with the delay of one update; what the calls     *)
(* tested on entry stays true until they have acted on it.                 *)
CountInv ==
  /\ count = linked - unlinked
               - (IF pc["writer"] = "count" THEN 1 ELSE 0)
               + (IF pc["reader"] = "count" THEN 1 ELSE 0)
  /\ 0 <= count /\ count <= MaxCount
  /\ pc["writer"] \in {"link", "count"} => count < MaxCount
  /\ pc["reader"] \in {"unlink", "count"} => count > 0

(* The list is the interval of values linked and not yet unlinked;         *)
(* queue_destroy eats it from the front.                                   *)
ListInv ==
  /\ IsFiniteSet(heap)
  /\ ~Tearing => /\ ListHolds(unlinked, linked)
                 /\ Cardinality(heap) = linked - unlinked
  /\ pc["main"] = "free_nodes" =>
       /\ Cardinality(heap) <= linked
       /\ IsChain(heap, val, next, curr, linked - Cardinality(heap), linked)
  /\ pc["main"] \in {"free_queue", "returned"} => heap = {}

(* The writer's i and the reader's expected are the statistics.            *)
ValueInv ==
  /\ i = add_count - (IF pc["writer"] \in Succeeded THEN 1 ELSE 0)
  /\ expected = get_count - (IF pc["reader"] \in Succeeded THEN 1 ELSE 0)
  /\ pc["reader"] \in {"count", "stat"} \cup Succeeded => got = expected

QueueInv ==
  /\ ProgramTypeOK /\ pc = [t \in Threads |-> pc[t]]
  /\ LockInv /\ MainInv /\ CountInv /\ ListInv /\ ValueInv
  /\ FifoOrder /\ NoCrash /\ StatsConsistent

(* The writer never adds more values than it makes calls, whatever they    *)
(* wait for on the way.                                                    *)
AttemptsInv ==
  /\ add_attempts <= MaxAttempts /\ linked <= add_attempts
  /\ pc["writer"] \in {"wait", "lock", "enter"} => add_attempts < MaxAttempts
  /\ pc["writer"] \in {"test", "waiting", "link"} => linked < add_attempts
=============================================================================

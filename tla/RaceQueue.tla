----------------------------- MODULE RaceQueue -----------------------------
(***************************************************************************)
(* Synchronization/2.1: the same queue with no lock at all.  One writer,   *)
(* one reader and the monitor touch the fields concurrently, so a step is  *)
(* one access to shared memory, in the order of the committed binary       *)
(* Synchronization/2.1/a.out, which was compiled without optimisation:     *)
(* every mention of a field is a load, count++ and count-- are a load and  *)
(* a store, and q->first = q->last = new stores last before first.         *)
(*                                                                         *)
(* The races are undefined behaviour in C.  Here they have the outcomes    *)
(* that binary can show: loads and stores of aligned words interleave; a   *)
(* load through a null pointer kills the process; a node that was freed    *)
(* can still be written to (the write is lost, or the process dies in the  *)
(* allocator) and reading its next field gives what was left there or      *)
(* allocator data, which is no usable address (WILD).                      *)
(***************************************************************************)
EXTENDS QueueProgram

CONSTANT WILD                  \* a pointer into nowhere

ASSUME WildAssumption == WILD \notin Nodes \cup {NULL}

VARIABLES
  new,                         \* queue_add: the node being added
  tmp, follow,                 \* queue_get: tmp and the loaded first->next
  wcount, rcount               \* the loaded count of count++ and count--

localVars == <<new, tmp, follow, wcount, rcount>>
vars == <<queueVars, programVars, localVars>>

Init ==
  /\ ProgramInit
  /\ new = NULL /\ tmp = NULL /\ follow = NULL
  /\ wcount = 0 /\ rcount = 0

BadAccess == proc' = "crashed"

-----------------------------------------------------------------------------
(* queue_add                                                               *)

(* add_attempts++ and the load of count in the assertion.                  *)
AddEnter ==
  /\ Step("writer", "enter", "check")
  /\ add_attempts' = add_attempts + 1
  /\ AssertHolds(count <= MaxCount)
  /\ UNCHANGED <<mainVars, i, readerVars, shown, listVars, count,
                 get_attempts, add_count, get_count, localVars>>

(* Mutant: no test for a full queue.                                       *)
AddUnchecked ==
  /\ Step("writer", "check", "malloc")
  /\ UNCHANGED <<proc, mainVars, i, readerVars, shown, queueVars, localVars>>

(* The second load of count.                                               *)
AddCheck ==
  /\ Step("writer", "check", IF count = MaxCount THEN "loop" ELSE "malloc")
  /\ UNCHANGED <<proc, mainVars, i, readerVars, shown, queueVars, localVars>>

AddNoMemory == OutOfMemory("malloc") /\ UNCHANGED localVars

AddMalloc ==
  /\ Step("writer", "malloc", "test_first")
  /\ \E n \in Nodes :
       /\ Allocate(n, i)
       /\ next' = [m \in heap \cup {n} |-> IF m = n THEN NULL ELSE next[m]]
       /\ new' = n
  /\ UNCHANGED <<proc, mainVars, i, readerVars, shown, first, last, count,
                 statVars, tmp, follow, wcount, rcount>>

(* if (!q->first)                                                          *)
AddTestFirst ==
  /\ Step("writer", "test_first", IF first = NULL THEN "set_last" ELSE "link_next")
  /\ UNCHANGED <<proc, mainVars, i, readerVars, shown, queueVars, localVars>>

AddSetLast ==
  /\ Step("writer", "set_last", "set_first")
  /\ last' = new
  /\ UNCHANGED <<proc, mainVars, i, readerVars, shown, first, heap, val, next,
                 count, statVars, localVars>>

AddSetFirst ==
  /\ Step("writer", "set_first", "load_count")
  /\ first' = last
  /\ UNCHANGED <<proc, mainVars, i, readerVars, shown, last, heap, val, next,
                 count, statVars, localVars>>

(* q->last->next = new.  q->last may dangle: no code resets it.            *)
AddLinkNext ==
  /\ Step("writer", "link_next", "advance_last")
  /\ \/ /\ last \in heap
        /\ next' = [next EXCEPT ![last] = new]
        /\ UNCHANGED proc
     \/ /\ last \in Nodes \ heap
        /\ UNCHANGED <<next, proc>>
     \/ /\ last \notin heap
        /\ BadAccess
        /\ UNCHANGED next
  /\ UNCHANGED <<mainVars, i, readerVars, shown, first, last, heap, val,
                 count, statVars, localVars>>

(* q->last = q->last->next                                                 *)
AddAdvanceLast ==
  /\ Step("writer", "advance_last", "load_count")
  /\ last' \in IF last \in heap THEN {next[last]} ELSE {new, WILD}
  /\ UNCHANGED <<proc, mainVars, i, readerVars, shown, first, heap, val, next,
                 count, statVars, localVars>>

AddLoadCount ==
  /\ Step("writer", "load_count", "store_count")
  /\ wcount' = count
  /\ UNCHANGED <<proc, mainVars, i, readerVars, shown, queueVars, new, tmp,
                 follow, rcount>>

AddStoreCount ==
  /\ Step("writer", "store_count", "stat")
  /\ count' = wcount + 1
  /\ UNCHANGED <<proc, mainVars, i, readerVars, shown, listVars, statVars,
                 localVars>>

(* The locals end with the call.                                           *)
AddStat ==
  /\ Step("writer", "stat", "return")
  /\ add_count' = add_count + 1
  /\ new' = NULL /\ wcount' = 0
  /\ UNCHANGED <<proc, mainVars, i, readerVars, shown, listVars, count,
                 add_attempts, get_attempts, get_count, tmp, follow, rcount>>

WriterStep ==
  \/ (WriterCalls("enter") \/ LeaveLoop("writer") \/ WriterSucceeds("return"))
       /\ UNCHANGED localVars
  \/ AddEnter \/ AddCheck \/ AddNoMemory \/ AddMalloc
  \/ AddTestFirst \/ AddSetLast \/ AddSetFirst \/ AddLinkNext \/ AddAdvanceLast
  \/ AddLoadCount \/ AddStoreCount \/ AddStat

-----------------------------------------------------------------------------
(* queue_get                                                               *)

GetEnter ==
  /\ Step("reader", "enter", "check")
  /\ get_attempts' = get_attempts + 1
  /\ AssertHolds(count >= 0)
  /\ UNCHANGED <<mainVars, i, readerVars, shown, listVars, count,
                 add_attempts, add_count, get_count, localVars>>

(* Mutant: the reader may take the last value without looking.             *)
GetUnchecked ==
  /\ Step("reader", "check", "load_first")
  /\ UNCHANGED <<proc, mainVars, i, readerVars, shown, queueVars, localVars>>

(* Mutant: return 1 for an empty queue.                                    *)
GetEmptySucceeds ==
  /\ Step("reader", "check", IF count = 0 THEN "return" ELSE "load_first")
  /\ UNCHANGED <<proc, mainVars, i, readerVars, shown, queueVars, localVars>>

GetCheck ==
  /\ Step("reader", "check", IF count = 0 THEN "loop" ELSE "load_first")
  /\ UNCHANGED <<proc, mainVars, i, readerVars, shown, queueVars, localVars>>

(* qnode_t *tmp = q->first                                                 *)
GetLoadFirst ==
  /\ Step("reader", "load_first", "load_val")
  /\ tmp' = first
  /\ UNCHANGED <<proc, mainVars, i, readerVars, shown, queueVars, new, follow,
                 wcount, rcount>>

(* *val = tmp->val                                                         *)
GetLoadVal ==
  /\ Step("reader", "load_val", "load_next")
  /\ IF tmp \in heap THEN got' = val[tmp] /\ UNCHANGED proc
                     ELSE BadAccess /\ UNCHANGED got
  /\ UNCHANGED <<mainVars, i, expected, mismatch, shown, queueVars, localVars>>

(* q->first = q->first->next: load both pointers, ...                      *)
GetLoadNext ==
  /\ Step("reader", "load_next", "store_first")
  /\ IF first \in heap THEN follow' = next[first] /\ UNCHANGED proc
                       ELSE BadAccess /\ UNCHANGED follow
  /\ UNCHANGED <<mainVars, i, readerVars, shown, queueVars, new, tmp, wcount,
                 rcount>>

(* Mutant: q->first is not advanced.                                       *)
GetKeepsFirst ==
  /\ Step("reader", "store_first", "free")
  /\ UNCHANGED <<proc, mainVars, i, readerVars, shown, queueVars, localVars>>

(* ... store the second.  q->last stays as it is even when this empties    *)
(* the list.                                                               *)
GetStoreFirst ==
  /\ Step("reader", "store_first", "free")
  /\ first' = follow
  /\ UNCHANGED <<proc, mainVars, i, readerVars, shown, last, heap, val, next,
                 count, statVars, localVars>>

GetFree ==
  /\ Step("reader", "free", "load_count")
  /\ IF tmp \in heap THEN Free(tmp) /\ UNCHANGED proc
                     ELSE BadAccess /\ UNCHANGED <<heap, val, next>>
  /\ UNCHANGED <<mainVars, i, readerVars, shown, first, last, count, statVars,
                 localVars>>

GetLoadCount ==
  /\ Step("reader", "load_count", "store_count")
  /\ rcount' = count
  /\ UNCHANGED <<proc, mainVars, i, readerVars, shown, queueVars, new, tmp,
                 follow, wcount>>

GetStoreCount ==
  /\ Step("reader", "store_count", "stat")
  /\ count' = rcount - 1
  /\ UNCHANGED <<proc, mainVars, i, readerVars, shown, listVars, statVars,
                 localVars>>

GetStat ==
  /\ Step("reader", "stat", "return")
  /\ get_count' = get_count + 1
  /\ tmp' = NULL /\ follow' = NULL /\ rcount' = 0
  /\ UNCHANGED <<proc, mainVars, i, readerVars, shown, listVars, count,
                 add_attempts, get_attempts, add_count, new, wcount>>

ReaderStep ==
  \/ (ReaderCalls("enter") \/ LeaveLoop("reader") \/ ReaderSucceeds("return"))
       /\ UNCHANGED localVars
  \/ GetEnter \/ GetCheck \/ GetLoadFirst \/ GetLoadVal \/ GetLoadNext
  \/ GetStoreFirst \/ GetFree \/ GetLoadCount \/ GetStoreCount \/ GetStat

-----------------------------------------------------------------------------
(* qmonitor: queue_print_stats only reads, without a lock.  What it prints *)
(* may be torn across the updates and is left out of this module.          *)

MonitorStep ==
  (MonitorCalls("print") \/ TriesAgain("qmonitor", "print") \/ LeaveLoop("qmonitor"))
    /\ UNCHANGED localVars

Ended == ~Running /\ UNCHANGED vars

Next ==
  \/ MainStep /\ UNCHANGED localVars
  \/ WriterStep \/ ReaderStep \/ MonitorStep
  \/ Ended

Spec == Init /\ [][Next]_vars

-----------------------------------------------------------------------------
(* Properties                                                              *)

WriterLabels ==
  {"enter", "check", "malloc", "test_first", "set_last", "set_first", "link_next",
   "advance_last", "load_count", "store_count", "stat", "return"}
ReaderLabels ==
  {"enter", "check", "load_first", "load_val", "load_next", "store_first", "free",
   "load_count", "store_count", "stat", "return"}
Labels ==
  {"none", "loop", "print", "done"} \cup MainLabels \cup WriterLabels \cup ReaderLabels

(* Every variable has its type.                                            *)
TypeOK ==
  /\ proc \in ProcStates
  /\ pc \in [Threads -> Labels]
  /\ first \in Nodes \cup {NULL} /\ last \in Nodes \cup {NULL, WILD}
  /\ heap \subseteq Nodes
  /\ val \in [heap -> Int] /\ next \in [heap -> Nodes \cup {NULL}]
  /\ new \in Nodes \cup {NULL} /\ tmp \in Nodes \cup {NULL}
  /\ follow \in Nodes \cup {NULL}
  /\ count \in Int /\ wcount \in Int /\ rcount \in Int

(* The assertions of queue_add and queue_get never fail, although count++  *)
(* and count-- of the two threads overwrite each other's result.           *)
AssertionsHold == proc # "assert_failed"

(* Why: each side tests count before it acts, only the other side moves it *)
(* in between, and the other side moves it away from the limit; a loaded   *)
(* value may be stale, but it is one that the test allowed.                *)
CountInv ==
  /\ pc \in [Threads -> Labels]
  /\ count \in 0 .. MaxCount
  /\ pc["writer"] \in {"malloc", "test_first", "set_last", "set_first", "link_next",
                       "advance_last", "load_count"} => count < MaxCount
  /\ pc["writer"] = "store_count" => wcount \in 0 .. (MaxCount - 1)
  /\ pc["reader"] \in {"load_first", "load_val", "load_next", "store_first", "free",
                       "load_count"} => count > 0
  /\ pc["reader"] = "store_count" => rcount \in 1 .. MaxCount
  /\ AssertionsHold

(* The reader itself never reads or frees a node that was freed before: a  *)
(* bad access of the reader goes through a null q->first, all others are   *)
(* the writer's through q->last.                                           *)
ReaderHoldsLiveNode ==
  /\ TypeOK
  /\ pc["reader"] \in {"load_val", "load_next", "store_first", "free"} /\ tmp # NULL
       => tmp \in heap

(* The new node is not yet in the list ...                                 *)
Unlinked == pc["writer"] \in {"test_first", "set_last", "set_first", "link_next"}

(* ... or the count does not know of it yet.                               *)
Linked ==
  pc["writer"] \in {"advance_last", "load_count", "store_count", "stat", "return"}

(* The end of the list, where last is or is about to point.                *)
End == IF pc["writer"] = "advance_last" THEN new ELSE last

(* The reader has loaded first, and means to free what it found there.     *)
HasFirst == pc["reader"] \in {"load_val", "load_next", "store_first"}

(* The pointers among the live nodes: whatever the races lose, no node has *)
(* two predecessors, and first has none but the node being freed.          *)
PointerInv ==
  /\ first \in heap \cup {NULL}
  /\ \A n \in heap : next[n] \in heap \cup {NULL}
  /\ \A m, n \in heap : next[m] = next[n] /\ next[m] # NULL => m = n
  /\ \A n \in heap :
       next[n] = first /\ first # NULL => pc["reader"] = "free" /\ n = tmp

(* The reader holds the head, and the only pointer to it is gone when it   *)
(* is freed.                                                               *)
ReaderPointers ==
  /\ HasFirst /\ tmp # NULL => tmp = first
  /\ pc["reader"] \in {"load_next", "store_first"} => tmp # NULL
  /\ pc["reader"] = "store_first" /\ follow # NULL => follow = next[tmp]
  /\ pc["reader"] = "free" =>
       /\ tmp \in heap /\ first # tmp
       /\ \A n \in heap : next[n] # tmp
       /\ first # NULL => tmp # End

(* Nobody but the writer knows the new node, and the end of a list that is *)
(* not empty is a live node without successor, or last points nowhere.     *)
WriterPointers ==
  /\ Unlinked =>
       /\ new \in heap /\ new # first /\ next[new] = NULL
       /\ \A n \in heap : next[n] # new
       /\ HasFirst \/ pc["reader"] = "free" => tmp # new
       /\ val[new] = i
  /\ pc["writer"] \in {"set_last", "set_first"} => first = NULL
  /\ pc["writer"] = "set_first" => last = new
  /\ pc["writer"] = "test_first" /\ first # NULL => last # new
  /\ pc["writer"] = "link_next" => last # new
  /\ pc["writer"] = "advance_last" =>
       /\ new # NULL
       /\ last \in heap => next[last] = new
  /\ first # NULL => End \in heap \cup {WILD}
  /\ End \in heap => next[End] = NULL

(* The writer's next value is above everything in the list, the reader's   *)
(* expected not above anything it may still find.                          *)
NextValue == i + (IF Linked THEN 1 ELSE 0)

OrderInv ==
  /\ \A n \in heap : val[n] < NextValue \/ (Unlinked /\ n = new)
  /\ \A n \in heap : next[n] # NULL => val[n] < val[next[n]]
  /\ expected <= NextValue
  /\ pc["reader"] \notin {"load_next", "store_first", "free", "load_count",
                          "store_count", "stat", "return"} =>
       (first # NULL => val[first] >= expected)
  /\ pc["reader"] \in {"load_next", "store_first"} => got = val[tmp]
  /\ pc["reader"] \in {"load_next", "store_first", "free", "load_count",
                       "store_count", "stat", "return"} =>
       expected <= got /\ got < NextValue
  /\ pc["reader"] \in {"free", "load_count", "store_count", "stat", "return"} =>
       (first # NULL => val[first] > got)

ListOK == PointerInv /\ ReaderPointers /\ WriterPointers /\ OrderInv

(* Which threads exist follows from where main is.                         *)
Created ==
  /\ pc["main"] \in {"create_qmonitor", "create_reader"} => pc["reader"] = "none"
  /\ pc["main"] \in {"create_qmonitor", "create_reader", "create_writer"}
       => pc["writer"] = "none"
  /\ pc["main"] \in {"join_writer", "destroy", "join_qmonitor"} \/ Tearing
       => pc["reader"] = "done"
  /\ pc["main"] \in {"destroy", "join_qmonitor"} \/ Tearing => pc["writer"] = "done"

(* The inductive invariant behind ReaderHoldsLiveNode and NeverBackwards:  *)
(* the races leave the list in this shape until the process dies or main   *)
(* takes it apart.                                                         *)
RaceInv ==
  /\ TypeOK /\ i \in Int /\ got \in Int /\ expected \in Int
  /\ Created
  /\ Running /\ ~Tearing => ListOK
  /\ ReaderHoldsLiveNode

(* The race loses values but never repeats or reorders them: where reader  *)
(* compares the value with expected, one more than the last value it got,  *)
(* the value is not the smaller one.                                       *)
NeverBackwards == pc["reader"] = "return" => got >= expected

(* The reader's own check, the one that prints ERROR on failure.           *)
FifoOrder == ~mismatch
=============================================================================

---------------------------- MODULE QueueProgram ----------------------------
(***************************************************************************)
(* queue-threads.c around the queue: main creates the monitor (through     *)
(* queue_init), the reader and the writer, sleeps, sets q->stop, joins the *)
(* two workers and destroys the queue.  The reader checks that it receives *)
(* 0, 1, 2, ...; the writer sends them.  The four threads share the        *)
(* process: when main returns, or one of them aborts or dies of a bad      *)
(* access, they all stop.                                                  *)
(*                                                                         *)
(* Every action names the label a thread is at and the one it goes to.     *)
(* The labels inside queue_add, queue_get and queue_print_stats belong to  *)
(* the modules that extend this one; the operators below that enter those  *)
(* functions take the entry label as a parameter.                          *)
(***************************************************************************)
EXTENDS QueueData

CONSTANT MaxAttempts   \* bound: calls of queue_add, and of queue_get, the
                       \* 15 (or 150) seconds of main's sleep leave time for

ASSUME MaxAttemptsAssumption == MaxAttempts \in Nat

VARIABLES
  proc,                    \* how the process stands
  pc,                      \* where each thread is
  stop,                    \* q->stop
  i,                       \* writer: the next value to add
  got, expected,           \* reader: val and expected
  mismatch,                \* the reader has printed ERROR
  curr,                    \* queue_destroy: the node to free next
  shown                    \* the last line of queue_print_stats

readerVars == <<got, expected, mismatch>>
mainVars == <<stop, curr>>
programVars == <<proc, pc, mainVars, i, readerVars, shown>>

Threads == {"main", "qmonitor", "reader", "writer"}

ProcStates == {"running", "exited", "aborted", "assert_failed", "crashed"}

MainLabels ==
  {"create_qmonitor", "create_reader", "create_writer", "sleep",
   "join_reader", "join_writer", "destroy", "join_qmonitor",
   "free_nodes", "free_queue", "returned"}

(* main is past the joins: only the list and the structure are left.       *)
Tearing == pc["main"] \in {"free_nodes", "free_queue", "returned"}

Running == proc = "running"

Step(t, from, to) ==
  /\ Running
  /\ pc[t] = from
  /\ pc' = [pc EXCEPT ![t] = to]

(* assert(cond): __assert_fail kills the process when cond is false.       *)
AssertHolds(cond) == proc' = IF cond THEN proc ELSE "assert_failed"

ProgramInit ==
  /\ QueueInit
  /\ proc = "running"
  /\ pc = [t \in Threads |-> IF t = "main" THEN "create_qmonitor" ELSE "none"]
  /\ stop = FALSE /\ curr = NULL
  /\ i = 0 /\ got = -1 /\ expected = 0 /\ mismatch = FALSE
  /\ shown = [size |-> 0, difference |-> 0]

-----------------------------------------------------------------------------
(* main                                                                    *)

(* pthread_create succeeds and the new thread stands before its loop.      *)
Create(t, from, to) ==
  /\ Running
  /\ pc["main"] = from
  /\ pc' = [pc EXCEPT !["main"] = to, ![t] = "loop"]
  /\ UNCHANGED <<proc, mainVars, i, readerVars, shown, queueVars>>

CreateMonitor == Create("qmonitor", "create_qmonitor", "create_reader")
CreateReader == Create("reader", "create_reader", "create_writer")
CreateWriter == Create("writer", "create_writer", "sleep")

(* pthread_create fails: queue_init aborts, main returns -1 and takes the  *)
(* threads that already run with it.                                       *)
CreateFails ==
  /\ Running
  /\ pc["main"] \in {"create_qmonitor", "create_reader", "create_writer"}
  /\ proc' = IF pc["main"] = "create_qmonitor" THEN "aborted" ELSE "exited"
  /\ UNCHANGED <<pc, mainVars, i, readerVars, shown, queueVars>>

(* The sleep is over: q->stop = 1, written without any lock.               *)
SetStop ==
  /\ Step("main", "sleep", "join_reader")
  /\ stop' = TRUE
  /\ UNCHANGED <<proc, curr, i, readerVars, shown, queueVars>>

Join(t, from, to) ==
  /\ Step("main", from, to)
  /\ pc[t] = "done"
  /\ UNCHANGED <<proc, mainVars, i, readerVars, shown, queueVars>>

JoinReader == Join("reader", "join_reader", "join_writer")

(* Mutant: main forgets pthread_join of the writer.                        *)
SkipJoinWriter ==
  /\ Step("main", "join_writer", "destroy")
  /\ UNCHANGED <<proc, mainVars, i, readerVars, shown, queueVars>>

JoinWriter == Join("writer", "join_writer", "destroy")

(* queue_destroy sets q->stop once more, joins the monitor, ...            *)
DestroyStop ==
  /\ Step("main", "destroy", "join_qmonitor")
  /\ stop' = TRUE
  /\ UNCHANGED <<proc, curr, i, readerVars, shown, queueVars>>

(* Mutant: queue_destroy sets q->stop but does not join the monitor.       *)
SkipJoinMonitor ==
  /\ Step("main", "join_qmonitor", "free_nodes")
  /\ curr' = first
  /\ UNCHANGED <<proc, stop, i, readerVars, shown, queueVars>>

JoinMonitor ==
  /\ Step("main", "join_qmonitor", "free_nodes")
  /\ pc["qmonitor"] = "done"
  /\ curr' = first
  /\ UNCHANGED <<proc, stop, i, readerVars, shown, queueVars>>

(* ... frees the nodes one by one, ...                                     *)
FreeNode ==
  /\ Running
  /\ pc["main"] = "free_nodes" /\ curr # NULL
  /\ IF curr \in heap
     THEN Free(curr) /\ curr' = next[curr] /\ UNCHANGED proc
     ELSE proc' = "crashed" /\ UNCHANGED <<heap, val, next, curr>>
  /\ UNCHANGED <<pc, stop, i, readerVars, shown, first, last, count, statVars>>

FreeNodesDone ==
  /\ Step("main", "free_nodes", "free_queue")
  /\ curr = NULL
  /\ UNCHANGED <<proc, mainVars, i, readerVars, shown, queueVars>>

(* ... and at last the lock and the structure; main returns 0.             *)
FreeQueue ==
  /\ Step("main", "free_queue", "returned")
  /\ proc' = "exited"
  /\ UNCHANGED <<mainVars, i, readerVars, shown, queueVars>>

MainStep ==
  \/ CreateMonitor \/ CreateReader \/ CreateWriter \/ CreateFails
  \/ SetStop \/ JoinReader \/ JoinWriter
  \/ DestroyStop \/ JoinMonitor \/ FreeNode \/ FreeNodesDone \/ FreeQueue

-----------------------------------------------------------------------------
(* The loops of the other three threads.                                   *)

(* while (!q->stop): read without any lock.                                *)
LeaveLoop(t) ==
  /\ Step(t, "loop", "done")
  /\ stop
  /\ UNCHANGED <<proc, mainVars, i, readerVars, shown, queueVars>>

WriterCalls(entry) ==
  /\ Step("writer", "loop", entry)
  /\ ~stop /\ add_attempts < MaxAttempts
  /\ UNCHANGED <<proc, mainVars, i, readerVars, shown, queueVars>>

ReaderCalls(entry) ==
  /\ Step("reader", "loop", entry)
  /\ ~stop /\ get_attempts < MaxAttempts
  /\ got' = -1
  /\ UNCHANGED <<proc, mainVars, i, expected, mismatch, shown, queueVars>>

MonitorCalls(entry) ==
  /\ Step("qmonitor", "loop", entry)
  /\ ~stop
  /\ UNCHANGED <<proc, mainVars, i, readerVars, shown, queueVars>>

(* queue_add returns 1: the writer moves on to the next value.             *)
WriterSucceeds(from) ==
  /\ Step("writer", from, "loop")
  /\ i' = i + 1
  /\ UNCHANGED <<proc, mainVars, readerVars, shown, queueVars>>

(* queue_get returns 1: the reader compares and resynchronises.            *)
ReaderSucceeds(from) ==
  /\ Step("reader", from, "loop")
  /\ mismatch' = (mismatch \/ expected # got)
  /\ expected' = got + 1
  /\ UNCHANGED <<proc, mainVars, i, got, shown, queueVars>>

(* A call ended without a result to use: queue_add or queue_get returned 0 *)
(* and the loop continues, or the monitor goes to its next round.          *)
TriesAgain(t, from) ==
  /\ Step(t, from, "loop")
  /\ UNCHANGED <<proc, mainVars, i, readerVars, shown, queueVars>>

(* malloc returned NULL inside queue_add: abort().                         *)
OutOfMemory(from) ==
  /\ Running
  /\ pc["writer"] = from
  /\ proc' = "aborted"
  /\ UNCHANGED <<pc, mainVars, i, readerVars, shown, queueVars>>

(* The printf of queue_print_stats.                                        *)
ShowStats(from, to) ==
  /\ Step("qmonitor", from, to)
  /\ shown' = [size |-> count, difference |-> add_count - get_count]
  /\ UNCHANGED <<proc, mainVars, i, readerVars, queueVars>>

-----------------------------------------------------------------------------

ProgramTypeOK ==
  /\ QueueTypeOK
  /\ proc \in ProcStates
  /\ stop \in BOOLEAN
  /\ i \in Nat
  /\ got \in Int /\ expected \in Int /\ mismatch \in BOOLEAN
  /\ curr \in Nodes \cup {NULL}
  /\ shown \in [size : Int, difference : Int]
=============================================================================

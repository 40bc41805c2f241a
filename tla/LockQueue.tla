----------------------------- MODULE LockQueue -----------------------------
(***************************************************************************)
(* The queue whose operations run under one lock: a pthread spinlock in    *)
(* Synchronization/2.2/a-c+d, a pthread mutex in Synchronization/2.2/e.    *)
(* The two differ in how a thread waits for the lock, not in what it may   *)
(* do next, so one module models both.  A call on a full or an empty queue *)
(* returns 0 at once and the thread calls again.                           *)
(***************************************************************************)
EXTENDS GuardedQueue

vars == <<queueVars, programVars, lock>>

Init == GuardedInit

-----------------------------------------------------------------------------
(* queue_add                                                               *)

AddLock == Acquire("writer", "lock", "enter")

(* Mutant: the test for a full queue is off by one.                        *)
AddEnterOffByOne ==
  /\ Step("writer", "enter", IF count > MaxCount THEN "unlock_full" ELSE "link")
  /\ add_attempts' = add_attempts + 1
  /\ AssertHolds(count <= MaxCount)
  /\ UNCHANGED <<mainVars, i, readerVars, shown, listVars, count, get_attempts,
                 add_count, get_count, lock>>

(* add_attempts++, the assertion, and the test for a full queue.           *)
AddEnter ==
  /\ Step("writer", "enter", IF count = MaxCount THEN "unlock_full" ELSE "link")
  /\ add_attempts' = add_attempts + 1
  /\ AssertHolds(count <= MaxCount)
  /\ UNCHANGED <<mainVars, i, readerVars, shown, listVars, count,
                 get_attempts, add_count, get_count, lock>>

(* Mutant: return 0 without unlocking.                                     *)
AddFullKeepsLock == TriesAgain("writer", "unlock_full") /\ UNCHANGED lock

AddFull == TriesAgain("writer", "unlock_full") /\ Release

(* The node, count and the statistics.                                     *)
AddNode == AddNoMemory \/ AddLink \/ AddCount \/ AddStat("unlock")

AddDone == WriterSucceeds("unlock") /\ Release

WriterStep ==
  \/ (WriterCalls("lock") \/ LeaveLoop("writer")) /\ UNCHANGED lock
  \/ AddLock \/ AddEnter \/ AddFull \/ AddNode \/ AddDone

-----------------------------------------------------------------------------
(* queue_get                                                               *)

(* Mutant: queue_get forgets to lock.                                      *)
GetWithoutLock ==
  /\ Step("reader", "lock", "enter")
  /\ UNCHANGED <<proc, mainVars, i, readerVars, shown, queueVars, lock>>

GetLock == Acquire("reader", "lock", "enter")

(* Mutant: no test for an empty queue.                                     *)
GetEnterUntested ==
  /\ Step("reader", "enter", "unlink")
  /\ get_attempts' = get_attempts + 1
  /\ AssertHolds(count >= 0)
  /\ UNCHANGED <<mainVars, i, readerVars, shown, listVars, count, add_attempts,
                 add_count, get_count, lock>>

GetEnter ==
  /\ Step("reader", "enter", IF count = 0 THEN "unlock_empty" ELSE "unlink")
  /\ get_attempts' = get_attempts + 1
  /\ AssertHolds(count >= 0)
  /\ UNCHANGED <<mainVars, i, readerVars, shown, listVars, count,
                 add_attempts, add_count, get_count, lock>>

GetEmpty == TriesAgain("reader", "unlock_empty") /\ Release

GetNode == GetUnlink \/ GetCount \/ GetStat("unlock")

GetDone == ReaderSucceeds("unlock") /\ Release

ReaderStep ==
  \/ (ReaderCalls("lock") \/ LeaveLoop("reader")) /\ UNCHANGED lock
  \/ GetLock \/ GetEnter \/ GetEmpty \/ GetNode \/ GetDone

-----------------------------------------------------------------------------

(* The process is gone; only here may nothing happen any more.             *)
Ended == ~Running /\ UNCHANGED vars

Next ==
  \/ MainStep /\ UNCHANGED lock
  \/ WriterStep \/ ReaderStep \/ MonitorStep
  \/ Ended

Spec == Init /\ [][Next]_vars

(* The scheduler runs every thread that can run.  A spinlock and a default *)
(* mutex promise no turn to a waiter, so no thread gets strong fairness.   *)
Fairness ==
  /\ WF_vars(MainStep /\ UNCHANGED lock)
  /\ WF_vars(WriterStep) /\ WF_vars(ReaderStep) /\ WF_vars(MonitorStep)

FairSpec == Spec /\ Fairness

-----------------------------------------------------------------------------
(* Properties                                                              *)

WriterLabels ==
  {"none", "loop", "lock", "enter", "unlock_full", "link", "count", "stat", "unlock", "done"}
ReaderLabels ==
  {"none", "loop", "lock", "enter", "unlock_empty", "unlink", "count", "stat", "unlock", "done"}
Labels == MainLabels \cup WriterLabels \cup ReaderLabels \cup MonitorLabels

(* Every variable has its type.                                            *)
TypeOK ==
  /\ ProgramTypeOK
  /\ pc \in [Threads -> Labels]
  /\ pc["main"] \in MainLabels
  /\ pc["writer"] \in WriterLabels
  /\ pc["reader"] \in ReaderLabels
  /\ pc["qmonitor"] \in MonitorLabels
  /\ lock \in (Threads \ {"main"}) \cup {"nobody"}

(* The process ends: main gets through its joins although it sets q->stop  *)
(* without the lock, and even while the lock is contended.                 *)
Termination == <>~Running

(* The inductive invariant of the proofs.                                  *)
IndInv == TypeOK /\ QueueInv /\ AttemptsInv
=============================================================================

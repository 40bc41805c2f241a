----------------------------- MODULE CondQueue -----------------------------
(***************************************************************************)
(* The queue of Synchronization/2.2/f: a mutex and two condition           *)
(* variables.  A call on a full or an empty queue does not return; it      *)
(* waits until the other side signals.  The wait does not look at q->stop. *)
(***************************************************************************)
EXTENDS GuardedQueue

VARIABLES not_full, not_empty \* the threads asleep on each condition variable

condVars == <<not_full, not_empty>>
syncVars == <<lock, condVars>>
vars == <<queueVars, programVars, syncVars>>

Init == GuardedInit /\ not_full = {} /\ not_empty = {}

(* pthread_cond_signal wakes one sleeper, if there is one.                 *)
Woken(sleepers) ==
  IF sleepers = {} THEN {{}} ELSE {sleepers \ {t} : t \in sleepers}

-----------------------------------------------------------------------------
(* queue_add                                                               *)

AddLock == Acquire("writer", "lock", "enter") /\ UNCHANGED condVars

AddEnter ==
  /\ Step("writer", "enter", "test")
  /\ add_attempts' = add_attempts + 1
  /\ UNCHANGED <<proc, mainVars, i, readerVars, shown, listVars, count,
                 get_attempts, add_count, get_count, syncVars>>

(* while (q->count == q->max_count) pthread_cond_wait(&q->not_full, ...):  *)
(* releasing the mutex and falling asleep is one atomic step.              *)
AddWait ==
  /\ Step("writer", "test", "waiting")
  /\ count = MaxCount
  /\ not_full' = not_full \cup {"writer"}
  /\ Release
  /\ UNCHANGED <<proc, mainVars, i, readerVars, shown, queueVars, not_empty>>

AddProceed ==
  /\ Step("writer", "test", "link")
  /\ count # MaxCount
  /\ UNCHANGED <<proc, mainVars, i, readerVars, shown, queueVars, syncVars>>

(* Mutant: if (q->count == q->max_count) instead of while.                 *)
AddRelockUntested ==
  /\ "writer" \notin not_full
  /\ Acquire("writer", "waiting", "link")
  /\ UNCHANGED condVars

(* Woken up, the wait returns once it has the mutex again.                 *)
AddRelock ==
  /\ "writer" \notin not_full
  /\ Acquire("writer", "waiting", "test")
  /\ UNCHANGED condVars

(* The node, count and the statistics.                                     *)
AddNode ==
  /\ AddNoMemory \/ AddLink \/ AddCount \/ AddStat("signal")
  /\ UNCHANGED condVars

(* Mutant: the signal goes to the wrong condition variable.                *)
AddSignalsNotFull ==
  /\ Step("writer", "signal", "unlock")
  /\ not_full' \in Woken(not_full)
  /\ UNCHANGED <<proc, mainVars, i, readerVars, shown, queueVars, lock, not_empty>>

AddSignal ==
  /\ Step("writer", "signal", "unlock")
  /\ not_empty' \in Woken(not_empty)
  /\ UNCHANGED <<proc, mainVars, i, readerVars, shown, queueVars, lock,
                 not_full>>

AddDone == WriterSucceeds("unlock") /\ Release /\ UNCHANGED condVars

WriterStep ==
  \/ (WriterCalls("lock") \/ LeaveLoop("writer")) /\ UNCHANGED syncVars
  \/ AddLock \/ AddEnter \/ AddWait \/ AddProceed \/ AddRelock
  \/ AddNode \/ AddSignal \/ AddDone

-----------------------------------------------------------------------------
(* queue_get                                                               *)

GetLock == Acquire("reader", "lock", "enter") /\ UNCHANGED condVars

GetEnter ==
  /\ Step("reader", "enter", "test")
  /\ get_attempts' = get_attempts + 1
  /\ UNCHANGED <<proc, mainVars, i, readerVars, shown, listVars, count,
                 add_attempts, add_count, get_count, syncVars>>

GetWait ==
  /\ Step("reader", "test", "waiting")
  /\ count = 0
  /\ not_empty' = not_empty \cup {"reader"}
  /\ Release
  /\ UNCHANGED <<proc, mainVars, i, readerVars, shown, queueVars, not_full>>

GetProceed ==
  /\ Step("reader", "test", "unlink")
  /\ count # 0
  /\ UNCHANGED <<proc, mainVars, i, readerVars, shown, queueVars, syncVars>>

(* Mutant: if (q->count == 0) instead of while.                            *)
GetRelockUntested ==
  /\ "reader" \notin not_empty
  /\ Acquire("reader", "waiting", "unlink")
  /\ UNCHANGED condVars

GetRelock ==
  /\ "reader" \notin not_empty
  /\ Acquire("reader", "waiting", "test")
  /\ UNCHANGED condVars

GetNode ==
  /\ GetUnlink \/ GetCount \/ GetStat("signal")
  /\ UNCHANGED condVars

(* Mutant: no signal to the writer.                                        *)
GetSilent ==
  /\ Step("reader", "signal", "unlock")
  /\ UNCHANGED <<proc, mainVars, i, readerVars, shown, queueVars, syncVars>>

GetSignal ==
  /\ Step("reader", "signal", "unlock")
  /\ not_full' \in Woken(not_full)
  /\ UNCHANGED <<proc, mainVars, i, readerVars, shown, queueVars, lock,
                 not_empty>>

GetDone == ReaderSucceeds("unlock") /\ Release /\ UNCHANGED condVars

ReaderStep ==
  \/ (ReaderCalls("lock") \/ LeaveLoop("reader")) /\ UNCHANGED syncVars
  \/ GetLock \/ GetEnter \/ GetWait \/ GetProceed \/ GetRelock
  \/ GetNode \/ GetSignal \/ GetDone

-----------------------------------------------------------------------------
(* POSIX lets pthread_cond_wait return without a signal.                   *)
SpuriousWakeup ==
  /\ Running
  /\ \/ not_full # {} /\ not_full' \in Woken(not_full) /\ UNCHANGED not_empty
     \/ not_empty # {} /\ not_empty' \in Woken(not_empty) /\ UNCHANGED not_full
  /\ UNCHANGED <<queueVars, programVars, lock>>

Ended == ~Running /\ UNCHANGED vars

Next ==
  \/ MainStep /\ UNCHANGED syncVars
  \/ WriterStep \/ ReaderStep
  \/ MonitorStep /\ UNCHANGED condVars
  \/ SpuriousWakeup
  \/ Ended

Spec == Init /\ [][Next]_vars

(* Threads run when they can.  Nothing promises a spurious wakeup, and     *)
(* they do not go on for ever: an unbounded run of them would keep a       *)
(* sleeper taking the mutex from under a thread that waits for it.         *)
FairSpec ==
  /\ Spec
  /\ <>[][~SpuriousWakeup]_vars
  /\ WF_vars(MainStep /\ UNCHANGED syncVars)
  /\ WF_vars(WriterStep) /\ WF_vars(ReaderStep)
  /\ WF_vars(MonitorStep /\ UNCHANGED condVars)

-----------------------------------------------------------------------------
(* Properties                                                              *)

WriterLabels ==
  {"none", "loop", "lock", "enter", "test", "waiting", "link", "count", "stat", "signal", "unlock", "done"}
ReaderLabels ==
  {"none", "loop", "lock", "enter", "test", "waiting", "unlink", "count", "stat", "signal", "unlock", "done"}
Labels == MainLabels \cup WriterLabels \cup ReaderLabels \cup MonitorLabels

(* Every variable has its type.                                            *)
TypeOK ==
  /\ ProgramTypeOK
  /\ pc \in [Threads -> Labels]
  /\ pc["main"] \in MainLabels
  /\ pc["writer"] \in WriterLabels
  /\ pc["reader"] \in ReaderLabels
  /\ pc["qmonitor"] \in MonitorLabels
  /\ lock \in (Threads \ {"main"}) \cup {"nobody"}
  /\ not_full \subseteq {"writer"} /\ not_empty \subseteq {"reader"}

(* No wakeup is lost: a thread sleeps on only while its condition is       *)
(* false, or the other side still has its signal to send.                  *)
NoLostWakeup ==
  /\ "reader" \in not_empty =>
       count = 0 \/ pc["writer"] \in {"stat", "signal"}
  /\ "writer" \in not_full =>
       count = MaxCount \/ pc["reader"] \in {"stat", "signal"}

(* What every queue owes its callers: order, an intact list, no crash, and *)
(* teardown after the last use; nobody sleeps on a condition variable that *)
(* is destroyed.                                                           *)
QueueSafe ==
  /\ TypeOK
  /\ MutualExclusion /\ FifoOrder /\ NoCrash /\ StatsConsistent
  /\ ListIntact /\ TeardownSafe
  /\ Tearing => not_full = {} /\ not_empty = {}

(* One worker has left its loop and the other sleeps for a signal that     *)
(* nobody is left to send: main never gets past its joins.                 *)
Stranded ==
  /\ pc["main"] \in {"join_reader", "join_writer"}
  /\ \/ pc["writer"] = "done" /\ pc["reader"] = "waiting" /\ count = 0
     \/ pc["reader"] = "done" /\ pc["writer"] = "waiting" /\ count = MaxCount

(* After q->stop = 1 the process ends, or one worker is stranded; both     *)
(* never sleep at the same time and no other way to hang exists.           *)
StopSettles == stop ~> (~Running \/ Stranded)

(* A sleeper stands in pthread_cond_wait.                                  *)
SleepInv ==
  /\ "writer" \in not_full => pc["writer"] = "waiting"
  /\ "reader" \in not_empty => pc["reader"] = "waiting"

(* The inductive invariant of the proofs.                                  *)
IndInv == TypeOK /\ QueueInv /\ AttemptsInv /\ SleepInv /\ NoLostWakeup
=============================================================================

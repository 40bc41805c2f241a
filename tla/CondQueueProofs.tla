-------------------------- MODULE CondQueueProofs --------------------------
(***************************************************************************)
(* CondQueue for every MaxCount, every number of calls and every set of    *)
(* addresses: no wakeup is lost, the queue is safe, and it implements the  *)
(* bounded FIFO buffer.                                                    *)
(*                                                                         *)
(* Every step of a thread is a QueueStep, so GuardedQueueProofs says what  *)
(* becomes of the queue; a spurious wakeup does not touch it.  Left are    *)
(* the labels, the number of calls and who sleeps on which condition; and  *)
(* that a worker left without its signal sleeps for ever.                  *)
(*                                                                         *)
(* After the stop every step but a spurious wakeup brings the program      *)
(* closer to its end or to that worker; there is no other way to hang.     *)
(***************************************************************************)
EXTENDS CondQueue, GuardedQueueProofs

USE DEF Threads, Workers

(* Each thread is at one of its own labels.                                *)
LabelsInv ==
  /\ pc["main"] \in MainLabels
  /\ pc["writer"] \in WriterLabels
  /\ pc["reader"] \in ReaderLabels
  /\ pc["qmonitor"] \in MonitorLabels

(* What is known of the condition variables.                               *)
CondInv ==
  /\ not_full \subseteq {"writer"} /\ not_empty \subseteq {"reader"}
  /\ SleepInv /\ NoLostWakeup

(* IndInv without what its parts say twice.                                *)
LEMMA IndInvParts == IndInv <=> LabelsInv /\ QueueInv /\ AttemptsInv /\ CondInv
<1>1. IndInv => LabelsInv /\ CondInv
  BY DEF IndInv, TypeOK, LabelsInv, CondInv
<1>2. LabelsInv /\ QueueInv /\ CondInv => TypeOK
  <2> SUFFICES ASSUME LabelsInv, QueueInv, CondInv PROVE TypeOK
    OBVIOUS
  <2>1. Types /\ LockInv
    BY QueueInvParts
  <2>2. pc = [t \in Threads |-> pc[t]]
    BY <2>1 DEF Types
  <2>3. \A t \in Threads : pc[t] \in Labels
    BY DEF LabelsInv, Labels
  <2>4. pc \in [Threads -> Labels]
    BY <2>2, <2>3
  <2> QED BY <2>1, <2>4 DEF TypeOK, LabelsInv, Types, LockInv, CondInv
<1> QED BY <1>1, <1>2, Zenon DEF IndInv, CondInv

(* What the four parts of IndInv become in a step.                         *)
LEMMA IndInvNext ==
  LabelsInv' /\ QueueInv' /\ AttemptsInv' /\ CondInv' => IndInv'
<1> SUFFICES ASSUME LabelsInv', QueueInv', AttemptsInv', CondInv' PROVE IndInv'
  OBVIOUS
<1>1. Types' /\ LockInv'
  BY Zenon DEF QueueInv, Types
<1>2. pc' = [t \in Threads |-> pc'[t]]
  BY <1>1 DEF Types
<1>3. \A t \in Threads : pc'[t] \in Labels
  BY DEF LabelsInv, Labels
<1>4. pc' \in [Threads -> Labels]
  BY <1>2, <1>3
<1>5. TypeOK'
  BY <1>1, <1>4 DEF TypeOK, LabelsInv, Types, LockInv, CondInv
<1> QED BY <1>5, Zenon DEF IndInv, CondInv

(* IndInv holds when main is about to call queue_init.                     *)
LEMMA InitInv == Init => IndInv
<1> SUFFICES ASSUME Init PROVE IndInv
  OBVIOUS
<1>1. pc = [t \in Threads |-> IF t = "main" THEN "create_qmonitor" ELSE "none"]
  BY DEF Init, GuardedInit, ProgramInit
<1>2. LabelsInv
  BY <1>1 DEF LabelsInv, MainLabels, WriterLabels, ReaderLabels, MonitorLabels
<1>3. CondInv
  BY DEF Init, CondInv, SleepInv, NoLostWakeup
<1> QED BY <1>2, <1>3, QueueInitInv, AttemptsInit, IndInvParts DEF Init

-----------------------------------------------------------------------------
(* The steps of the threads are QueueSteps.                                *)

(* queue_add and the loop of the writer.                                   *)
LEMMA WriterQueueStep == IndInv /\ WriterStep => QueueStep
<1> SUFFICES ASSUME IndInv, WriterStep PROVE QueueStep
  OBVIOUS
<1>0. Types /\ QueueInv
  BY IndInvParts, QueueInvParts
<1> USE <1>0 DEF Step, Types, ProgramTypeOK, QueueTypeOK, queueVars, statVars,
             readerVars, syncVars
<1>1. CASE (WriterCalls("lock") \/ LeaveLoop("writer")) /\ UNCHANGED syncVars
  BY <1>1, LoopSteps DEF QueueStep
<1>2. CASE AddLock \/ AddRelock
  <2>1. \A to \in {"enter", "test"} : to \notin Outside /\ to \notin Busy
    BY DEF Outside, Busy, Succeeded
  <2> QED BY <1>2, <2>1, AcquireStep DEF AddLock, AddRelock, QueueStep
<1>3. CASE AddEnter
  <2>1. ControlStep("writer", "test")
    BY <1>3
       DEF AddEnter, ControlStep, LockFollows, Inside, Outside, Busy, Succeeded
  <2> QED BY <2>1 DEF QueueStep
<1>4. CASE AddWait
  <2>1. ControlStep("writer", "waiting")
    BY <1>4
       DEF AddWait, Release, ControlStep, LockFollows, Inside, Outside, Busy,
           Succeeded
  <2> QED BY <2>1 DEF QueueStep
<1>5. CASE AddProceed
  <2>1. ControlStep("writer", "link")
    BY <1>5
       DEF AddProceed, ControlStep, LockFollows, Inside, Outside, Busy, Succeeded
  <2> QED BY <2>1 DEF QueueStep
<1>6. CASE AddNode
  BY <1>6 DEF AddNode, QueueStep, Succeeded, Outside
<1>7. CASE AddSignal
  <2>1. ControlStep("writer", "unlock")
    BY <1>7
       DEF AddSignal, ControlStep, LockFollows, Inside, Outside, Busy, Succeeded
  <2> QED BY <2>1 DEF QueueStep
<1>8. CASE AddDone
  <2>1. LockFollows("writer", "loop")
    BY <1>8 DEF AddDone, WriterSucceeds, Release, LockFollows, Inside, Outside
  <2> QED BY <1>8, <2>1 DEF AddDone, QueueStep, Succeeded
<1> QED BY <1>1, <1>2, <1>3, <1>4, <1>5, <1>6, <1>7, <1>8 DEF WriterStep

(* queue_get and the loop of the reader.                                   *)
LEMMA ReaderQueueStep == IndInv /\ ReaderStep => QueueStep
<1> SUFFICES ASSUME IndInv, ReaderStep PROVE QueueStep
  OBVIOUS
<1>0. Types /\ QueueInv
  BY IndInvParts, QueueInvParts
<1> USE <1>0 DEF Step, Types, ProgramTypeOK, QueueTypeOK, queueVars, statVars,
             readerVars, syncVars
<1>1. CASE (ReaderCalls("lock") \/ LeaveLoop("reader")) /\ UNCHANGED syncVars
  BY <1>1, LoopSteps DEF QueueStep
<1>2. CASE GetLock \/ GetRelock
  <2>1. \A to \in {"enter", "test"} : to \notin Outside /\ to \notin Busy
    BY DEF Outside, Busy, Succeeded
  <2> QED BY <1>2, <2>1, AcquireStep DEF GetLock, GetRelock, QueueStep
<1>3. CASE GetEnter
  <2>1. ControlStep("reader", "test")
    BY <1>3
       DEF GetEnter, ControlStep, LockFollows, Inside, Outside, Busy, Succeeded
  <2> QED BY <2>1 DEF QueueStep
<1>4. CASE GetWait
  <2>1. ControlStep("reader", "waiting")
    BY <1>4
       DEF GetWait, Release, ControlStep, LockFollows, Inside, Outside, Busy,
           Succeeded
  <2> QED BY <2>1 DEF QueueStep
<1>5. CASE GetProceed
  <2>1. ControlStep("reader", "unlink")
    BY <1>5
       DEF GetProceed, ControlStep, LockFollows, Inside, Outside, Busy, Succeeded
  <2> QED BY <2>1 DEF QueueStep
<1>6. CASE GetNode
  BY <1>6 DEF GetNode, QueueStep, Succeeded, Outside
<1>7. CASE GetSignal
  <2>1. ControlStep("reader", "unlock")
    BY <1>7
       DEF GetSignal, ControlStep, LockFollows, Inside, Outside, Busy, Succeeded
  <2> QED BY <2>1 DEF QueueStep
<1>8. CASE GetDone
  <2>1. LockFollows("reader", "loop")
    BY <1>8 DEF GetDone, ReaderSucceeds, Release, LockFollows, Inside, Outside
  <2> QED BY <1>8, <2>1 DEF GetDone, QueueStep, Succeeded
<1> QED BY <1>1, <1>2, <1>3, <1>4, <1>5, <1>6, <1>7, <1>8 DEF ReaderStep

-----------------------------------------------------------------------------
(* Labels, the number of calls and the sleepers.                           *)

(* The writer sleeps only on a full queue, and signals what it has added.  *)
LEMMA WriterCond ==
  ASSUME IndInv, WriterStep
  PROVE  LabelsInv' /\ AttemptsInv' /\ CondInv'
<1>0. LabelsInv /\ Types /\ AttemptsInv /\ CondInv
  BY IndInvParts, QueueInvParts
<1> USE <1>0 DEF Step, Types, ProgramTypeOK, QueueTypeOK, queueVars, statVars,
             syncVars, condVars, AttemptsInv, linked, CondInv, SleepInv,
             NoLostWakeup
<1>1. CASE \/ (WriterCalls("lock") \/ LeaveLoop("writer")) /\ UNCHANGED syncVars
           \/ AddLock \/ AddRelock \/ AddWait \/ AddProceed \/ AddDone
  <2>1. /\ \E to \in WriterLabels \ {"count", "stat"} :
              pc' = [pc EXCEPT !["writer"] = to]
        /\ pc["writer"] \notin {"none", "count", "stat", "signal"}
        /\ UNCHANGED <<count, add_attempts, add_count>>
    BY <1>1
       DEF WriterCalls, LeaveLoop, AddLock, AddRelock, Acquire, AddWait,
           AddProceed, AddDone, WriterSucceeds, WriterLabels
  <2>2. LabelsInv'
    BY <2>1 DEF LabelsInv
  <2>3. AttemptsInv'
    BY <1>1, <2>1
       DEF WriterCalls, LeaveLoop, AddLock, AddRelock, Acquire, AddWait,
           AddProceed, AddDone, WriterSucceeds
  <2>4. CondInv'
    BY <1>1, <2>1
       DEF WriterCalls, LeaveLoop, AddLock, AddRelock, Acquire, AddWait,
           AddProceed, AddDone, WriterSucceeds
  <2> QED BY <2>2, <2>3, <2>4
<1>2. CASE AddEnter
  BY <1>2, MaxAttemptsAssumption DEF AddEnter, LabelsInv, WriterLabels
<1>3. CASE AddNode
  <2>1. CASE AddNoMemory
    BY <1>3, <2>1 DEF AddNode, AddNoMemory, OutOfMemory, LabelsInv
  <2>2. CASE AddLink
    BY <1>3, <2>2 DEF AddNode, AddLink, LabelsInv, WriterLabels
  <2>3. CASE AddCount
    BY <1>3, <2>3 DEF AddNode, AddCount, LabelsInv, WriterLabels
  <2>4. CASE AddStat("signal")
    BY <1>3, <2>4 DEF AddNode, AddStat, LabelsInv, WriterLabels
  <2> QED BY <1>3, <2>1, <2>2, <2>3, <2>4 DEF AddNode
<1>4. CASE AddSignal
  <2>1. not_empty' = {}
    BY <1>4 DEF AddSignal, Woken
  <2> QED BY <1>4, <2>1 DEF AddSignal, LabelsInv, WriterLabels
<1> QED BY <1>1, <1>2, <1>3, <1>4 DEF WriterStep

(* The reader sleeps only on an empty queue, and signals what it has taken.*)
LEMMA ReaderCond ==
  ASSUME IndInv, ReaderStep
  PROVE  LabelsInv' /\ AttemptsInv' /\ CondInv'
<1>0. LabelsInv /\ Types /\ AttemptsInv /\ CondInv
  BY IndInvParts, QueueInvParts
<1> USE <1>0 DEF Step, Types, ProgramTypeOK, QueueTypeOK, queueVars, statVars,
             syncVars, condVars
<1>1. /\ \E to \in ReaderLabels : pc' = [pc EXCEPT !["reader"] = to]
      /\ UNCHANGED <<add_attempts, add_count>>
  BY DEF ReaderStep, ReaderCalls, LeaveLoop, GetLock, Acquire, GetEnter, GetWait,
         GetProceed, GetRelock, GetNode, GetUnlink, GetCount, GetStat, GetSignal,
         GetDone, ReaderSucceeds, ReaderLabels
<1>2. LabelsInv'
  BY <1>1 DEF LabelsInv
<1>3. AttemptsInv'
  BY <1>1, SameAttempts
<1>4. CondInv'
  <2> USE DEF CondInv, SleepInv, NoLostWakeup
  <2>1. CASE \/ (ReaderCalls("lock") \/ LeaveLoop("reader")) /\ UNCHANGED syncVars
             \/ GetLock \/ GetEnter \/ GetRelock \/ GetWait \/ GetProceed \/ GetDone
    BY <2>1
       DEF ReaderCalls, LeaveLoop, GetLock, GetEnter, GetRelock, Acquire, GetWait,
           GetProceed, GetDone, ReaderSucceeds
  <2>2. CASE GetNode
    BY <2>2 DEF GetNode, GetUnlink, GetCount, GetStat
  <2>3. CASE GetSignal
    <3>1. not_full' = {}
      BY <2>3 DEF GetSignal, Woken
    <3> QED BY <2>3, <3>1 DEF GetSignal
  <2> QED BY <2>1, <2>2, <2>3 DEF ReaderStep
<1> QED BY <1>2, <1>3, <1>4

(* The monitor and main neither sleep nor signal.                          *)
LEMMA OtherStep ==
  ASSUME IndInv,
         (MonitorStep /\ UNCHANGED condVars) \/ (MainStep /\ UNCHANGED syncVars)
  PROVE  QueueStep /\ LabelsInv' /\ AttemptsInv' /\ CondInv'
<1>0. LabelsInv /\ Types /\ AttemptsInv /\ QueueInv /\ CondInv
  BY IndInvParts, QueueInvParts
<1> USE DEF syncVars, condVars, CondInv, SleepInv, NoLostWakeup
<1>1. CASE MonitorStep /\ UNCHANGED condVars
  <2>1. /\ QueueStep
        /\ \E to \in MonitorLabels : pc' = [pc EXCEPT !["qmonitor"] = to]
        /\ UNCHANGED <<count, add_attempts, add_count>>
    BY <1>0, <1>1, MonitorQueueStep
  <2>2. LabelsInv' /\ CondInv'
    BY <1>0, <1>1, <2>1 DEF LabelsInv, Types
  <2>3. AttemptsInv'
    BY <1>0, <2>1, SameAttempts DEF Types
  <2> QED BY <2>1, <2>2, <2>3
<1>2. CASE MainStep /\ UNCHANGED syncVars
  <2>1. /\ pc'["main"] \in MainLabels
        /\ \A t \in Workers :
             pc'[t] = pc[t] \/ (pc[t] = "none" /\ pc'[t] = "loop")
        /\ UNCHANGED <<count, add_attempts, add_count>>
    BY <1>0, <1>2, MainFrame DEF LabelsInv
  <2>2. LabelsInv' /\ CondInv'
    BY <1>0, <1>2, <2>1 DEF LabelsInv, WriterLabels, ReaderLabels, MonitorLabels
  <2>3. AttemptsInv'
    BY <1>0, <2>1, SameAttempts
  <2> QED BY <1>2, <2>1, <2>2, <2>3 DEF QueueStep
<1> QED BY <1>1, <1>2

(* A spurious wakeup, like a step of nobody, does not touch the queue.     *)
LEMMA WakeupInv ==
  ASSUME IndInv, SpuriousWakeup \/ UNCHANGED vars
  PROVE  /\ LabelsInv' /\ AttemptsInv' /\ QueueInv' /\ CondInv'
         /\ UNCHANGED Buffer!vars
<1>0. LabelsInv /\ AttemptsInv /\ QueueInv /\ CondInv
  BY IndInvParts
<1>1. UNCHANGED <<queueVars, programVars, lock>>
  BY DEF SpuriousWakeup, vars, syncVars
<1>2. QueueInv' /\ AttemptsInv' /\ UNCHANGED Buffer!vars
  BY <1>0, <1>1, GuardedStutter
<1>3. LabelsInv'
  BY <1>0, <1>1 DEF LabelsInv, programVars
<1>4. not_full' \subseteq not_full /\ not_empty' \subseteq not_empty
  BY DEF SpuriousWakeup, Woken, vars, syncVars, condVars
<1>5. CondInv'
  BY <1>0, <1>1, <1>4
     DEF CondInv, SleepInv, NoLostWakeup, programVars, queueVars
<1> QED BY <1>2, <1>3, <1>5

(* Any step: it is a QueueStep, or the queue does not see it.              *)
LEMMA StepIsQueueStep ==
  ASSUME IndInv, [Next]_vars
  PROVE  /\ LabelsInv' /\ AttemptsInv' /\ CondInv'
         /\ QueueStep \/ (QueueInv' /\ UNCHANGED Buffer!vars)
BY WriterQueueStep, WriterCond, ReaderQueueStep, ReaderCond, OtherStep, WakeupInv
   DEF Next, Ended

-----------------------------------------------------------------------------
(* The theorems.                                                           *)

(* IndInv holds in every reachable state.                                  *)
THEOREM Invariance == Spec => []IndInv
<1>1. Init => IndInv
  BY InitInv
<1>2. IndInv /\ [Next]_vars => IndInv'
  <2> SUFFICES ASSUME IndInv, [Next]_vars PROVE IndInv'
    OBVIOUS
  <2>1. QueueInv
    BY IndInvParts
  <2> QED BY <2>1, StepIsQueueStep, QueueStepInv, IndInvNext
<1> QED BY <1>1, <1>2, PTL DEF Spec

(* No wakeup is lost, however the calls and the spurious wakeups           *)
(* interleave.                                                             *)
THEOREM NoLostWakeupHolds == Spec => []NoLostWakeup
<1>1. IndInv => NoLostWakeup
  BY DEF IndInv
<1> QED BY <1>1, Invariance, PTL

(* Order, an intact list, no crash, and a teardown that nobody sleeps      *)
(* through.                                                                *)
THEOREM QueueSafeHolds == Spec => []QueueSafe
<1>1. IndInv => QueueSafe
  <2> SUFFICES ASSUME IndInv PROVE QueueSafe
    OBVIOUS
  <2>1. /\ MutualExclusion /\ FifoOrder /\ NoCrash /\ StatsConsistent
        /\ ListIntact /\ TeardownSafe /\ MainInv /\ CondInv
    BY IndInvParts, QueueInvParts, QueueInvSafe
  <2>2. Tearing => not_full = {} /\ not_empty = {}
    BY <2>1 DEF MainInv, CondInv, SleepInv
  <2> QED BY <2>1, <2>2, Zenon DEF QueueSafe, IndInv
<1> QED BY <1>1, Invariance, PTL

(* CondQueue implements the bounded FIFO buffer; that a call sleeps until  *)
(* its turn comes is not seen by its caller.                               *)
THEOREM Refinement == Spec => ImplementsFifo
<1>1. Init => Buffer!Init
  <2> SUFFICES ASSUME Init PROVE Buffer!Init
    OBVIOUS
  <2>1. QueuedInv
    BY QueueInitInv, QueuedIs DEF Init
  <2> QED BY <2>1, FifoInit DEF Init
<1>2. IndInv => QueuedInv
  BY IndInvParts, QueuedIs
<1>3. IndInv /\ IndInv' /\ QueuedInv /\ QueuedInv' /\ [Next]_vars
        => [Buffer!Next]_(Buffer!vars)
  <2> SUFFICES ASSUME IndInv, IndInv', QueuedInv, QueuedInv', [Next]_vars
               PROVE  [Buffer!Next]_(Buffer!vars)
    OBVIOUS
  <2>1. QueueInv /\ AttemptsInv /\ QueueInv'
    BY Zenon DEF IndInv
  <2>2. CASE QueueStep
    BY <2>1, <2>2, QueueStepFifo
  <2> QED BY <2>2, StepIsQueueStep
<1> QED BY <1>1, <1>2, <1>3, Invariance, PTL
        DEF Spec, ImplementsFifo, Buffer!Spec

-----------------------------------------------------------------------------
(* The hang is for ever.                                                   *)

(* Stranded, with the moments in which a spurious wakeup has the worker    *)
(* test its condition once more.                                           *)
Hung ==
  /\ Running
  /\ pc["main"] \in {"join_reader", "join_writer"}
  /\ \/ /\ pc["writer"] = "done" /\ pc["reader"] \in {"waiting", "test"}
        /\ count = 0
     \/ /\ pc["reader"] = "done" /\ pc["writer"] \in {"waiting", "test"}
        /\ count = MaxCount

(* No step of any thread, and no wakeup, ends it.                          *)
LEMMA HungStays == IndInv /\ Hung /\ [Next]_vars => Hung'
<1> SUFFICES ASSUME IndInv, Hung, [Next]_vars PROVE Hung'
  OBVIOUS
<1>0. Types /\ MainInv
  BY IndInvParts, QueueInvParts
<1> USE <1>0 DEF Hung, Running, Step, Types, ProgramTypeOK, QueueTypeOK,
             queueVars, syncVars, programVars, mainVars
<1>1. CASE MainStep
  BY <1>1
     DEF MainInv, MainStep, CreateMonitor, CreateReader, CreateWriter, Create,
         CreateFails, SetStop, JoinReader, JoinWriter, Join, DestroyStop, JoinMonitor,
         FreeNode, FreeNodesDone, FreeQueue
<1>2. CASE WriterStep
  BY <1>2
     DEF WriterStep, WriterCalls, LeaveLoop, AddLock, AddEnter, AddWait,
         AddProceed, AddRelock, Acquire, AddNode, AddNoMemory, OutOfMemory,
         AddLink, AddCount, AddStat, AddSignal, AddDone, WriterSucceeds
<1>3. CASE ReaderStep
  BY <1>3
     DEF ReaderStep, ReaderCalls, LeaveLoop, GetLock, GetEnter, GetWait,
         GetProceed, GetRelock, Acquire, GetNode, GetUnlink, GetCount, GetStat,
         GetSignal, GetDone, ReaderSucceeds
<1>4. CASE MonitorStep
  BY <1>4
     DEF MonitorStep, MonitorCalls, LeaveLoop, StatsLock, Acquire, StatsPrint,
         ShowStats, StatsUnlock, TriesAgain
<1>5. CASE SpuriousWakeup \/ UNCHANGED vars
  BY <1>5 DEF SpuriousWakeup, vars
<1> QED BY <1>1, <1>2, <1>3, <1>4, <1>5 DEF Next, Ended

(* A worker that sleeps when the other one has left its loop sleeps for    *)
(* ever, whatever the monitor and spurious wakeups do: main waits in its   *)
(* joins, and the process never ends.                                      *)
THEOREM StrandedForEver == Spec => [](Running /\ Stranded => [](Running /\ ~Tearing))
<1>1. Running /\ Stranded => Hung
  BY DEF Stranded, Hung
<1>2. Hung => Running /\ ~Tearing
  BY DEF Hung, Tearing
<1> QED BY <1>1, <1>2, HungStays, Invariance, PTL DEF Spec

(* The two workers never sleep at the same time, each for the signal of    *)
(* the other.                                                              *)
THEOREM NeverBothAsleep == Spec => [](not_full = {} \/ not_empty = {})
<1>1. IndInv => not_full = {} \/ not_empty = {}
  <2> SUFFICES ASSUME IndInv, not_full # {}, not_empty # {} PROVE FALSE
    OBVIOUS
  <2>1. "writer" \in not_full /\ "reader" \in not_empty
    BY DEF IndInv, TypeOK
  <2>2. pc["writer"] = "waiting" /\ pc["reader"] = "waiting"
    BY <2>1 DEF IndInv, SleepInv
  <2>3. count = MaxCount /\ count = 0
    BY <2>1, <2>2 DEF IndInv, NoLostWakeup
  <2> QED BY <2>3, QueueDataAssumption
<1> QED BY <1>1, Invariance, PTL

-----------------------------------------------------------------------------
(* The end of the program.                                                 *)

(* A worker that was woken goes back to its test.                          *)
Awake(t, sleepers) == IF pc[t] = "waiting" /\ t \notin sleepers THEN 2 ELSE 0

CondLeft == StepsLeft + Awake("writer", not_full) + Awake("reader", not_empty)

(* The heap is finite, and the weights are numbers.                        *)
LEMMA CondLeftType ==
  ASSUME IndInv
  PROVE  /\ Types /\ IsFiniteSet(heap) /\ StepsLeft \in Nat
         /\ Awake("writer", not_full) \in 0 .. 2
         /\ Awake("reader", not_empty) \in 0 .. 2
         /\ CondLeft \in Nat
         /\ ~Tearing => CondLeft <= MaxCount + 73
<1>1. Types /\ IsFiniteSet(heap)
  BY IndInvParts, QueueInvParts DEF Data, ListInv
<1>2. StepsLeft \in Nat /\ (~Tearing => StepsLeft <= MaxCount + 69)
  BY IndInvParts, FewStepsLeft
<1>3. Awake("writer", not_full) \in 0 .. 2 /\ Awake("reader", not_empty) \in 0 .. 2
  BY DEF Awake
<1> QED BY <1>1, <1>2, <1>3, QueueDataAssumption DEF CondLeft

(* A step that neither sleeps, wakes nor returns from a wait leaves the    *)
(* sleepers alone.                                                         *)
LEMMA SameSleepers ==
  ASSUME IndInv, UNCHANGED condVars,
         \A t \in {"writer", "reader"} :
           pc'[t] = pc[t] \/ (pc[t] # "waiting" /\ pc'[t] # "waiting"),
         StepsLeft' \in Nat, StepsLeft' < StepsLeft
  PROVE  CondLeft' < CondLeft
<1>1. /\ Awake("writer", not_full)' = Awake("writer", not_full)
      /\ Awake("reader", not_empty)' = Awake("reader", not_empty)
  BY DEF Awake, condVars
<1>2. /\ StepsLeft \in Nat /\ Awake("writer", not_full) \in 0 .. 2
      /\ Awake("reader", not_empty) \in 0 .. 2
  BY CondLeftType
<1> QED BY <1>1, <1>2 DEF CondLeft

(* A step of a worker w, and what it does to the weights when the heap     *)
(* stays.                                                                  *)
LEMMA WorkerWeights ==
  ASSUME IndInv, Running, UNCHANGED heap, NEW w \in {"writer", "reader"}, NEW to,
         pc' = [pc EXCEPT ![w] = to]
  PROVE  StepsLeft' \in Nat /\ StepsLeft' + After(pc[w]) <= StepsLeft + After(to)
<1>1. Types /\ IsFiniteSet(heap) /\ StepsLeft \in Nat
  BY CondLeftType
<1>2. /\ StepsLeft' \in Nat
      /\ StepsLeft' + After(pc[w]) + Cardinality(heap)
           <= StepsLeft + After(to) + Cardinality(heap')
  BY <1>1, WorkerCosts
<1>3. Cardinality(heap) \in Nat /\ Cardinality(heap') = Cardinality(heap)
  BY <1>1, FS_CardinalityType
<1>4. After(pc[w]) \in Nat /\ After(to) \in Nat
  BY AfterLabels
<1> QED BY <1>1, <1>2, <1>3, <1>4

(* The writer after the stop.  Its signal may cost the reader a second     *)
(* test, but it has only one signal left.                                  *)
LEMMA WriterNearsEnd ==
  ASSUME IndInv, stop, WriterStep, StepsLeft' \in Nat
  PROVE  CondLeft' < CondLeft
<1>0. /\ Types /\ IsFiniteSet(heap) /\ StepsLeft \in Nat
      /\ Awake("writer", not_full) \in 0 .. 2
      /\ Awake("reader", not_empty) \in 0 .. 2
  BY CondLeftType
<1> USE <1>0 DEF Step, Types, queueVars, listVars, syncVars, condVars
<1>1. CASE AddNode
  <2>1. StepsLeft' < StepsLeft
    BY <1>1, NodeNearsEnd DEF AddNode
  <2>2. \A t \in {"writer", "reader"} :
          pc'[t] = pc[t] \/ (pc[t] # "waiting" /\ pc'[t] # "waiting")
    BY <1>1 DEF AddNode, AddNoMemory, OutOfMemory, AddLink, AddCount, AddStat
  <2> QED BY <1>1, <2>1, <2>2, SameSleepers DEF AddNode
<1>2. CASE \/ LeaveLoop("writer") /\ UNCHANGED syncVars
        \/ AddLock \/ AddEnter \/ AddProceed \/ AddDone
  <2>1. /\ Running /\ UNCHANGED heap
        /\ pc["writer"] # "waiting"
        /\ \E to : /\ pc' = [pc EXCEPT !["writer"] = to] /\ to # "waiting"
                   /\ After(to) < After(pc["writer"])
    BY <1>2, AfterLabels
       DEF LeaveLoop, AddLock, Acquire, AddEnter, AddProceed, AddDone,
           WriterSucceeds
  <2>2. StepsLeft' < StepsLeft
    BY <2>1, CalmWorkerNearsEnd
  <2>3. UNCHANGED condVars
    BY <1>2 DEF LeaveLoop, AddLock, AddEnter, AddProceed, AddDone
  <2> QED BY <2>1, <2>2, <2>3, SameSleepers
<1>3. CASE AddWait
  <2>1. /\ Running /\ UNCHANGED heap /\ pc["writer"] = "test"
        /\ pc' = [pc EXCEPT !["writer"] = "waiting"]
        /\ "writer" \in not_full' /\ UNCHANGED not_empty
    BY <1>3 DEF AddWait
  <2>2. StepsLeft' + 14 <= StepsLeft + 13
    BY <2>1, WorkerWeights, AfterLabels
  <2>3. /\ Awake("writer", not_full)' = 0
        /\ Awake("reader", not_empty)' = Awake("reader", not_empty)
    BY <2>1 DEF Awake
  <2> QED BY <2>2, <2>3 DEF CondLeft
<1>4. CASE AddRelock
  <2>1. /\ Running /\ UNCHANGED heap /\ pc["writer"] = "waiting"
        /\ pc' = [pc EXCEPT !["writer"] = "test"]
        /\ "writer" \notin not_full /\ UNCHANGED not_empty
    BY <1>4 DEF AddRelock, Acquire
  <2>2. StepsLeft' + 13 <= StepsLeft + 14
    BY <2>1, WorkerWeights, AfterLabels
  <2>3. /\ Awake("writer", not_full)' = 0 /\ Awake("writer", not_full) = 2
        /\ Awake("reader", not_empty)' = Awake("reader", not_empty)
    BY <2>1 DEF Awake
  <2> QED BY <2>2, <2>3 DEF CondLeft
<1>5. CASE AddSignal
  <2>1. /\ Running /\ UNCHANGED heap /\ pc["writer"] = "signal"
        /\ pc' = [pc EXCEPT !["writer"] = "unlock"]
    BY <1>5 DEF AddSignal
  <2>2. StepsLeft' + 8 <= StepsLeft + 5
    BY <2>1, WorkerWeights, AfterLabels
  <2>3. /\ Awake("writer", not_full)' = 0 /\ Awake("writer", not_full) = 0
        /\ Awake("reader", not_empty)' \in 0 .. 2
    BY <2>1 DEF Awake
  <2> QED BY <2>2, <2>3 DEF CondLeft
<1> QED BY <1>1, <1>2, <1>3, <1>4, <1>5 DEF WriterStep, WriterCalls

(* The reader after the stop.                                              *)
LEMMA ReaderNearsEnd ==
  ASSUME IndInv, stop, ReaderStep, StepsLeft' \in Nat
  PROVE  CondLeft' < CondLeft
<1>0. /\ Types /\ IsFiniteSet(heap) /\ StepsLeft \in Nat
      /\ Awake("writer", not_full) \in 0 .. 2
      /\ Awake("reader", not_empty) \in 0 .. 2
  BY CondLeftType
<1> USE <1>0 DEF Step, Types, queueVars, listVars, syncVars, condVars
<1>1. CASE GetNode
  <2>1. StepsLeft' < StepsLeft
    BY <1>1, NodeNearsEnd DEF GetNode
  <2>2. \A t \in {"writer", "reader"} :
          pc'[t] = pc[t] \/ (pc[t] # "waiting" /\ pc'[t] # "waiting")
    BY <1>1 DEF GetNode, GetUnlink, GetCount, GetStat
  <2> QED BY <1>1, <2>1, <2>2, SameSleepers DEF GetNode
<1>2. CASE \/ LeaveLoop("reader") /\ UNCHANGED syncVars
        \/ GetLock \/ GetEnter \/ GetProceed \/ GetDone
  <2>1. /\ Running /\ UNCHANGED heap
        /\ pc["reader"] # "waiting"
        /\ \E to : /\ pc' = [pc EXCEPT !["reader"] = to] /\ to # "waiting"
                   /\ After(to) < After(pc["reader"])
    BY <1>2, AfterLabels
       DEF LeaveLoop, GetLock, Acquire, GetEnter, GetProceed, GetDone,
           ReaderSucceeds
  <2>2. StepsLeft' < StepsLeft
    BY <2>1, CalmWorkerNearsEnd
  <2>3. UNCHANGED condVars
    BY <1>2 DEF LeaveLoop, GetLock, GetEnter, GetProceed, GetDone
  <2> QED BY <2>1, <2>2, <2>3, SameSleepers
<1>3. CASE GetWait
  <2>1. /\ Running /\ UNCHANGED heap /\ pc["reader"] = "test"
        /\ pc' = [pc EXCEPT !["reader"] = "waiting"]
        /\ "reader" \in not_empty' /\ UNCHANGED not_full
    BY <1>3 DEF GetWait
  <2>2. StepsLeft' + 14 <= StepsLeft + 13
    BY <2>1, WorkerWeights, AfterLabels
  <2>3. /\ Awake("reader", not_empty)' = 0
        /\ Awake("writer", not_full)' = Awake("writer", not_full)
    BY <2>1 DEF Awake
  <2> QED BY <2>2, <2>3 DEF CondLeft
<1>4. CASE GetRelock
  <2>1. /\ Running /\ UNCHANGED heap /\ pc["reader"] = "waiting"
        /\ pc' = [pc EXCEPT !["reader"] = "test"]
        /\ "reader" \notin not_empty /\ UNCHANGED not_full
    BY <1>4 DEF GetRelock, Acquire
  <2>2. StepsLeft' + 13 <= StepsLeft + 14
    BY <2>1, WorkerWeights, AfterLabels
  <2>3. /\ Awake("reader", not_empty)' = 0 /\ Awake("reader", not_empty) = 2
        /\ Awake("writer", not_full)' = Awake("writer", not_full)
    BY <2>1 DEF Awake
  <2> QED BY <2>2, <2>3 DEF CondLeft
<1>5. CASE GetSignal
  <2>1. /\ Running /\ UNCHANGED heap /\ pc["reader"] = "signal"
        /\ pc' = [pc EXCEPT !["reader"] = "unlock"]
    BY <1>5 DEF GetSignal
  <2>2. StepsLeft' + 8 <= StepsLeft + 5
    BY <2>1, WorkerWeights, AfterLabels
  <2>3. /\ Awake("reader", not_empty)' = 0 /\ Awake("reader", not_empty) = 0
        /\ Awake("writer", not_full)' \in 0 .. 2
    BY <2>1 DEF Awake
  <2> QED BY <2>2, <2>3 DEF CondLeft
<1> QED BY <1>1, <1>2, <1>3, <1>4, <1>5 DEF ReaderStep, ReaderCalls

(* main and the monitor after the stop.                                    *)
LEMMA OthersNearEnd ==
  ASSUME IndInv, StageInv, stop, StepsLeft' \in Nat, UNCHANGED condVars,
         MainStep \/ MonitorStep
  PROVE  CondLeft' < CondLeft
<1>0. Types /\ IsFiniteSet(heap)
  BY CondLeftType
<1>1. StepsLeft' < StepsLeft
  BY <1>0, MainNearsEnd, MonitorNearsEnd
<1>2. \A t \in {"writer", "reader"} : pc'[t] = pc[t]
  <2>1. CASE MainStep
    BY <1>0, <2>1
       DEF StageInv, Creating, MainStep, CreateMonitor, CreateReader,
           CreateWriter, Create, CreateFails, SetStop, JoinReader, JoinWriter,
           Join, DestroyStop, JoinMonitor, FreeNode, FreeNodesDone, FreeQueue,
           Step, Types
  <2>2. CASE MonitorStep
    BY <1>0, <2>2
       DEF MonitorStep, MonitorCalls, LeaveLoop, StatsLock, Acquire, StatsPrint,
           ShowStats, StatsUnlock, TriesAgain, Step, Types
  <2> QED BY <2>1, <2>2
<1> QED BY <1>1, <1>2, SameSleepers

(* A spurious wakeup may send a worker to its test once more.              *)
LEMMA WakeupCosts ==
  ASSUME IndInv, SpuriousWakeup
  PROVE  CondLeft' <= CondLeft + 2
<1>1. /\ StepsLeft \in Nat
      /\ not_full \subseteq {"writer"} /\ not_empty \subseteq {"reader"}
      /\ Awake("writer", not_full) \in 0 .. 2
      /\ Awake("reader", not_empty) \in 0 .. 2
  BY CondLeftType DEF IndInv, TypeOK
<1>2. UNCHANGED <<proc, pc, heap>>
  BY DEF SpuriousWakeup, programVars, queueVars, listVars
<1>3. StepsLeft' = StepsLeft
  BY <1>2 DEF StepsLeft, Alive, Running
<1>4. \/ /\ Awake("writer", not_full)' \in 0 .. 2
         /\ Awake("reader", not_empty)' = Awake("reader", not_empty)
      \/ /\ Awake("reader", not_empty)' \in 0 .. 2
         /\ Awake("writer", not_full)' = Awake("writer", not_full)
  BY <1>2 DEF SpuriousWakeup, Awake
<1> QED BY <1>1, <1>3, <1>4 DEF CondLeft

(* main's progress is an invariant.                                        *)
LEMMA Stages == Spec => []StageInv
<1>1. Init => StageInv
  BY StageInit DEF Init
<1>2. IndInv /\ StageInv /\ [Next]_vars => StageInv'
  <2> SUFFICES ASSUME IndInv, StageInv, [Next]_vars PROVE StageInv'
    OBVIOUS
  <2>1. CASE Ended \/ SpuriousWakeup \/ UNCHANGED vars
    BY <2>1 DEF Ended, SpuriousWakeup, vars, programVars, mainVars, StageInv, Running
  <2>2. CASE ~Ended /\ ~SpuriousWakeup /\ ~UNCHANGED vars
    <3>1. QueueStep
      BY <2>2, WriterQueueStep, ReaderQueueStep, OtherStep DEF Next
    <3> QED BY <3>1, IndInvParts, QueueInvParts, StageStep
  <2> QED BY <2>1, <2>2
<1> QED BY <1>1, <1>2, Invariance, PTL DEF Spec

(* After q->stop = 1 every step brings the program closer to its end, or   *)
(* to the place where a worker sleeps for ever, but for a spurious wakeup, *)
(* which costs at most two steps more.                                     *)
THEOREM StopIsBounded ==
  Spec => /\ [](CondLeft \in Nat /\ (~Tearing => CondLeft <= MaxCount + 73))
          /\ [][stop => IF SpuriousWakeup THEN CondLeft' <= CondLeft + 2
                                          ELSE CondLeft' < CondLeft]_vars
<1>1. /\ IndInv => StepsLeft \in Nat /\ CondLeft \in Nat
      /\ IndInv => (~Tearing => CondLeft <= MaxCount + 73)
  BY CondLeftType
<1>2. IndInv /\ StageInv /\ (StepsLeft \in Nat)' /\ [Next]_vars
        => [stop => IF SpuriousWakeup THEN CondLeft' <= CondLeft + 2
                                      ELSE CondLeft' < CondLeft]_vars
  <2> SUFFICES ASSUME IndInv, StageInv, StepsLeft' \in Nat, Next, stop,
                      ~UNCHANGED vars
               PROVE  IF SpuriousWakeup THEN CondLeft' <= CondLeft + 2
                                        ELSE CondLeft' < CondLeft
    OBVIOUS
  <2>1. CASE SpuriousWakeup
    BY <2>1, WakeupCosts
  <2>2. CASE ~SpuriousWakeup
    BY <2>2, WriterNearsEnd, ReaderNearsEnd, OthersNearEnd DEF Next, Ended, syncVars
  <2> QED BY <2>1, <2>2
<1> QED BY <1>1, <1>2, Invariance, Stages, PTL DEF Spec

(* A worker may also sleep on its condition variable.                      *)
Blocked(t) ==
  \/ WorkerBlocked(t)
  \/ t = "writer" /\ "writer" \in not_full
  \/ t = "reader" /\ "reader" \in not_empty

(* When nobody can go on in a running program, one worker has left its     *)
(* loop and the other sleeps: there is no other way to hang.               *)
THEOREM OnlyStranding ==
  Spec => [](Running /\ MainBlocked /\ (\A t \in Workers : Blocked(t)) => Stranded)
<1>1. IndInv /\ StageInv /\ (not_full = {} \/ not_empty = {})
        => (Running /\ MainBlocked /\ (\A t \in Workers : Blocked(t)) => Stranded)
  <2> SUFFICES ASSUME IndInv, StageInv, not_full = {} \/ not_empty = {}, Running,
                      MainBlocked, \A t \in Workers : Blocked(t)
               PROVE  Stranded
    OBVIOUS
  <2>0. SleepInv /\ NoLostWakeup
    BY DEF IndInv
  <2>1. \A t \in Workers : ~Inside(t)
    BY <2>0 DEF Blocked, WorkerBlocked, SleepInv, Inside, Outside
  <2>2. /\ lock = "nobody" /\ stop /\ \A t \in Workers : pc[t] # "none"
        /\ \/ pc["main"] = "join_reader" /\ pc["reader"] # "done"
           \/ /\ pc["main"] = "join_writer" /\ pc["writer"] # "done"
              /\ pc["reader"] = "done"
    BY <2>1, IndInvParts, WhoIsBlocked DEF LabelsInv, Blocked
  <2>3. /\ pc["writer"] = "done" \/ "writer" \in not_full
        /\ pc["reader"] = "done" \/ "reader" \in not_empty
    BY <2>2 DEF Blocked, WorkerBlocked
  <2> QED BY <2>0, <2>2, <2>3 DEF Stranded, SleepInv, NoLostWakeup
<1> QED BY <1>1, Invariance, Stages, NeverBothAsleep, PTL
=============================================================================

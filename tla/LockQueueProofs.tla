-------------------------- MODULE LockQueueProofs --------------------------
(***************************************************************************)
(* LockQueue for every MaxCount, every number of calls and every set of    *)
(* addresses: IndInv is an invariant, with it the safety properties, and   *)
(* LockQueue implements the bounded FIFO buffer.                           *)
(*                                                                         *)
(* Every step of a thread is a QueueStep, so GuardedQueueProofs says what  *)
(* becomes of the queue; left are the labels and the number of calls.      *)
(*                                                                         *)
(* Last comes the end of the program: after the stop every step brings it  *)
(* closer, and while it runs somebody can go on.                           *)
(***************************************************************************)
EXTENDS LockQueue, GuardedQueueProofs

USE DEF Threads, Workers

(* Each thread is at one of its own labels.                                *)
LabelsInv ==
  /\ pc["main"] \in MainLabels
  /\ pc["writer"] \in WriterLabels
  /\ pc["reader"] \in ReaderLabels
  /\ pc["qmonitor"] \in MonitorLabels

(* IndInv without what its parts say twice.                                *)
LEMMA IndInvParts == IndInv <=> LabelsInv /\ QueueInv /\ AttemptsInv
<1>1. IndInv => LabelsInv
  BY DEF IndInv, TypeOK, LabelsInv
<1>2. LabelsInv /\ QueueInv => TypeOK
  <2> SUFFICES ASSUME LabelsInv, QueueInv PROVE TypeOK
    OBVIOUS
  <2>1. Types /\ LockInv
    BY QueueInvParts
  <2>2. pc = [t \in Threads |-> pc[t]]
    BY <2>1 DEF Types
  <2>3. \A t \in Threads : pc[t] \in Labels
    BY DEF LabelsInv, Labels
  <2>4. pc \in [Threads -> Labels]
    BY <2>2, <2>3
  <2> QED BY <2>1, <2>4 DEF TypeOK, LabelsInv, Types, LockInv
<1> QED BY <1>1, <1>2, Zenon DEF IndInv

(* What the three parts of IndInv become in a step.                        *)
LEMMA IndInvNext == LabelsInv' /\ QueueInv' /\ AttemptsInv' => IndInv'
<1> SUFFICES ASSUME LabelsInv', QueueInv', AttemptsInv' PROVE IndInv'
  OBVIOUS
<1>1. Types' /\ LockInv'
  BY Zenon DEF QueueInv, Types
<1>2. pc' = [t \in Threads |-> pc'[t]]
  BY <1>1 DEF Types
<1>3. \A t \in Threads : pc'[t] \in Labels
  BY DEF LabelsInv, Labels
<1>4. pc' \in [Threads -> Labels]
  BY <1>2, <1>3
<1>5. TypeOK'
  BY <1>1, <1>4 DEF TypeOK, LabelsInv, Types, LockInv
<1> QED BY <1>5, Zenon DEF IndInv

(* IndInv holds when main is about to call queue_init.                     *)
LEMMA InitInv == Init => IndInv
<1> SUFFICES ASSUME Init PROVE IndInv
  OBVIOUS
<1>1. pc = [t \in Threads |-> IF t = "main" THEN "create_qmonitor" ELSE "none"]
  BY DEF Init, GuardedInit, ProgramInit
<1>2. LabelsInv
  BY <1>1 DEF LabelsInv, MainLabels, WriterLabels, ReaderLabels, MonitorLabels
<1> QED BY <1>2, QueueInitInv, AttemptsInit, IndInvParts DEF Init

-----------------------------------------------------------------------------
(* The steps of the threads are QueueSteps.                                *)

(* queue_add and the loop of the writer.                                   *)
LEMMA WriterQueueStep ==
  ASSUME IndInv, WriterStep
  PROVE  QueueStep /\ LabelsInv' /\ AttemptsInv'
<1>0. LabelsInv /\ Types /\ AttemptsInv /\ QueueInv
  BY IndInvParts, QueueInvParts
<1> USE <1>0 DEF Step, Types, ProgramTypeOK, QueueTypeOK, queueVars, statVars,
             readerVars
<1>1. CASE LeaveLoop("writer") /\ UNCHANGED lock
  <2>1. QueueStep
    BY <1>1, LoopSteps DEF QueueStep
  <2> QED BY <1>1, <2>1
          DEF LeaveLoop, LabelsInv, WriterLabels, AttemptsInv, linked
<1>2. CASE WriterCalls("lock") /\ UNCHANGED lock
  <2>1. QueueStep
    BY <1>2, LoopSteps DEF QueueStep
  <2> QED BY <1>2, <2>1
          DEF WriterCalls, LabelsInv, WriterLabels, AttemptsInv, linked
<1>3. CASE AddLock
  <2>1. "enter" \notin Outside /\ "enter" \notin Busy
    BY DEF Outside, Busy, Succeeded
  <2>2. QueueStep
    BY <1>3, <2>1, AcquireStep DEF AddLock, QueueStep
  <2> QED BY <1>3, <2>2
          DEF AddLock, Acquire, LabelsInv, WriterLabels, AttemptsInv, linked
<1>4. CASE AddEnter
  <2>1. count <= MaxCount
    BY QueueInvParts DEF Data, CountInv
  <2>2. UNCHANGED proc
    BY <1>4, <2>1 DEF AddEnter, AssertHolds
  <2>3. ControlStep("writer", IF count = MaxCount THEN "unlock_full" ELSE "link")
    BY <1>4, <2>2
       DEF AddEnter, ControlStep, LockFollows, Inside, Outside, Busy, Succeeded
  <2>4. QueueStep
    BY <2>3 DEF QueueStep
  <2> QED BY <1>4, <2>4, MaxAttemptsAssumption
          DEF AddEnter, LabelsInv, WriterLabels, AttemptsInv, linked
<1>5. CASE AddFull
  <2>1. ControlStep("writer", "loop")
    BY <1>5
       DEF AddFull, TriesAgain, Release, ControlStep, LockFollows, Inside,
           Outside, Busy, Succeeded
  <2>2. QueueStep
    BY <2>1 DEF QueueStep
  <2> QED BY <1>5, <2>2
          DEF AddFull, TriesAgain, LabelsInv, WriterLabels, AttemptsInv, linked
<1>6. CASE AddNoMemory
  BY <1>6
     DEF AddNoMemory, OutOfMemory, QueueStep, LabelsInv, AttemptsInv, linked
<1>7. CASE AddLink
  BY <1>7 DEF AddLink, QueueStep, LabelsInv, WriterLabels, AttemptsInv, linked
<1>8. CASE AddCount
  BY <1>8 DEF AddCount, QueueStep, LabelsInv, WriterLabels, AttemptsInv, linked
<1>9. CASE AddStat("unlock")
  <2>1. QueueStep
    BY <1>9 DEF QueueStep, Succeeded, Outside
  <2> QED BY <1>9, <2>1 DEF AddStat, LabelsInv, WriterLabels, AttemptsInv, linked
<1>10. CASE AddDone
  <2>1. LockFollows("writer", "loop")
    BY <1>10
       DEF AddDone, WriterSucceeds, Release, LockFollows, Inside, Outside
  <2>2. QueueStep
    BY <1>10, <2>1 DEF AddDone, QueueStep, Succeeded
  <2> QED BY <1>10, <2>2
          DEF AddDone, WriterSucceeds, LabelsInv, WriterLabels, AttemptsInv, linked
<1> QED BY <1>1, <1>2, <1>3, <1>4, <1>5, <1>6, <1>7, <1>8, <1>9, <1>10
        DEF WriterStep, AddNode

(* queue_get and the loop of the reader.                                   *)
LEMMA ReaderQueueStep ==
  ASSUME IndInv, ReaderStep
  PROVE  QueueStep /\ LabelsInv' /\ AttemptsInv'
<1>0. LabelsInv /\ Types /\ AttemptsInv /\ QueueInv
  BY IndInvParts, QueueInvParts
<1> USE <1>0 DEF Step, Types, ProgramTypeOK, QueueTypeOK, queueVars, statVars,
             readerVars
<1>1. QueueStep
  <2>1. CASE (ReaderCalls("lock") \/ LeaveLoop("reader")) /\ UNCHANGED lock
    BY <2>1, LoopSteps DEF QueueStep
  <2>2. CASE GetLock
    <3>1. "enter" \notin Outside /\ "enter" \notin Busy
      BY DEF Outside, Busy, Succeeded
    <3> QED BY <2>2, <3>1, AcquireStep DEF GetLock, QueueStep
  <2>3. CASE GetEnter
    <3>1. 0 <= count
      BY QueueInvParts DEF Data, CountInv
    <3>2. UNCHANGED proc
      BY <2>3, <3>1 DEF GetEnter, AssertHolds
    <3>3. ControlStep("reader", IF count = 0 THEN "unlock_empty" ELSE "unlink")
      BY <2>3, <3>2
         DEF GetEnter, ControlStep, LockFollows, Inside, Outside, Busy, Succeeded
    <3> QED BY <3>3 DEF QueueStep
  <2>4. CASE GetEmpty
    <3>1. ControlStep("reader", "loop")
      BY <2>4
         DEF GetEmpty, TriesAgain, Release, ControlStep, LockFollows, Inside,
             Outside, Busy, Succeeded
    <3> QED BY <3>1 DEF QueueStep
  <2>5. CASE GetNode
    BY <2>5 DEF GetNode, QueueStep, Succeeded, Outside
  <2>6. CASE GetDone
    <3>1. LockFollows("reader", "loop")
      BY <2>6
         DEF GetDone, ReaderSucceeds, Release, LockFollows, Inside, Outside
    <3> QED BY <2>6, <3>1 DEF GetDone, QueueStep, Succeeded
  <2> QED BY <2>1, <2>2, <2>3, <2>4, <2>5, <2>6 DEF ReaderStep
<1>2. /\ \E to \in ReaderLabels : pc' = [pc EXCEPT !["reader"] = to]
      /\ UNCHANGED <<add_attempts, add_count>>
  BY DEF ReaderStep, ReaderCalls, LeaveLoop, GetLock, Acquire, GetEnter, GetEmpty,
         TriesAgain, GetNode, GetUnlink, GetCount, GetStat, GetDone, ReaderSucceeds,
         ReaderLabels
<1>3. LabelsInv'
  BY <1>2 DEF LabelsInv
<1>4. AttemptsInv'
  BY <1>2, SameAttempts
<1> QED BY <1>1, <1>3, <1>4

(* The monitor and main.                                                   *)
LEMMA OtherQueueStep ==
  ASSUME IndInv, MonitorStep \/ (MainStep /\ UNCHANGED lock)
  PROVE  QueueStep /\ LabelsInv' /\ AttemptsInv'
<1>0. LabelsInv /\ Types /\ AttemptsInv /\ QueueInv
  BY IndInvParts, QueueInvParts
<1>1. CASE MonitorStep
  <2>1. /\ QueueStep
        /\ \E to \in MonitorLabels : pc' = [pc EXCEPT !["qmonitor"] = to]
        /\ UNCHANGED <<add_attempts, add_count>>
    BY <1>0, <1>1, MonitorQueueStep
  <2>2. LabelsInv'
    BY <1>0, <2>1 DEF LabelsInv, Types
  <2>3. AttemptsInv'
    BY <1>0, <2>1, SameAttempts DEF Types
  <2> QED BY <2>1, <2>2, <2>3
<1>2. CASE MainStep /\ UNCHANGED lock
  <2>1. /\ pc'["main"] \in MainLabels
        /\ \A t \in Workers :
             pc'[t] = pc[t] \/ (pc[t] = "none" /\ pc'[t] = "loop")
        /\ UNCHANGED <<add_attempts, add_count>>
    BY <1>0, <1>2, MainFrame DEF LabelsInv
  <2>2. LabelsInv'
    BY <1>0, <2>1 DEF LabelsInv, WriterLabels, ReaderLabels, MonitorLabels
  <2>3. AttemptsInv'
    BY <1>0, <2>1, SameAttempts
  <2> QED BY <1>2, <2>1, <2>2, <2>3 DEF QueueStep
<1> QED BY <1>1, <1>2

(* Any step: it is a QueueStep, or nothing happens.                        *)
LEMMA StepIsQueueStep ==
  ASSUME IndInv, [Next]_vars
  PROVE  \/ QueueStep /\ LabelsInv' /\ AttemptsInv'
         \/ UNCHANGED vars
BY WriterQueueStep, ReaderQueueStep, OtherQueueStep DEF Next, Ended

-----------------------------------------------------------------------------
(* The theorems.                                                           *)

(* IndInv holds in every reachable state.                                  *)
THEOREM Invariance == Spec => []IndInv
<1>1. Init => IndInv
  BY InitInv
<1>2. IndInv /\ [Next]_vars => IndInv'
  <2> SUFFICES ASSUME IndInv, [Next]_vars PROVE IndInv'
    OBVIOUS
  <2>1. LabelsInv /\ QueueInv /\ AttemptsInv
    BY IndInvParts
  <2>2. CASE QueueStep /\ LabelsInv' /\ AttemptsInv'
    BY <2>1, <2>2, QueueStepInv, IndInvNext
  <2>3. CASE UNCHANGED vars
    <3>1. LabelsInv'
      BY <2>1, <2>3 DEF vars, programVars, LabelsInv
    <3> QED BY <2>1, <2>3, <3>1, GuardedStutter, IndInvNext DEF vars
  <2> QED BY <2>2, <2>3, StepIsQueueStep
<1> QED BY <1>1, <1>2, PTL DEF Spec

(* Every variable keeps its type.                                          *)
THEOREM TypeCorrect == Spec => []TypeOK
<1>1. IndInv => TypeOK
  BY DEF IndInv
<1> QED BY <1>1, Invariance, PTL

(* The lock works: no two threads are ever inside the queue operations.    *)
THEOREM MutualExclusionHolds == Spec => []MutualExclusion
<1>1. IndInv => MutualExclusion
  BY IndInvParts, QueueInvSafe
<1> QED BY <1>1, Invariance, PTL

(* The reader receives the writer's values in order, each exactly once:    *)
(* its check never prints ERROR.                                           *)
THEOREM FifoOrderHolds == Spec => []FifoOrder
<1>1. IndInv => FifoOrder
  BY IndInvParts, QueueInvSafe
<1> QED BY <1>1, Invariance, PTL

(* No assertion fails and no null or freed node is touched.                *)
THEOREM NoCrashHolds == Spec => []NoCrash
<1>1. IndInv => NoCrash
  BY IndInvParts, QueueInvSafe
<1> QED BY <1>1, Invariance, PTL

(* Every line of statistics is a consistent snapshot.                      *)
THEOREM StatsConsistentHolds == Spec => []StatsConsistent
<1>1. IndInv => StatsConsistent
  BY IndInvParts, QueueInvSafe
<1> QED BY <1>1, Invariance, PTL

(* Whenever the lock is free, count, the statistics and both ends agree    *)
(* with the list in the heap.                                              *)
THEOREM ListIntactHolds == Spec => []ListIntact
<1>1. IndInv => ListIntact
  BY IndInvParts, QueueInvSafe
<1> QED BY <1>1, Invariance, PTL

(* queue_destroy runs alone and frees every node that was still queued.    *)
THEOREM TeardownSafeHolds == Spec => []TeardownSafe
<1>1. IndInv => TeardownSafe
  BY IndInvParts, QueueInvSafe
<1> QED BY <1>1, Invariance, PTL

(* LockQueue implements the bounded FIFO buffer: every step is a Put of    *)
(* the writer's next value, a Take of the oldest, the Close or a Discard   *)
(* of queue_destroy, or is not seen by the callers.                        *)
THEOREM Refinement == Spec => ImplementsFifo
<1>1. Init => Buffer!Init
  <2> SUFFICES ASSUME Init PROVE Buffer!Init
    OBVIOUS
  <2>1. QueuedInv
    BY QueueInitInv, QueuedIs DEF Init
  <2> QED BY <2>1, FifoInit DEF Init
<1>2. IndInv => QueuedInv
  BY IndInvParts, QueuedIs
<1>3. IndInv /\ IndInv' /\ QueuedInv /\ QueuedInv' /\ [Next]_vars
        => [Buffer!Next]_(Buffer!vars)
  <2> SUFFICES ASSUME IndInv, IndInv', QueuedInv, QueuedInv', [Next]_vars
               PROVE  [Buffer!Next]_(Buffer!vars)
    OBVIOUS
  <2>1. QueueInv /\ AttemptsInv /\ QueueInv'
    BY Zenon DEF IndInv
  <2>2. CASE QueueStep
    BY <2>1, <2>2, QueueStepFifo
  <2>3. CASE UNCHANGED vars
    BY <2>1, <2>3, GuardedStutter DEF vars
  <2> QED BY <2>2, <2>3, StepIsQueueStep
<1> QED BY <1>1, <1>2, <1>3, Invariance, PTL
        DEF Spec, ImplementsFifo, Buffer!Spec

-----------------------------------------------------------------------------
(* The end of the program.                                                 *)

(* After the stop neither worker enters its loop again, and each step on   *)
(* the way out brings it closer to its end.                                *)
LEMMA WorkersNearEnd ==
  ASSUME IndInv, stop, WriterStep \/ ReaderStep
  PROVE  StepsLeft' < StepsLeft
<1>0. Types /\ IsFiniteSet(heap)
  BY IndInvParts, QueueInvParts DEF Data, ListInv
<1>1. CASE AddNode \/ GetNode
  BY <1>0, <1>1, NodeNearsEnd DEF AddNode, GetNode
<1>2. CASE LeaveLoop("writer") \/ AddLock \/ AddEnter \/ AddFull \/ AddDone
  <2>1. /\ Running /\ UNCHANGED heap
        /\ \E to : /\ pc' = [pc EXCEPT !["writer"] = to]
                   /\ After(to) < After(pc["writer"])
    BY <1>2, AfterLabels
       DEF LeaveLoop, AddLock, Acquire, AddEnter, AddFull, TriesAgain, AddDone,
           WriterSucceeds, Step, queueVars, listVars
  <2> QED BY <1>0, <2>1, CalmWorkerNearsEnd
<1>3. CASE LeaveLoop("reader") \/ GetLock \/ GetEnter \/ GetEmpty \/ GetDone
  <2>1. /\ Running /\ UNCHANGED heap
        /\ \E to : /\ pc' = [pc EXCEPT !["reader"] = to]
                   /\ After(to) < After(pc["reader"])
    BY <1>3, AfterLabels
       DEF LeaveLoop, GetLock, Acquire, GetEnter, GetEmpty, TriesAgain, GetDone,
           ReaderSucceeds, Step, queueVars, listVars
  <2> QED BY <1>0, <2>1, CalmWorkerNearsEnd
<1> QED BY <1>1, <1>2, <1>3 DEF WriterStep, ReaderStep, WriterCalls, ReaderCalls

(* main's progress is an invariant.                                        *)
LEMMA Stages == Spec => []StageInv
<1>1. Init => StageInv
  BY StageInit DEF Init
<1>2. IndInv /\ StageInv /\ [Next]_vars => StageInv'
  <2> SUFFICES ASSUME IndInv, StageInv, [Next]_vars PROVE StageInv'
    OBVIOUS
  <2>1. CASE QueueStep
    BY <2>1, IndInvParts, QueueInvParts, StageStep
  <2>2. CASE UNCHANGED vars
    BY <2>2 DEF vars, programVars, mainVars, StageInv, Running
  <2> QED BY <2>1, <2>2, StepIsQueueStep
<1> QED BY <1>1, <1>2, Invariance, PTL DEF Spec

(* After q->stop = 1 the program makes at most MaxCount + 69 steps up to   *)
(* the end of its joins and then frees its nodes: whatever the scheduler   *)
(* does with the lock, no thread can be sent round again for ever.  With   *)
(* the fairness of the scheduler this is Termination.                      *)
THEOREM StopIsBounded ==
  Spec => /\ [](StepsLeft \in Nat /\ (~Tearing => StepsLeft <= MaxCount + 69))
          /\ [][stop => StepsLeft' < StepsLeft]_vars
<1>1. IndInv => StepsLeft \in Nat /\ (~Tearing => StepsLeft <= MaxCount + 69)
  BY IndInvParts, FewStepsLeft
<1>2. IndInv /\ StageInv /\ [Next]_vars => [stop => StepsLeft' < StepsLeft]_vars
  <2> SUFFICES ASSUME IndInv, StageInv, Next, stop, ~UNCHANGED vars
               PROVE  StepsLeft' < StepsLeft
    OBVIOUS
  <2>0. Types /\ IsFiniteSet(heap)
    BY IndInvParts, QueueInvParts DEF Data, ListInv
  <2>1. CASE MainStep
    BY <2>0, <2>1, MainNearsEnd
  <2>2. CASE MonitorStep
    BY <2>0, <2>2, MonitorNearsEnd
  <2>3. CASE WriterStep \/ ReaderStep
    BY <2>3, WorkersNearEnd
  <2> QED BY <2>1, <2>2, <2>3 DEF Next, Ended
<1> QED BY <1>1, <1>2, Invariance, Stages, PTL DEF Spec

(* No two threads ever wait for each other: in a running program somebody  *)
(* can go on, main, a worker, or the monitor.                              *)
THEOREM SomeoneGoesOn ==
  Spec => [](Running => ~MainBlocked \/ \E t \in Workers : ~WorkerBlocked(t))
<1>1. IndInv /\ StageInv
        => (Running => ~MainBlocked \/ \E t \in Workers : ~WorkerBlocked(t))
  <2> SUFFICES ASSUME IndInv, StageInv, Running, MainBlocked,
                      \A t \in Workers : WorkerBlocked(t)
               PROVE  FALSE
    OBVIOUS
  <2>1. \A t \in Workers : ~Inside(t)
    BY DEF WorkerBlocked, Inside, Outside
  <2>2. /\ lock = "nobody" /\ stop /\ \A t \in Workers : pc[t] # "none"
        /\ pc["reader"] # "done" \/ pc["writer"] # "done"
    BY <2>1, IndInvParts, WhoIsBlocked DEF LabelsInv
  <2> QED BY <2>2 DEF WorkerBlocked
<1> QED BY <1>1, Invariance, Stages, PTL
=============================================================================

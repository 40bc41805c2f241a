--------------------------- MODULE SemQueueProofs ---------------------------
(***************************************************************************)
(* SemQueue for every MaxCount, every number of calls and every set of     *)
(* addresses: no token is lost or made up, so no call is ever refused; the *)
(* queue is safe, and it implements the bounded FIFO buffer.               *)
(*                                                                         *)
(* Every step of a thread is a QueueStep, so GuardedQueueProofs says what  *)
(* becomes of the queue.  Left are the labels, the number of calls and the *)
(* tokens; and that a worker left without its token never gets one.        *)
(*                                                                         *)
(* After the stop every step brings the program closer to its end or to    *)
(* that worker; there is no other way to hang.                             *)
(***************************************************************************)
EXTENDS SemQueue, GuardedQueueProofs

USE DEF Threads, Workers

(* Each thread is at one of its own labels.                                *)
LabelsInv ==
  /\ pc["main"] \in MainLabels
  /\ pc["writer"] \in WriterLabels
  /\ pc["reader"] \in ReaderLabels
  /\ pc["qmonitor"] \in MonitorLabels

(* What is known of the semaphores.                                        *)
SemInv == not_full \in Nat /\ not_empty \in Nat /\ TokenInv /\ NeverRefused

(* IndInv without what its parts say twice; that the semaphores stay       *)
(* within 0 .. MaxCount is a consequence of the tokens.                    *)
LEMMA IndInvParts == IndInv <=> LabelsInv /\ QueueInv /\ AttemptsInv /\ SemInv
<1>1. IndInv => LabelsInv /\ SemInv
  BY QueueDataAssumption DEF IndInv, TypeOK, LabelsInv, SemInv
<1>2. LabelsInv /\ QueueInv /\ SemInv => TypeOK
  <2> SUFFICES ASSUME LabelsInv, QueueInv, SemInv PROVE TypeOK
    OBVIOUS
  <2>1. Types /\ LockInv /\ CountInv
    BY QueueInvParts DEF Data
  <2>2. pc = [t \in Threads |-> pc[t]]
    BY <2>1 DEF Types
  <2>3. \A t \in Threads : pc[t] \in Labels
    BY DEF LabelsInv, Labels
  <2>4. pc \in [Threads -> Labels]
    BY <2>2, <2>3
  <2>5. count \in Int /\ 0 <= count /\ count <= MaxCount
    BY <2>1 DEF Types, ProgramTypeOK, QueueTypeOK, CountInv
  <2>6. not_full \in 0 .. MaxCount /\ not_empty \in 0 .. MaxCount
    BY <2>5, QueueDataAssumption DEF SemInv, TokenInv, Holds
  <2> QED BY <2>1, <2>4, <2>6 DEF TypeOK, LabelsInv, Types, LockInv
<1> QED BY <1>1, <1>2, Zenon DEF IndInv, SemInv

(* What the four parts of IndInv become in a step.                         *)
LEMMA IndInvNext ==
  LabelsInv' /\ QueueInv' /\ AttemptsInv' /\ SemInv' => IndInv'
<1> SUFFICES ASSUME LabelsInv', QueueInv', AttemptsInv', SemInv' PROVE IndInv'
  OBVIOUS
<1>1. Types' /\ LockInv' /\ CountInv'
  BY Zenon DEF QueueInv, Types
<1>2. pc' = [t \in Threads |-> pc'[t]]
  BY <1>1 DEF Types
<1>3. \A t \in Threads : pc'[t] \in Labels
  BY DEF LabelsInv, Labels
<1>4. pc' \in [Threads -> Labels]
  BY <1>2, <1>3
<1>5. count' \in Int /\ 0 <= count' /\ count' <= MaxCount
  BY <1>1 DEF Types, ProgramTypeOK, QueueTypeOK, CountInv
<1>6. not_full' \in 0 .. MaxCount /\ not_empty' \in 0 .. MaxCount
  BY <1>5, QueueDataAssumption DEF SemInv, TokenInv, Holds
<1>7. TypeOK'
  BY <1>1, <1>4, <1>6 DEF TypeOK, LabelsInv, Types, LockInv
<1> QED BY <1>7, Zenon DEF IndInv, SemInv

(* IndInv holds when main is about to call queue_init.                     *)
LEMMA InitInv == Init => IndInv
<1> SUFFICES ASSUME Init PROVE IndInv
  OBVIOUS
<1>1. /\ pc = [t \in Threads |-> IF t = "main" THEN "create_qmonitor" ELSE "none"]
      /\ proc = "running" /\ count = 0 /\ not_full = MaxCount /\ not_empty = 0
  BY DEF Init, GuardedInit, ProgramInit, QueueInit
<1>2. LabelsInv
  BY <1>1 DEF LabelsInv, MainLabels, WriterLabels, ReaderLabels, MonitorLabels
<1>3. SemInv
  BY <1>1, QueueDataAssumption DEF SemInv, TokenInv, NeverRefused, Holds
<1> QED BY <1>2, <1>3, QueueInitInv, AttemptsInit, IndInvParts DEF Init

-----------------------------------------------------------------------------
(* The steps of the threads are QueueSteps.                                *)

(* A call that has its token finds the queue neither full nor empty.       *)
LEMMA TokenSuffices ==
  ASSUME IndInv
  PROVE  /\ pc["writer"] = "enter" => count # MaxCount /\ count <= MaxCount
         /\ pc["reader"] = "enter" => count # 0 /\ count >= 0
<1>1. SemInv /\ Types /\ CountInv
  BY IndInvParts, QueueInvParts DEF Data
<1> QED BY <1>1, QueueDataAssumption
        DEF SemInv, TokenInv, Holds, CountInv, Types, ProgramTypeOK, QueueTypeOK

(* queue_add and the loop of the writer.                                   *)
LEMMA WriterQueueStep == IndInv /\ WriterStep => QueueStep
<1> SUFFICES ASSUME IndInv, WriterStep PROVE QueueStep
  OBVIOUS
<1>0. Types /\ QueueInv /\ SemInv
  BY IndInvParts, QueueInvParts
<1> USE <1>0 DEF Step, Types, ProgramTypeOK, QueueTypeOK, queueVars, statVars,
             readerVars, syncVars
<1>1. CASE (WriterCalls("wait") \/ LeaveLoop("writer")) /\ UNCHANGED syncVars
  BY <1>1, LoopSteps DEF QueueStep
<1>2. CASE AddWait
  <2>1. ControlStep("writer", "lock")
    BY <1>2
       DEF AddWait, ControlStep, LockFollows, Inside, Outside, Busy, Succeeded
  <2> QED BY <2>1 DEF QueueStep
<1>3. CASE AddLock
  <2>1. "enter" \notin Outside /\ "enter" \notin Busy
    BY DEF Outside, Busy, Succeeded
  <2> QED BY <1>3, <2>1, AcquireStep DEF AddLock, QueueStep
<1>4. CASE AddEnter
  <2>1. count # MaxCount /\ UNCHANGED proc
    BY <1>4, TokenSuffices DEF AddEnter, AssertHolds
  <2>2. ControlStep("writer", "link")
    BY <1>4, <2>1
       DEF AddEnter, ControlStep, LockFollows, Inside, Outside, Busy, Succeeded
  <2> QED BY <2>2 DEF QueueStep
<1>5. CASE AddNode
  BY <1>5 DEF AddNode, QueueStep, Succeeded, Outside
<1>6. CASE AddUnlock
  <2>1. pc["writer"] = "unlock"
    BY <1>6 DEF AddUnlock, SemInv, NeverRefused
  <2>2. ControlStep("writer", "post")
    BY <1>6, <2>1
       DEF AddUnlock, Release, ControlStep, LockFollows, Inside, Outside, Busy,
           Succeeded
  <2> QED BY <2>2 DEF QueueStep
<1>7. CASE AddPost
  <2>1. LockFollows("writer", "loop")
    BY <1>7 DEF AddPost, WriterSucceeds, LockFollows, Inside, Outside
  <2> QED BY <1>7, <2>1 DEF AddPost, QueueStep, Succeeded
<1> QED BY <1>1, <1>2, <1>3, <1>4, <1>5, <1>6, <1>7 DEF WriterStep

(* queue_get and the loop of the reader.                                   *)
LEMMA ReaderQueueStep == IndInv /\ ReaderStep => QueueStep
<1> SUFFICES ASSUME IndInv, ReaderStep PROVE QueueStep
  OBVIOUS
<1>0. Types /\ QueueInv /\ SemInv
  BY IndInvParts, QueueInvParts
<1> USE <1>0 DEF Step, Types, ProgramTypeOK, QueueTypeOK, queueVars, statVars,
             readerVars, syncVars
<1>1. CASE (ReaderCalls("wait") \/ LeaveLoop("reader")) /\ UNCHANGED syncVars
  BY <1>1, LoopSteps DEF QueueStep
<1>2. CASE GetWait
  <2>1. ControlStep("reader", "lock")
    BY <1>2
       DEF GetWait, ControlStep, LockFollows, Inside, Outside, Busy, Succeeded
  <2> QED BY <2>1 DEF QueueStep
<1>3. CASE GetLock
  <2>1. "enter" \notin Outside /\ "enter" \notin Busy
    BY DEF Outside, Busy, Succeeded
  <2> QED BY <1>3, <2>1, AcquireStep DEF GetLock, QueueStep
<1>4. CASE GetEnter
  <2>1. count # 0 /\ UNCHANGED proc
    BY <1>4, TokenSuffices DEF GetEnter, AssertHolds
  <2>2. ControlStep("reader", "unlink")
    BY <1>4, <2>1
       DEF GetEnter, ControlStep, LockFollows, Inside, Outside, Busy, Succeeded
  <2> QED BY <2>2 DEF QueueStep
<1>5. CASE GetNode
  BY <1>5 DEF GetNode, QueueStep, Succeeded, Outside
<1>6. CASE GetUnlock
  <2>1. pc["reader"] = "unlock"
    BY <1>6 DEF GetUnlock, SemInv, NeverRefused
  <2>2. ControlStep("reader", "post")
    BY <1>6, <2>1
       DEF GetUnlock, Release, ControlStep, LockFollows, Inside, Outside, Busy,
           Succeeded
  <2> QED BY <2>2 DEF QueueStep
<1>7. CASE GetPost
  <2>1. LockFollows("reader", "loop")
    BY <1>7 DEF GetPost, ReaderSucceeds, LockFollows, Inside, Outside
  <2> QED BY <1>7, <2>1 DEF GetPost, QueueStep, Succeeded
<1> QED BY <1>1, <1>2, <1>3, <1>4, <1>5, <1>6, <1>7 DEF ReaderStep

-----------------------------------------------------------------------------
(* Labels, the number of calls and the tokens.                             *)

(* The writer takes a free place before it links and owes a used one until *)
(* it posts.                                                               *)
LEMMA WriterTokens ==
  ASSUME IndInv, WriterStep
  PROVE  LabelsInv' /\ AttemptsInv' /\ SemInv'
<1>0. LabelsInv /\ Types /\ AttemptsInv /\ SemInv
  BY IndInvParts, QueueInvParts
<1> USE <1>0 DEF Step, Types, ProgramTypeOK, QueueTypeOK, queueVars, statVars,
             syncVars, semVars
<1>1. LabelsInv' /\ AttemptsInv'
  <2> USE DEF LabelsInv, WriterLabels, AttemptsInv, linked
  <2>1. CASE (WriterCalls("wait") \/ LeaveLoop("writer")) /\ UNCHANGED syncVars
    BY <2>1 DEF WriterCalls, LeaveLoop
  <2>2. CASE AddWait \/ AddLock \/ AddUnlock \/ AddPost
    BY <2>2 DEF AddWait, AddLock, Acquire, AddUnlock, AddPost, WriterSucceeds
  <2>3. CASE AddEnter
    BY <2>3, MaxAttemptsAssumption DEF AddEnter
  <2>4. CASE AddNode
    BY <2>4
       DEF AddNode, AddNoMemory, OutOfMemory, AddLink, AddCount, AddStat
  <2> QED BY <2>1, <2>2, <2>3, <2>4 DEF WriterStep
<1>2. SemInv'
  <2> USE QueueDataAssumption DEF SemInv, TokenInv, NeverRefused, Holds
  <2>1. CASE (WriterCalls("wait") \/ LeaveLoop("writer")) /\ UNCHANGED syncVars
    BY <2>1 DEF WriterCalls, LeaveLoop
  <2>2. CASE AddWait
    BY <2>2 DEF AddWait
  <2>3. CASE AddLock
    BY <2>3 DEF AddLock, Acquire
  <2>4. CASE AddEnter
    <3>1. count # MaxCount /\ UNCHANGED proc
      BY <2>4, TokenSuffices DEF AddEnter, AssertHolds
    <3> QED BY <2>4, <3>1 DEF AddEnter
  <2>5. CASE AddNode
    BY <2>5
       DEF AddNode, AddNoMemory, OutOfMemory, AddLink, LinkOutcomes, AddCount, AddStat
  <2>6. CASE AddUnlock
    BY <2>6 DEF AddUnlock
  <2>7. CASE AddPost
    BY <2>7 DEF AddPost, WriterSucceeds
  <2> QED BY <2>1, <2>2, <2>3, <2>4, <2>5, <2>6, <2>7 DEF WriterStep
<1> QED BY <1>1, <1>2

(* The reader takes a used place before it unlinks and owes a free one     *)
(* until it posts.                                                         *)
LEMMA ReaderTokens ==
  ASSUME IndInv, ReaderStep
  PROVE  LabelsInv' /\ AttemptsInv' /\ SemInv'
<1>0. LabelsInv /\ Types /\ AttemptsInv /\ SemInv
  BY IndInvParts, QueueInvParts
<1> USE <1>0 DEF Step, Types, ProgramTypeOK, QueueTypeOK, queueVars, statVars,
             syncVars, semVars
<1>1. /\ \E to \in ReaderLabels : pc' = [pc EXCEPT !["reader"] = to]
      /\ UNCHANGED <<add_attempts, add_count>>
  BY DEF ReaderStep, ReaderCalls, LeaveLoop, GetWait, GetLock, Acquire, GetEnter,
         GetNode, GetUnlink, GetCount, GetStat, GetUnlock, GetPost,
         ReaderSucceeds, ReaderLabels
<1>2. LabelsInv'
  BY <1>1 DEF LabelsInv
<1>3. AttemptsInv'
  BY <1>1, SameAttempts
<1>4. SemInv'
  <2> USE QueueDataAssumption DEF SemInv, TokenInv, NeverRefused, Holds
  <2>1. CASE (ReaderCalls("wait") \/ LeaveLoop("reader")) /\ UNCHANGED syncVars
    BY <2>1 DEF ReaderCalls, LeaveLoop
  <2>2. CASE GetWait
    BY <2>2 DEF GetWait
  <2>3. CASE GetLock
    BY <2>3 DEF GetLock, Acquire
  <2>4. CASE GetEnter
    <3>1. count # 0 /\ UNCHANGED proc
      BY <2>4, TokenSuffices DEF GetEnter, AssertHolds
    <3> QED BY <2>4, <3>1 DEF GetEnter
  <2>5. CASE GetNode
    BY <2>5 DEF GetNode, GetUnlink, GetCount, GetStat
  <2>6. CASE GetUnlock
    BY <2>6 DEF GetUnlock
  <2>7. CASE GetPost
    BY <2>7 DEF GetPost, ReaderSucceeds
  <2> QED BY <2>1, <2>2, <2>3, <2>4, <2>5, <2>6, <2>7 DEF ReaderStep
<1> QED BY <1>2, <1>3, <1>4

(* The monitor and main neither wait nor post.                             *)
LEMMA OtherStep ==
  ASSUME IndInv,
         (MonitorStep /\ UNCHANGED semVars) \/ (MainStep /\ UNCHANGED syncVars)
  PROVE  QueueStep /\ LabelsInv' /\ AttemptsInv' /\ SemInv'
<1>0. LabelsInv /\ Types /\ AttemptsInv /\ QueueInv /\ SemInv
  BY IndInvParts, QueueInvParts
<1>a. QueueStep => proc' # "assert_failed"
  BY <1>0, QueueStepInv, Zenon DEF QueueInv, NoCrash
<1> USE DEF syncVars, semVars, SemInv, TokenInv, NeverRefused, Holds
<1>1. CASE MonitorStep /\ UNCHANGED semVars
  <2>1. /\ QueueStep
        /\ \E to \in MonitorLabels : pc' = [pc EXCEPT !["qmonitor"] = to]
        /\ UNCHANGED <<count, add_attempts, add_count>>
    BY <1>0, <1>1, MonitorQueueStep
  <2>2. LabelsInv' /\ SemInv'
    BY <1>0, <1>a, <1>1, <2>1 DEF LabelsInv, Types
  <2>3. AttemptsInv'
    BY <1>0, <2>1, SameAttempts DEF Types
  <2> QED BY <2>1, <2>2, <2>3
<1>2. CASE MainStep /\ UNCHANGED syncVars
  <2>1. /\ pc'["main"] \in MainLabels
        /\ \A t \in Workers :
             pc'[t] = pc[t] \/ (pc[t] = "none" /\ pc'[t] = "loop")
        /\ UNCHANGED <<count, add_attempts, add_count>>
    BY <1>0, <1>2, MainFrame DEF LabelsInv
  <2>2. QueueStep
    BY <1>2 DEF QueueStep
  <2>3. LabelsInv' /\ SemInv'
    BY <1>0, <1>a, <1>2, <2>1, <2>2
       DEF LabelsInv, WriterLabels, ReaderLabels, MonitorLabels
  <2>4. AttemptsInv'
    BY <1>0, <2>1, SameAttempts
  <2> QED BY <2>2, <2>3, <2>4
<1> QED BY <1>1, <1>2

(* A step of nobody.                                                       *)
LEMMA StutterInv ==
  ASSUME IndInv, UNCHANGED vars
  PROVE  /\ LabelsInv' /\ AttemptsInv' /\ QueueInv' /\ SemInv'
         /\ UNCHANGED Buffer!vars
<1>0. LabelsInv /\ AttemptsInv /\ QueueInv /\ SemInv
  BY IndInvParts
<1>1. QueueInv' /\ AttemptsInv' /\ UNCHANGED Buffer!vars
  BY <1>0, GuardedStutter DEF vars, syncVars
<1>2. LabelsInv' /\ SemInv'
  BY <1>0
     DEF LabelsInv, SemInv, TokenInv, NeverRefused, Holds, vars, queueVars,
         programVars, syncVars, semVars
<1> QED BY <1>1, <1>2

(* Any step: it is a QueueStep, or nothing happens.                        *)
LEMMA StepIsQueueStep ==
  ASSUME IndInv, [Next]_vars
  PROVE  /\ LabelsInv' /\ AttemptsInv' /\ SemInv'
         /\ QueueStep \/ (QueueInv' /\ UNCHANGED Buffer!vars)
BY WriterQueueStep, WriterTokens, ReaderQueueStep, ReaderTokens, OtherStep,
   StutterInv
   DEF Next, Ended

-----------------------------------------------------------------------------
(* The theorems.                                                           *)

(* IndInv holds in every reachable state.                                  *)
THEOREM Invariance == Spec => []IndInv
<1>1. Init => IndInv
  BY InitInv
<1>2. IndInv /\ [Next]_vars => IndInv'
  <2> SUFFICES ASSUME IndInv, [Next]_vars PROVE IndInv'
    OBVIOUS
  <2>1. QueueInv
    BY IndInvParts
  <2> QED BY <2>1, StepIsQueueStep, QueueStepInv, IndInvNext
<1> QED BY <1>1, <1>2, PTL DEF Spec

(* Every token is accounted for whenever the mutex is free.                *)
THEOREM TokensMatchCountHolds == Spec => []TokensMatchCount
<1>1. IndInv => TokensMatchCount
  <2> SUFFICES ASSUME IndInv, lock = "nobody"
               PROVE  /\ count = not_empty + Holds("reader", {"lock"})
                                           + Holds("writer", {"post"})
                      /\ MaxCount - count = not_full + Holds("writer", {"lock"})
                                                     + Holds("reader", {"post"})
    BY DEF TokensMatchCount
  <2>1. SemInv /\ LockInv
    BY IndInvParts, QueueInvParts
  <2>2. \A t \in Workers : pc[t] \in Outside
    BY <2>1 DEF LockInv, Inside
  <2> QED BY <2>1, <2>2 DEF SemInv, TokenInv, Holds, Outside
<1> QED BY <1>1, Invariance, PTL

(* No call takes the paths for a full or an empty queue, so no call loses  *)
(* its token.                                                              *)
THEOREM NeverRefusedHolds == Spec => []NeverRefused
<1>1. IndInv => NeverRefused
  BY DEF IndInv
<1> QED BY <1>1, Invariance, PTL

(* Order, an intact list, no crash and a safe teardown.                    *)
THEOREM QueueSafeHolds == Spec => []QueueSafe
<1>1. IndInv => QueueSafe
  <2> SUFFICES ASSUME IndInv PROVE QueueSafe
    OBVIOUS
  <2>1. /\ MutualExclusion /\ FifoOrder /\ NoCrash /\ StatsConsistent
        /\ ListIntact /\ TeardownSafe
    BY IndInvParts, QueueInvSafe
  <2> QED BY <2>1, Zenon DEF QueueSafe, IndInv
<1> QED BY <1>1, Invariance, PTL

(* SemQueue implements the bounded FIFO buffer; that a call waits for its  *)
(* token is not seen by its caller.                                        *)
THEOREM Refinement == Spec => ImplementsFifo
<1>1. Init => Buffer!Init
  <2> SUFFICES ASSUME Init PROVE Buffer!Init
    OBVIOUS
  <2>1. QueuedInv
    BY QueueInitInv, QueuedIs DEF Init
  <2> QED BY <2>1, FifoInit DEF Init
<1>2. IndInv => QueuedInv
  BY IndInvParts, QueuedIs
<1>3. IndInv /\ IndInv' /\ QueuedInv /\ QueuedInv' /\ [Next]_vars
        => [Buffer!Next]_(Buffer!vars)
  <2> SUFFICES ASSUME IndInv, IndInv', QueuedInv, QueuedInv', [Next]_vars
               PROVE  [Buffer!Next]_(Buffer!vars)
    OBVIOUS
  <2>1. QueueInv /\ AttemptsInv /\ QueueInv'
    BY Zenon DEF IndInv
  <2>2. CASE QueueStep
    BY <2>1, <2>2, QueueStepFifo
  <2> QED BY <2>2, StepIsQueueStep
<1> QED BY <1>1, <1>2, <1>3, Invariance, PTL
        DEF Spec, ImplementsFifo, Buffer!Spec

-----------------------------------------------------------------------------
(* The hang is for ever.                                                   *)

(* No step of any thread brings a stranded worker its token.               *)
LEMMA StrandedStays ==
  IndInv /\ Running /\ Stranded /\ [Next]_vars => Running' /\ Stranded'
<1> SUFFICES ASSUME IndInv, Running, Stranded, [Next]_vars
             PROVE  Running' /\ Stranded'
  OBVIOUS
<1>0. Types /\ MainInv
  BY IndInvParts, QueueInvParts
<1> USE <1>0 DEF Stranded, Running, Step, Types, ProgramTypeOK, QueueTypeOK,
             queueVars, syncVars, semVars, programVars, mainVars
<1>1. CASE MainStep /\ UNCHANGED syncVars
  BY <1>1
     DEF MainInv, MainStep, CreateMonitor, CreateReader, CreateWriter, Create,
         CreateFails, SetStop, JoinReader, JoinWriter, Join, DestroyStop, JoinMonitor,
         FreeNode, FreeNodesDone, FreeQueue
<1>2. CASE WriterStep
  BY <1>2
     DEF WriterStep, WriterCalls, LeaveLoop, AddWait, AddLock, AddEnter, Acquire,
         AddNode, AddNoMemory, OutOfMemory, AddLink, AddCount, AddStat,
         AddUnlock, AddPost, WriterSucceeds
<1>3. CASE ReaderStep
  BY <1>3
     DEF ReaderStep, ReaderCalls, LeaveLoop, GetWait, GetLock, GetEnter, Acquire,
         GetNode, GetUnlink, GetCount, GetStat, GetUnlock, GetPost,
         ReaderSucceeds
<1>4. CASE MonitorStep /\ UNCHANGED semVars
  BY <1>4
     DEF MonitorStep, MonitorCalls, LeaveLoop, StatsLock, Acquire, StatsPrint,
         ShowStats, StatsUnlock, TriesAgain
<1>5. CASE UNCHANGED vars
  BY <1>5 DEF vars
<1> QED BY <1>1, <1>2, <1>3, <1>4, <1>5 DEF Next, Ended

(* A worker that waits for a token when the other one has left its loop    *)
(* waits for ever: main stands in its joins, and the process never ends.   *)
THEOREM StrandedForEver == Spec => [](Running /\ Stranded => [](Running /\ Stranded))
BY StrandedStays, Invariance, PTL DEF Spec

(* What a worker that cannot go on waits for.                              *)
WriterWaits == pc["writer"] = "wait" /\ not_full = 0
ReaderWaits == pc["reader"] = "wait" /\ not_empty = 0

(* The two workers never wait at the same time, each for a token of the    *)
(* other.                                                                  *)
THEOREM NeverBothWait == Spec => []~(WriterWaits /\ ReaderWaits)
<1>1. IndInv => ~(WriterWaits /\ ReaderWaits)
  <2> SUFFICES ASSUME IndInv, WriterWaits, ReaderWaits PROVE FALSE
    OBVIOUS
  <2>1. count = 0 /\ MaxCount - count = 0
    BY DEF IndInv, TokenInv, Holds, WriterWaits, ReaderWaits
  <2> QED BY <2>1, QueueDataAssumption
<1> QED BY <1>1, Invariance, PTL

-----------------------------------------------------------------------------
(* The end of the program.                                                 *)

(* After the stop neither worker enters its loop again, and each step on   *)
(* the way out brings it closer to its end.                                *)
LEMMA WorkersNearEnd ==
  ASSUME IndInv, stop, WriterStep \/ ReaderStep
  PROVE  StepsLeft' < StepsLeft
<1>0. Types /\ IsFiniteSet(heap)
  BY IndInvParts, QueueInvParts DEF Data, ListInv
<1>1. CASE AddNode \/ GetNode
  BY <1>0, <1>1, NodeNearsEnd DEF AddNode, GetNode
<1>2. CASE LeaveLoop("writer") \/ AddWait \/ AddLock \/ AddEnter \/ AddUnlock \/ AddPost
  <2>1. /\ Running /\ UNCHANGED heap
        /\ \E to : /\ pc' = [pc EXCEPT !["writer"] = to]
                   /\ After(to) < After(pc["writer"])
    BY <1>2, AfterLabels
       DEF LeaveLoop, AddWait, AddLock, Acquire, AddEnter, AddUnlock, AddPost,
           WriterSucceeds, Step, queueVars, listVars
  <2> QED BY <1>0, <2>1, CalmWorkerNearsEnd
<1>3. CASE LeaveLoop("reader") \/ GetWait \/ GetLock \/ GetEnter \/ GetUnlock \/ GetPost
  <2>1. /\ Running /\ UNCHANGED heap
        /\ \E to : /\ pc' = [pc EXCEPT !["reader"] = to]
                   /\ After(to) < After(pc["reader"])
    BY <1>3, AfterLabels
       DEF LeaveLoop, GetWait, GetLock, Acquire, GetEnter, GetUnlock, GetPost,
           ReaderSucceeds, Step, queueVars, listVars
  <2> QED BY <1>0, <2>1, CalmWorkerNearsEnd
<1> QED BY <1>1, <1>2, <1>3 DEF WriterStep, ReaderStep, WriterCalls, ReaderCalls

(* main's progress is an invariant.                                        *)
LEMMA Stages == Spec => []StageInv
<1>1. Init => StageInv
  BY StageInit DEF Init
<1>2. IndInv /\ StageInv /\ [Next]_vars => StageInv'
  <2> SUFFICES ASSUME IndInv, StageInv, [Next]_vars PROVE StageInv'
    OBVIOUS
  <2>1. CASE Ended \/ UNCHANGED vars
    BY <2>1 DEF Ended, vars, programVars, mainVars, StageInv, Running
  <2>2. CASE ~Ended /\ ~UNCHANGED vars
    <3>1. QueueStep
      BY <2>2, WriterQueueStep, ReaderQueueStep, OtherStep DEF Next
    <3> QED BY <3>1, IndInvParts, QueueInvParts, StageStep
  <2> QED BY <2>1, <2>2
<1> QED BY <1>1, <1>2, Invariance, PTL DEF Spec

(* After q->stop = 1 the program makes a bounded number of steps: at most  *)
(* MaxCount + 69 until it is past its joins, and one per node after that.  *)
(* So it ends or stands still, as StopSettles says.                        *)
THEOREM StopIsBounded ==
  Spec => /\ [](StepsLeft \in Nat /\ (~Tearing => StepsLeft <= MaxCount + 69))
          /\ [][stop => StepsLeft' < StepsLeft]_vars
<1>1. IndInv => StepsLeft \in Nat /\ (~Tearing => StepsLeft <= MaxCount + 69)
  BY IndInvParts, FewStepsLeft
<1>2. IndInv /\ StageInv /\ [Next]_vars => [stop => StepsLeft' < StepsLeft]_vars
  <2> SUFFICES ASSUME IndInv, StageInv, Next, stop, ~UNCHANGED vars
               PROVE  StepsLeft' < StepsLeft
    OBVIOUS
  <2>0. Types /\ IsFiniteSet(heap)
    BY IndInvParts, QueueInvParts DEF Data, ListInv
  <2>1. CASE MainStep
    BY <2>0, <2>1, MainNearsEnd
  <2>2. CASE MonitorStep
    BY <2>0, <2>2, MonitorNearsEnd
  <2>3. CASE WriterStep \/ ReaderStep
    BY <2>3, WorkersNearEnd
  <2> QED BY <2>1, <2>2, <2>3 DEF Next, Ended
<1> QED BY <1>1, <1>2, Invariance, Stages, PTL DEF Spec

(* A worker may also wait for a token.                                     *)
Blocked(t) ==
  WorkerBlocked(t) \/ (t = "writer" /\ WriterWaits) \/ (t = "reader" /\ ReaderWaits)

(* When nobody can go on in a running program, one worker has left its     *)
(* loop and the other waits for a token: there is no other way to hang.    *)
THEOREM OnlyStranding ==
  Spec => [](Running /\ MainBlocked /\ (\A t \in Workers : Blocked(t)) => Stranded)
<1>1. IndInv /\ StageInv /\ ~(WriterWaits /\ ReaderWaits)
        => (Running /\ MainBlocked /\ (\A t \in Workers : Blocked(t)) => Stranded)
  <2> SUFFICES ASSUME IndInv, StageInv, ~(WriterWaits /\ ReaderWaits), Running,
                      MainBlocked, \A t \in Workers : Blocked(t)
               PROVE  Stranded
    OBVIOUS
  <2>1. \A t \in Workers : ~Inside(t)
    BY DEF Blocked, WorkerBlocked, WriterWaits, ReaderWaits, Inside, Outside
  <2>2. /\ lock = "nobody" /\ stop /\ \A t \in Workers : pc[t] # "none"
        /\ \/ pc["main"] = "join_reader" /\ pc["reader"] # "done"
           \/ /\ pc["main"] = "join_writer" /\ pc["writer"] # "done"
              /\ pc["reader"] = "done"
    BY <2>1, IndInvParts, WhoIsBlocked DEF LabelsInv, Blocked
  <2>3. /\ pc["writer"] = "done" \/ WriterWaits
        /\ pc["reader"] = "done" \/ ReaderWaits
    BY <2>2 DEF Blocked, WorkerBlocked
  <2> QED BY <2>2, <2>3 DEF Stranded, WriterWaits, ReaderWaits
<1> QED BY <1>1, Invariance, Stages, NeverBothWait, PTL
=============================================================================

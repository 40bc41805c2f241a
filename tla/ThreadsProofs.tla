--------------------------- MODULE ThreadsProofs ---------------------------
(***************************************************************************)
(* The thread programs of WorkWithTreads: MyThread for any number of       *)
(* threads, SignalThreads however often the signals are sent, and          *)
(* ThreadPrograms for any number of threads in the loops.                  *)
(***************************************************************************)
EXTENDS MyThread, SignalThreads, ThreadPrograms, TLAPS

-----------------------------------------------------------------------------
(* MyThread: memory.  LiveMemory is not inductive: main must be known to   *)
(* release only what no thread has yet, or what belongs to a thread that   *)
(* has set its flag.                                                       *)

(* What main has prepared where it stands in the creation or the join.     *)
MainInv ==
  /\ pc \in {"mmap", "malloc", "clone"} => \A t \in k .. N : at[t] = "none"
  /\ pc \in {"malloc", "clone"} => stack[k] = "mapped"
  /\ pc = "clone" => shared[k] = "allocated"
  /\ pc \in {"munmap", "print"} => exited[k] = 1

(* The flag against the place of the thread.                               *)
ThreadInv ==
  \A t \in Threads :
    /\ at[t] \in {"none", "start", "run"} => exited[t] = 0 /\ sum[t] = "none"
    /\ at[t] \in {"store", "flag"} => exited[t] = 0
    /\ at[t] = "epilogue" => exited[t] = 1
    /\ at[t] # "none" => stack[t] # "none"

MemInv == LiveMemory /\ MainInv /\ ThreadInv

USE MyThreadAssumption
    DEF Threads, Goto, MemInv, MainInv, ThreadInv, memory, outcome

(* At first there is neither memory nor thread.                            *)
LEMMA MemInit == Init => MemInv
BY DEF Init, All, LiveMemory, TypeOK, Null

(* mythread_create hands the thread what it has just prepared.             *)
LEMMA CreatesMem == MemInv /\ Creates => MemInv'
<1> SUFFICES ASSUME MemInv, Creates PROVE MemInv'
  OBVIOUS
<1> USE DEF LiveMemory, TypeOK
<1>1. CASE MapStack
  BY <1>1 DEF MapStack
<1>2. CASE MapFails
  BY <1>2 DEF MapFails, Fails
<1>3. CASE Share
  BY <1>3 DEF Share
<1>4. CASE ShareFails
  BY <1>4 DEF ShareFails, Fails
<1>5. CASE Clone
  BY <1>5 DEF Clone
<1>6. CASE CloneFails
  BY <1>6 DEF CloneFails, Fails
<1> QED BY <1>1, <1>2, <1>3, <1>4, <1>5, <1>6 DEF Creates

(* mythread_join releases only what belongs to a thread that set its flag. *)
LEMMA JoinsMem == MemInv /\ (Joins \/ Exit) => MemInv'
<1> SUFFICES ASSUME MemInv, Joins \/ Exit PROVE MemInv'
  OBVIOUS
<1> USE DEF LiveMemory, TypeOK
<1>1. CASE JoinTake
  BY <1>1 DEF JoinTake
<1>2. CASE JoinUnmap
  BY <1>2 DEF JoinUnmap
<1>3. CASE JoinUnmapFails
  BY <1>3 DEF JoinUnmapFails, Fails
<1>4. CASE PrintSum
  BY <1>4 DEF PrintSum
<1>5. CASE Exit
  BY <1>5 DEF Exit
<1> QED BY <1>1, <1>2, <1>3, <1>4, <1>5 DEF Joins

(* The flag is the last thing a thread writes.                             *)
LEMMA ThreadMem == ASSUME NEW t \in Threads, MemInv, Thread(t) PROVE MemInv'
<1> USE DEF LiveMemory, TypeOK, Runs
<1>1. CASE Startup(t)
  BY <1>1 DEF Startup
<1>2. CASE Compute(t)
  BY <1>2 DEF Compute
<1>3. CASE ComputeNoMemory(t)
  BY <1>3 DEF ComputeNoMemory
<1>4. CASE StoreRet(t)
  BY <1>4 DEF StoreRet
<1>5. CASE SetExited(t)
  BY <1>5 DEF SetExited
<1>6. CASE Epilogue(t)
  BY <1>6 DEF Epilogue
<1>7. CASE EpilogueFaults(t)
  BY <1>7 DEF EpilogueFaults
<1> QED BY <1>1, <1>2, <1>3, <1>4, <1>5, <1>6, <1>7 DEF Thread

(* Every step keeps MemInv.                                                *)
LEMMA MemStep == MemInv /\ [Next]_vars => MemInv'
<1>1. CASE UNCHANGED vars
  BY <1>1 DEF vars, LiveMemory, TypeOK
<1> QED BY <1>1, CreatesMem, JoinsMem, ThreadMem DEF Next, Main

(* Until it sets its flag a thread has its stack and its record, and the   *)
(* process crashes only for want of memory or in a thread joined early.    *)
THEOREM LiveMemoryHolds == Spec => []LiveMemory
<1>1. MemInv => LiveMemory
  BY DEF MemInv
<1> QED BY <1>1, MemStep, MemInit, PTL DEF Spec

-----------------------------------------------------------------------------
(* MyThread: results.                                                      *)

(* The routine's cell, its value and shared->ret against the flag.         *)
ResultInv ==
  /\ value \in [Threads -> Int] /\ printed \in [Threads -> Int]
  /\ \A t \in Threads :
       /\ value[t] \in {Null, Sum(t), Garbage}
       /\ at[t] \in {"store", "flag"} \/ exited[t] = 1 =>
            sum[t] # "none" /\ value[t] # Null
       /\ at[t] = "flag" \/ exited[t] = 1 => ret[t] = t

(* What main leaves of a thread behind it.                                 *)
Joined(t) ==
  /\ exited[t] = 1 /\ printed[t] = Sum(t)
  /\ stack[t] = "unmapped" /\ shared[t] = "freed" /\ sum[t] = "freed"

(* What main has done with the threads before the k-th and not yet with    *)
(* those after it.                                                         *)
ProgressInv ==
  /\ status = -1 => pc \in {"returned", "ended", "crashed"}
  /\ pc \in {"mmap", "malloc", "clone"} =>
       /\ \A t \in Threads :
            /\ t < k => at[t] # "none"
            /\ t > k => stack[t] = "none" /\ shared[t] = "none"
            /\ sum[t] # "freed"
       /\ pc = "mmap" => stack[k] = "none"
       /\ pc \in {"mmap", "malloc"} => shared[k] = "none"
  /\ pc \in {"join", "munmap", "print"} =>
       /\ \A t \in Threads :
            /\ at[t] # "none"
            /\ t < k => Joined(t)
            /\ t >= k => sum[t] # "freed"
       /\ pc \in {"munmap", "print"} => shared[k] = "freed"
       /\ pc = "print" => stack[k] = "unmapped"
  /\ pc \in {"returned", "ended"} /\ status = 0 => \A t \in Threads : Joined(t)

JoinInv == JoinedAndReleased /\ ResultInv /\ ProgressInv

USE DEF JoinedAndReleased, ResultInv, ProgressInv, Joined, LiveMemory, TypeOK,
        Null, Garbage, Sum

(* Nothing is computed or printed at first.                                *)
LEMMA JoinInit == Init => JoinInv
BY DEF Init, All, JoinInv

(* A creation that fails leaves nothing of its thread behind.              *)
LEMMA CreatesJoin == MemInv /\ JoinInv /\ Creates => JoinInv'
<1> SUFFICES ASSUME MemInv, JoinInv, Creates PROVE JoinInv'
  OBVIOUS
<1> USE DEF JoinInv
<1>1. CASE MapStack
  BY <1>1 DEF MapStack
<1>2. CASE MapFails
  BY <1>2 DEF MapFails, Fails
<1>3. CASE Share
  BY <1>3 DEF Share
<1>4. CASE ShareFails
  BY <1>4 DEF ShareFails, Fails
<1>5. CASE Clone
  BY <1>5, SMTT(30) DEF Clone
<1>6. CASE CloneFails
  BY <1>6 DEF CloneFails, Fails
<1> QED BY <1>1, <1>2, <1>3, <1>4, <1>5, <1>6 DEF Creates

(* main prints a cell that is there, and leaves every thread joined.       *)
LEMMA JoinsJoin == MemInv /\ JoinInv /\ (Joins \/ Exit) => JoinInv'
<1> SUFFICES ASSUME MemInv, JoinInv, Joins \/ Exit PROVE JoinInv'
  OBVIOUS
<1> USE DEF JoinInv
<1>1. CASE JoinTake
  BY <1>1 DEF JoinTake
<1>2. CASE JoinUnmap
  BY <1>2 DEF JoinUnmap
<1>3. CASE JoinUnmapFails
  BY <1>3 DEF JoinUnmapFails, Fails
<1>4. CASE PrintSum
  BY <1>4, SMTT(30) DEF PrintSum
<1>5. CASE Exit
  BY <1>5 DEF Exit
<1> QED BY <1>1, <1>2, <1>3, <1>4, <1>5 DEF Joins

(* A joined thread computes no more.                                       *)
LEMMA ThreadJoin ==
  ASSUME NEW t \in Threads, MemInv, JoinInv, Thread(t) PROVE JoinInv'
<1> USE DEF JoinInv, Runs
<1>1. CASE Startup(t)
  BY <1>1 DEF Startup
<1>2. CASE Compute(t)
  BY <1>2, SMTT(30) DEF Compute
<1>3. CASE ComputeNoMemory(t)
  BY <1>3 DEF ComputeNoMemory
<1>4. CASE StoreRet(t)
  BY <1>4 DEF StoreRet
<1>5. CASE SetExited(t)
  BY <1>5 DEF SetExited
<1>6. CASE Epilogue(t)
  BY <1>6 DEF Epilogue
<1>7. CASE EpilogueFaults(t)
  BY <1>7 DEF EpilogueFaults
<1> QED BY <1>1, <1>2, <1>3, <1>4, <1>5, <1>6, <1>7 DEF Thread

(* Every step keeps JoinInv.                                               *)
LEMMA JoinStep == MemInv /\ JoinInv /\ [Next]_vars => JoinInv'
<1>1. CASE UNCHANGED vars
  BY <1>1 DEF vars, JoinInv
<1> QED BY <1>1, CreatesJoin, JoinsJoin, ThreadJoin DEF Next, Main

(* Every join yields the sum of its thread, and what was allocated for a   *)
(* thread is released, also when a creation fails half way.                *)
THEOREM JoinedAndReleasedHolds == Spec => []JoinedAndReleased
<1>1. JoinInv => JoinedAndReleased
  BY DEF JoinInv
<1> QED BY <1>1, JoinStep, MemStep, MemInit, JoinInit, PTL DEF Spec

(* A thread that is no longer there has set its flag, unless it took the   *)
(* process with it.                                                        *)
FlagLeft ==
  \A t \in Threads :
    at[t] \in {"gone", "killed"} => exited[t] = 1 \/ pc = "crashed"

(* mythread_join never polls for a thread that cannot set its flag any     *)
(* more: the thread main waits for is on its way to the flag, or has set   *)
(* it.  With the fairness of the scheduler this is Terminates.             *)
THEOREM PollIsAnswered ==
  Spec => [](pc = "join" => \/ exited[k] = 1
                            \/ at[k] \in {"start", "run", "store", "flag"})
<1> DEFINE Answered == pc = "join" => \/ exited[k] = 1
                                      \/ at[k] \in {"start", "run", "store", "flag"}
<1>1. Init => FlagLeft
  BY DEF Init, All, FlagLeft
<1>2. MemInv /\ FlagLeft /\ [Next]_vars => FlagLeft'
  <2> SUFFICES ASSUME MemInv, FlagLeft, [Next]_vars PROVE FlagLeft'
    OBVIOUS
  <2> USE DEF FlagLeft
  <2>1. CASE Main \/ UNCHANGED vars
    BY <2>1 DEF Main, Creates, MapStack, MapFails, Share, ShareFails, Clone,
                CloneFails, Joins, JoinTake, JoinUnmap, JoinUnmapFails, PrintSum,
                Exit, Fails, vars
  <2>2. CASE \E t \in Threads : Thread(t)
    BY <2>2 DEF Thread, Runs, Startup, Compute, ComputeNoMemory, StoreRet,
                SetExited, Epilogue, EpilogueFaults
  <2> QED BY <2>1, <2>2 DEF Next
<1>3. MemInv /\ JoinInv /\ FlagLeft => Answered
  BY DEF JoinInv, FlagLeft
<1> QED BY <1>1, <1>2, <1>3, JoinStep, MemInit, MemStep, JoinInit, PTL DEF Spec

-----------------------------------------------------------------------------
(* SignalThreads.  SafeDelivery is not inductive: it does not say which    *)
(* thread blocks what.  MaskInv adds that every created thread blocks both *)
(* signals, but for SIGINT in t2, once its handler is there.               *)

MaskInv ==
  /\ SafeDelivery
  /\ place = "mask" => /\ mask["main"] = {} /\ ~handler
                       /\ \A t \in Created : stands[t] = "none"
  /\ place \notin {"mask", "killed"} =>
       \/ mask["main"] = Signals
       \/ place = "exited" /\ mask["main"] = {}
  /\ \A t \in Live \ {"main", "t2"} : mask[t] = Signals
  /\ "t2" \in Live =>
       /\ stands["t2"] \in {"sigaction", "unblock", "pause"}
       /\ "QUIT" \in mask["t2"]
       /\ stands["t2"] \in {"sigaction", "unblock"} => "INT" \in mask["t2"]
       /\ stands["t2"] # "sigaction" => handler

USE SignalAssumption
    DEF Signals, Created, AllThreads, Live, SafeDelivery, Ended,
        Moves, signals

(* Nothing is blocked and nothing pending at first.                        *)
LEMMA MaskInit == SignalInit => MaskInv
<1> SUFFICES ASSUME SignalInit PROVE MaskInv
  OBVIOUS
<1>1. SignalTypeOK
  <2>1. [s \in Signals |-> 0] \in [Signals -> 0 .. MaxSent]
    OBVIOUS
  <2>2. {} \subseteq Signals /\ {} \subseteq AllThreads
    OBVIOUS
  <2> QED BY <2>1, <2>2 DEF SignalInit, SignalTypeOK
<1> QED BY <1>1 DEF SignalInit, MaskInv

(* main creates threads only with both signals blocked.                    *)
LEMMA MainMask == MaskInv /\ MainStep => MaskInv'
<1> SUFFICES ASSUME MaskInv, MainStep PROVE MaskInv'
  OBVIOUS
<1> USE DEF MaskInv
<1>1. SignalTypeOK'
  <2>1. CASE Block
    BY <2>1 DEF Block, SignalTypeOK
  <2>2. CASE SetupFails
    BY <2>2 DEF SetupFails, SignalTypeOK
  <2>3. CASE CreateAll
    <3>1. PICK t \in Created, first \in {"pause", "sigaction", "sigwait"} :
            Create(t, first)
      BY <2>3 DEF CreateAll
    <3>2. mask' \in [AllThreads -> SUBSET Signals]
      BY <3>1 DEF Create, SignalTypeOK
    <3>3. stands' \in [Created -> {"none", "pause", "sigaction", "unblock",
                              "sigwait", "gone"}]
      BY <3>1 DEF Create, SignalTypeOK
    <3> QED BY <2>3, <3>1, <3>2, <3>3 DEF CreateAll, Create, SignalTypeOK
  <2>4. CASE Join
    BY <2>4 DEF Join, SignalTypeOK
  <2> QED BY <2>1, <2>2, <2>3, <2>4 DEF MainStep
<1>2. CASE Block
  BY <1>1, <1>2 DEF Block, SignalTypeOK
<1>3. CASE SetupFails
  BY <1>1, <1>3 DEF SetupFails, SignalTypeOK
<1>4. CASE CreateAll
  <2>1. place \in {"t1", "t2", "t3"} /\ mask["main"] = Signals
    BY <1>4 DEF CreateAll
  <2>2. CASE Moves("t1", "t2") /\ Create("t1", "pause")
    BY <1>1, <2>1, <2>2 DEF Create, SignalTypeOK
  <2>3. CASE Moves("t2", "t3") /\ Create("t2", "sigaction")
    BY <1>1, <2>1, <2>3 DEF Create, SignalTypeOK
  <2>4. CASE Moves("t3", "join") /\ Create("t3", "sigwait")
    BY <1>1, <2>1, <2>4 DEF Create, SignalTypeOK
  <2> QED BY <1>4, <2>2, <2>3, <2>4 DEF CreateAll
<1>5. CASE Join
  BY <1>1, <1>5 DEF Join, SignalTypeOK
<1> QED BY <1>2, <1>3, <1>4, <1>5 DEF MainStep

(* t2 unblocks SIGINT after it has installed the handler.                  *)
LEMMA T2Mask == MaskInv /\ T2 => MaskInv'
<1> SUFFICES ASSUME MaskInv, T2 PROVE MaskInv'
  OBVIOUS
<1> USE DEF MaskInv, Step
<1>1. CASE Install
  BY <1>1 DEF Install, SignalTypeOK
<1>2. CASE Unblock
  BY <1>2 DEF Unblock, SignalTypeOK
<1>3. CASE GiveUp
  BY <1>3 DEF GiveUp, SignalTypeOK
<1> QED BY <1>1, <1>2, <1>3 DEF T2

(* The kernel finds no thread that would let a signal kill the process.    *)
LEMMA KernelMask ==
  ASSUME MaskInv, Sigwait \/ Delivery \/ \E s \in Signals : Send(s)
  PROVE  MaskInv'
<1> USE DEF MaskInv
<1>1. CASE Sigwait
  BY <1>1 DEF Sigwait, Step, SignalTypeOK
<1>2. CASE \E s \in Signals : Send(s)
  BY <1>2 DEF Send, SignalTypeOK
<1>3. CASE \E t \in Live : Catch(t)
  <2>1. PICK t \in Live : Catch(t)
    BY <1>3
  <2>2. t = "t2"
    BY <2>1 DEF Catch
  <2> QED BY <2>1, <2>2 DEF Catch, SignalTypeOK
<1>4. CASE \E t \in Live, s \in Signals : Kill(t, s)
  <2>1. PICK t \in Live, s \in Signals : Kill(t, s)
    BY <1>4
  <2>2. mask["main"] = {}
    BY <2>1 DEF Kill, SignalTypeOK
  <2> QED BY <2>1, <2>2 DEF Kill, SignalTypeOK
<1> QED BY <1>1, <1>2, <1>3, <1>4 DEF Delivery

(* MaskInv holds from the start and is kept by every step.                 *)
LEMMA MaskHolds == SignalSpec => []MaskInv
<1>1. MaskInv /\ [SignalNext]_signalVars => MaskInv'
  <2>1. CASE UNCHANGED signalVars
    BY <2>1 DEF signalVars, MaskInv, SignalTypeOK
  <2> QED BY <2>1, MainMask, T2Mask, KernelMask DEF SignalNext
<1> QED BY <1>1, MaskInit, PTL DEF SignalSpec

(* However the signals fall into the start of the threads, and however     *)
(* often they are sent, none kills the process once main has blocked them, *)
(* and the handler runs in t2 only: SafeDelivery of SignalThreads.         *)
THEOREM SafeDeliveryHolds == SignalSpec => []SafeDelivery
<1>1. MaskInv => SafeDelivery
  BY DEF MaskInv
<1> QED BY <1>1, MaskHolds, PTL

(* A step that takes a signal off the pending ones is the one the program  *)
(* means to have it: t2 catches SIGINT and stands in its pause by then,    *)
(* t3 leaves its sigwait with SIGQUIT.                                     *)
TakenAsMeant ==
  /\ "INT" \in pending \ pending' =>
       stands["t2"] = "pause" /\ handler /\ caughtBy' = caughtBy \cup {"t2"}
  /\ "QUIT" \in pending \ pending' =>
       stands["t3"] = "sigwait" /\ stands'["t3"] = "gone"

(* A signal that arrives too early waits: nothing takes it before the      *)
(* thread it is meant for is ready.  This is the safety half of            *)
(* NoSignalLost.                                                           *)
THEOREM SignalsWait == SignalSpec => [][TakenAsMeant]_signalVars
<1>1. MaskInv /\ [SignalNext]_signalVars => [TakenAsMeant]_signalVars
  <2> SUFFICES ASSUME MaskInv, SignalNext PROVE TakenAsMeant
    OBVIOUS
  <2> USE DEF MaskInv, TakenAsMeant, SignalTypeOK
  <2>1. CASE MainStep
    BY <2>1 DEF MainStep, Block, SetupFails, CreateAll, Create, Join
  <2>2. CASE T2 \/ \E s \in Signals : Send(s)
    BY <2>2 DEF T2, Install, Unblock, GiveUp, Send
  <2>3. CASE Sigwait
    BY <2>3 DEF Sigwait, Step
  <2>4. CASE \E t \in Live, s \in Signals : Kill(t, s)
    BY <2>4 DEF Kill
  <2>5. CASE \E t \in Live : Catch(t)
    <3>1. PICK t \in Live : Catch(t)
      BY <2>5
    <3>2. t = "t2"
      BY <3>1 DEF Catch
    <3>3. stands["t2"] = "pause" /\ handler
      BY <3>1, <3>2 DEF Catch
    <3> QED BY <3>1, <3>2, <3>3 DEF Catch
  <2> QED BY <2>1, <2>2, <2>3, <2>4, <2>5 DEF SignalNext, Delivery
<1> QED BY <1>1, MaskHolds, PTL DEF SignalSpec

-----------------------------------------------------------------------------
(***************************************************************************)
(* ThreadPrograms.  LifetimesHold is not inductive: what main may still do *)
(* depends on the program, and who owns the block on where main and the    *)
(* first thread are.                                                       *)
(***************************************************************************)

(* What the programs have in common: only main that joins has joinable     *)
(* threads and only a single thread is given memory.                       *)
LEMMA ProgramKinds ==
  ASSUME NEW p \in Programs
  PROVE  /\ p.threads \in 1 .. MaxThreads
         /\ p.main \in {"join", "cancel", "exit", "endless"}
         /\ p.failure \in {"joinEarlier", "joinUnset", "return", "free"}
         /\ p.main \in {"join", "cancel"} => p.detach = "no"
         /\ p.failure = "joinEarlier" => p.main = "join"
         /\ p.failure = "joinUnset" => p = P_1_2_c /\ p.threads = 1 /\ p.main = "join"
         /\ p.failure = "return" /\ p.main # "endless" => p.threads = 1
         /\ p.failure = "free" => p.arg = "heap"
         /\ p.arg = "heap" => /\ p.failure = "free" /\ p.threads = 1
                              /\ p.main = "exit" /\ p.body = "returns"
         /\ p.arg \in {"none", "heap", "frame"}
         /\ p.arg = "frame" => p.threads = 1 /\ p.main = "join" /\ p.body = "returns"
         /\ p.body \in {"returns", "loops", "cleanup"}
         /\ p.body # "returns" => /\ p.threads = 1 /\ p.arg = "none"
                                  /\ p.main = "cancel"
         /\ p.attr # "none" => p = P_1_2_f \/ (p.threads = 1 /\ p.main = "exit")
         /\ p.detach = "self" => p.main = "endless"
<1> USE ThreadProgramsAssumption DEF Simple
<1>1. CASE p = P_1_1
  BY <1>1 DEF P_1_1
<1>2. CASE p = P_1_2_b
  BY <1>2 DEF P_1_2_b
<1>3. CASE p = P_1_2_c
  BY <1>3 DEF P_1_2_c
<1>4. CASE p = P_1_2_d
  BY <1>4 DEF P_1_2_d
<1>5. CASE p = P_1_2_f
  BY <1>5 DEF P_1_2_f
<1>6. CASE p = P_1_3_a
  BY <1>6 DEF P_1_3_a
<1>7. CASE p = P_1_3_b
  BY <1>7 DEF P_1_3_b
<1>8. CASE p = P_1_4_a
  BY <1>8 DEF P_1_4_a
<1>9. CASE p = P_1_4_c
  BY <1>9 DEF P_1_4_c, P_1_4_a
<1> QED BY <1>1, <1>2, <1>3, <1>4, <1>5, <1>6, <1>7, <1>8, <1>9
        DEF Programs, P_1_4_b

(* How far main and the threads have got.                                  *)
PlacesInv ==
  /\ created <= program.threads
  /\ \A t \in ThreadIds : phase[t] = "none" <=> t > created
  /\ i <= created + 1
  /\ joined = 1 .. i - 1
  /\ \A t \in joined : phase[t] = "done"
  /\ program.detach = "no" => detached = {}
  /\ joined # {} => program.detach = "no"
  /\ line \in {"malloc", "create", "joinUnset", "cancel"} => i = 1
  /\ line = "malloc" => program.arg = "heap" /\ created = 0 /\ attr # "destroyed"
  /\ line = "create" => created < program.threads \/ program.main = "endless"
  /\ line = "joinUnset" => program = P_1_2_c /\ created = 0
  /\ line \in {"cancel", "join"} => program.main \in {"join", "cancel"}
  /\ line \in {"exit", "left"} => program.main = "exit"
  /\ line = "returned" /\ program.main = "exit" => created = 0

(* Which thread has the block, or whether main still has it.               *)
OwnerInv ==
  /\ \A t \in ThreadIds :
       /\ phase[t] = "read" => program.arg # "none"
       /\ phase[t] \in {"malloc", "push"} => program.body = "cleanup"
       /\ phase[t] = "loop" =>
            program.body # "returns" /\ (guarded <=> program.body = "cleanup")
  /\ program.body = "cleanup" /\ phase[1] \in {"none", "start", "malloc"} =>
       block = "none"
  /\ program.body # "cleanup" => ~guarded
  /\ line = "malloc" => block = "none"
  /\ block = "live" <=>
       \/ program.arg = "heap" /\ (line = "create" \/ phase[1] \in {"start", "read"})
       \/ program.body = "cleanup" /\ phase[1] \in {"push", "loop"}

(* The inductive invariant of ThreadPrograms.                              *)
LifetimesInv == LifetimesHold /\ PlacesInv /\ OwnerInv

(* Nothing is created, allocated or cancelled at first.                    *)
LEMMA LifetimesInit == ProgramInit => LifetimesInv
<1> SUFFICES ASSUME ProgramInit PROVE LifetimesInv
  OBVIOUS
<1> USE ThreadProgramsAssumption, ProgramKinds DEF ProgramInit, ThreadIds
<1>1. ProgramTypeOK
  <2>1. line \in {"malloc", "create"} /\ attr \in {"none", "ready"}
    OBVIOUS
  <2>2. i \in 1 .. MaxThreads + 1 /\ created \in 0 .. MaxThreads /\ frees \in Nat
    OBVIOUS
  <2>3. phase \in [ThreadIds -> {"none"}]
    OBVIOUS
  <2> QED BY <2>1, <2>2, <2>3 DEF ProgramTypeOK
<1>2. MemoryOwned
  BY DEF MemoryOwned
<1>3. ThreadsReleased
  BY DEF ThreadsReleased
<1>4. PlacesInv
  BY DEF PlacesInv
<1>5. OwnerInv
  BY DEF OwnerInv
<1> QED BY <1>1, <1>2, <1>3, <1>4, <1>5 DEF LifetimesInv, LifetimesHold

(* What main does next leaves every block with one owner.                  *)
LEMMA MainKeepsLifetimes == LifetimesInv /\ MainProgram => LifetimesInv'
<1> SUFFICES ASSUME LifetimesInv, MainProgram PROVE LifetimesInv'
  OBVIOUS
<1> USE ThreadProgramsAssumption, ProgramKinds
    DEF LifetimesInv, LifetimesHold, ProgramTypeOK, MemoryOwned, ThreadsReleased,
        PlacesInv, OwnerInv, ThreadIds, Jump, Allocate, Free, heap, threadVars
<1>1. CASE MallocArg
  <2>1. CASE Jump("malloc", "create") /\ Allocate
    BY <1>1, <2>1 DEF MallocArg
  <2>2. CASE Jump("malloc", "returned") /\ UNCHANGED heap
    BY <1>1, <2>2 DEF MallocArg
  <2> QED BY <1>1, <2>1, <2>2 DEF MallocArg
<1>2. CASE CreateThread
  BY <1>2, SMTT(30) DEF CreateThread, Continue
<1>3. CASE CreateFails
  BY <1>3 DEF CreateFails
<1>4. CASE JoinUnset
  BY <1>4 DEF JoinUnset
<1>5. CASE Cancel
  BY <1>5 DEF Cancel
<1>6. CASE JoinThread
  BY <1>6 DEF JoinThread
<1>7. CASE JoinedAll
  BY <1>7 DEF JoinedAll
<1>8. CASE Leave
  BY <1>8 DEF Leave
<1>9. CASE End
  <2>1. program.main # "endless" => phase[1] \in {"none", "done"}
    <3>1. CASE line = "left"
      BY <1>9, <3>1 DEF End
    <3>2. CASE line = "returned" /\ program.main = "exit"
      BY <3>2
    <3>3. CASE line = "returned" /\ program.main \in {"join", "cancel"}
      BY <3>3
    <3> QED BY <1>9, <3>1, <3>2, <3>3 DEF End
  <2> QED BY <1>9, <2>1 DEF End
<1> QED BY <1>1, <1>2, <1>3, <1>4, <1>5, <1>6, <1>7, <1>8, <1>9 DEF MainProgram

(* A thread frees what is its own, and once.                               *)
LEMMA ThreadKeepsLifetimes ==
  ASSUME LifetimesInv, NEW t \in ThreadIds, CreatedThread(t)
  PROVE  LifetimesInv'
<1> USE ThreadProgramsAssumption, ProgramKinds
    DEF LifetimesInv, LifetimesHold, ProgramTypeOK, MemoryOwned, ThreadsReleased,
        PlacesInv, OwnerInv, ThreadIds, Advances, Allocate, Free, heap
<1>1. CASE Begin(t)
  <2>1. CASE program.body = "loops"
    BY <1>1, <2>1 DEF Begin
  <2>2. CASE program.body = "cleanup"
    BY <1>1, <2>2 DEF Begin
  <2>3. CASE program.body = "returns" /\ program.arg # "none"
    BY <1>1, <2>3 DEF Begin
  <2>4. CASE program.body = "returns" /\ program.arg = "none"
    BY <1>1, <2>4, SMTT(30) DEF Begin
  <2> QED BY <2>1, <2>2, <2>3, <2>4
<1>2. CASE UseArg(t)
  BY <1>2 DEF UseArg
<1>3. CASE MallocString(t)
  BY <1>3, SMTT(30) DEF MallocString
<1>4. CASE Push(t)
  BY <1>4 DEF Push
<1>5. CASE ActOnCancel(t)
  BY <1>5 DEF ActOnCancel
<1> QED BY <1>1, <1>2, <1>3, <1>4, <1>5 DEF CreatedThread

(* LifetimesInv holds from the start and is kept by every step.            *)
LEMMA LifetimesInvariant == ProgramSpec => []LifetimesInv
<1>1. LifetimesInv /\ [ProgramNext]_programVars => LifetimesInv'
  <2> SUFFICES ASSUME LifetimesInv, [ProgramNext]_programVars
               PROVE  LifetimesInv'
    OBVIOUS
  <2>1. CASE UNCHANGED programVars
    BY <2>1 DEF programVars, LifetimesInv, LifetimesHold, ProgramTypeOK,
                MemoryOwned, ThreadsReleased, PlacesInv, OwnerInv
  <2> QED BY <2>1, MainKeepsLifetimes, ThreadKeepsLifetimes DEF ProgramNext
<1> QED BY LifetimesInit, <1>1, PTL DEF ProgramSpec

(* For any number of threads in the loops of 1.1, 1.2.d and 1.2.f: an      *)
(* argument outlives its last read, memory is freed once and by its last   *)
(* owner, and main leaves no thread it should have joined: LifetimesHold.  *)
THEOREM LifetimesHoldAlways == ProgramSpec => []LifetimesHold
<1>1. LifetimesInv => LifetimesHold
  BY DEF LifetimesInv
<1> QED BY <1>1, LifetimesInvariant, PTL

(* main stands in pthread_join only before threads that end of themselves  *)
(* or that it has asked to end.                                            *)
WaitsForNoLoop ==
  line = "join" => \A t \in ThreadIds : phase[t] = "loop" => cancelled

(* main has sent its request by the time it joins.                         *)
Asked == line = "join" /\ program.main = "cancel" => cancelled

(* No program joins a thread that loops for ever: the safety half of       *)
(* JoinsReturn.                                                            *)
THEOREM JoinsAreAnswered == ProgramSpec => []WaitsForNoLoop
<1>1. ProgramInit => Asked
  BY DEF ProgramInit, Asked
<1>2. LifetimesInv /\ Asked /\ [ProgramNext]_programVars => Asked'
  <2> SUFFICES ASSUME LifetimesInv, Asked, [ProgramNext]_programVars
               PROVE  Asked'
    OBVIOUS
  <2> USE DEF Asked, LifetimesInv, LifetimesHold, ProgramTypeOK, PlacesInv, Jump
  <2>1. CASE MainProgram
    <3>1. CASE CreateThread
      BY <3>1, ProgramKinds DEF CreateThread, Continue
    <3>2. CASE CreateFails
      BY <3>2, ProgramKinds DEF CreateFails
    <3>3. CASE ~CreateThread /\ ~CreateFails
      BY <2>1, <3>3
         DEF MainProgram, MallocArg, JoinUnset, Cancel, JoinThread, JoinedAll,
             Leave, End
    <3> QED BY <3>1, <3>2, <3>3
  <2>2. CASE \E t \in ThreadIds : CreatedThread(t)
    BY <2>2
       DEF CreatedThread, Begin, UseArg, MallocString, Push, ActOnCancel,
           Advances
  <2> QED BY <2>1, <2>2 DEF ProgramNext, programVars
<1>3. LifetimesInv /\ Asked => WaitsForNoLoop
  BY ProgramKinds
     DEF WaitsForNoLoop, Asked, LifetimesInv, LifetimesHold, ProgramTypeOK,
         PlacesInv, OwnerInv
<1> QED BY <1>1, <1>2, <1>3, LifetimesInvariant, PTL DEF ProgramSpec
=============================================================================

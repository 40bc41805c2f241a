------------------------------ MODULE MyThread ------------------------------
(***************************************************************************)
(* WorkWithTreads/1.6.c: threads made with clone on a stack from mmap.     *)
(* Thread and creator share one heap record; the thread sets its exited    *)
(* flag and then still prints from that record and returns on that stack,  *)
(* while mythread_join, which saw the flag, releases both.                 *)
(*                                                                         *)
(* main creates N threads, joins them in order and prints what they        *)
(* return; any error ends it, and its return ends the threads.             *)
(***************************************************************************)
EXTENDS Integers

CONSTANT N      \* how many threads main creates, 2 in the code

ASSUME MyThreadAssumption == N \in Nat \ {0}

Threads == 1 .. N

Null == 0
Garbage == -1
Sum(k) == 71 + k      \* what example_routine computes from argument k

VARIABLES
  pc,          \* where main is
  k,           \* the thread main creates or joins
  status,      \* what main returns
  stack,       \* of each thread: "none", "mapped", "unmapped"
  shared,      \* its shared record: "none", "allocated", "freed"
  exited,      \* shared->exited
  ret,         \* shared->ret, Null or the routine's cell
  sum,         \* the heap cell the routine returns: "none", "live", "freed"
  value,       \* what is in that cell
  at,          \* where the thread is
  printed      \* what main printed as the sum

vars == <<pc, k, status, stack, shared, exited, ret, sum, value, at, printed>>
memory == <<stack, shared>>
outcome == <<exited, ret, sum, value, at>>

All(v) == [t \in Threads |-> v]

Init ==
  /\ pc = "mmap" /\ k = 1 /\ status = 0
  /\ stack = All("none") /\ shared = All("none")
  /\ exited = All(0) /\ ret = All(Null)
  /\ sum = All("none") /\ value = All(Null)
  /\ at = All("none") /\ printed = All(Null)

Goto(from, to) == pc = from /\ pc' = to

(* main gives up: return -1.                                               *)
Fails(from) == Goto(from, "returned") /\ status' = -1

-----------------------------------------------------------------------------
(* mythread_create                                                         *)

MapStack ==
  /\ Goto("mmap", "malloc")
  /\ stack' = [stack EXCEPT ![k] = "mapped"]
  /\ UNCHANGED <<k, status, shared, outcome, printed>>

MapFails ==
  /\ Fails("mmap")
  /\ UNCHANGED <<k, memory, outcome, printed>>

Share ==
  /\ Goto("malloc", "clone")
  /\ shared' = [shared EXCEPT ![k] = "allocated"]
  /\ exited' = [exited EXCEPT ![k] = 0] /\ ret' = [ret EXCEPT ![k] = Null]
  /\ UNCHANGED <<k, status, stack, sum, value, at, printed>>

ShareFails ==
  /\ Fails("malloc")
  /\ stack' = [stack EXCEPT ![k] = "unmapped"]
  /\ UNCHANGED <<k, shared, outcome, printed>>

Clone ==
  /\ pc = "clone"
  /\ at' = [at EXCEPT ![k] = "start"]
  /\ IF k < N THEN pc' = "mmap" /\ k' = k + 1
              ELSE pc' = "join" /\ k' = 1
  /\ UNCHANGED <<status, memory, exited, ret, sum, value, printed>>

(* Mutant: the stack stays mapped.                                         *)
CloneFailsLeaks ==
  /\ Fails("clone")
  /\ shared' = [shared EXCEPT ![k] = "freed"]
  /\ UNCHANGED <<k, stack, outcome, printed>>

CloneFails ==
  /\ Fails("clone")
  /\ shared' = [shared EXCEPT ![k] = "freed"]
  /\ stack' = [stack EXCEPT ![k] = "unmapped"]
  /\ UNCHANGED <<k, outcome, printed>>

-----------------------------------------------------------------------------
(* mythread_join, and what main does with the result                       *)

(* Mutant: main does not wait for the flag.                                *)
JoinTakeEarly ==
  /\ Goto("join", "munmap")
  /\ shared' = [shared EXCEPT ![k] = "freed"]
  /\ UNCHANGED <<k, status, stack, outcome, printed>>

(* The acquiring load saw the flag; shared->ret is kept, the record freed. *)
JoinTake ==
  /\ exited[k] = 1
  /\ Goto("join", "munmap")
  /\ shared' = [shared EXCEPT ![k] = "freed"]
  /\ UNCHANGED <<k, status, stack, outcome, printed>>

JoinUnmap ==
  /\ Goto("munmap", "print")
  /\ stack' = [stack EXCEPT ![k] = "unmapped"]
  /\ UNCHANGED <<k, status, shared, outcome, printed>>

JoinUnmapFails ==
  /\ Fails("munmap")
  /\ UNCHANGED <<k, memory, outcome, printed>>

(* The cell that ret points to is printed and freed.                       *)
PrintSum ==
  /\ pc = "print"
  /\ printed' = [printed EXCEPT ![k] =
                   IF ret[k] = Null \/ sum[k] # "live" THEN Garbage ELSE value[k]]
  /\ sum' = [sum EXCEPT ![k] = "freed"]
  /\ IF k < N THEN pc' = "join" /\ k' = k + 1
              ELSE pc' = "returned" /\ UNCHANGED k
  /\ UNCHANGED <<status, memory, exited, ret, value, at>>

(* exit_group: the threads are gone with main.                             *)
Exit ==
  /\ Goto("returned", "ended")
  /\ UNCHANGED <<k, status, memory, outcome, printed>>

-----------------------------------------------------------------------------
(* mythread_startup and example_routine                                    *)

Runs(t, from, to) ==
  /\ pc \notin {"ended", "crashed"}
  /\ at[t] = from /\ at' = [at EXCEPT ![t] = to]
  /\ UNCHANGED <<k, status, memory, printed>>

Startup(t) ==
  /\ Runs(t, "start", "run")
  /\ UNCHANGED <<pc, exited, ret, sum, value>>

(* The argument lies in the frame of main, gone once main has returned.    *)
Compute(t) ==
  /\ Runs(t, "run", "store")
  /\ sum' = [sum EXCEPT ![t] = "live"]
  /\ value' = [value EXCEPT ![t] = IF pc = "returned" THEN Garbage ELSE Sum(t)]
  /\ UNCHANGED <<pc, exited, ret>>

(* malloc's result is not checked.                                         *)
ComputeNoMemory(t) ==
  /\ Runs(t, "run", "killed")
  /\ pc' = "crashed"
  /\ UNCHANGED <<exited, ret, sum, value>>

StoreRet(t) ==
  /\ Runs(t, "store", "flag")
  /\ ret' = [ret EXCEPT ![t] = t]
  /\ UNCHANGED <<pc, exited, sum, value>>

(* Mutant: the flag is forgotten.                                          *)
SetExitedNever(t) ==
  /\ Runs(t, "flag", "epilogue")
  /\ UNCHANGED <<pc, exited, ret, sum, value>>

SetExited(t) ==
  /\ Runs(t, "flag", "epilogue")
  /\ exited' = [exited EXCEPT ![t] = 1]
  /\ UNCHANGED <<pc, ret, sum, value>>

(* Prints the record, perhaps freed by now, and returns: each instruction  *)
(* needs the stack.                                                        *)
Epilogue(t) ==
  /\ stack[t] = "mapped"
  /\ Runs(t, "epilogue", "gone")
  /\ UNCHANGED <<pc, exited, ret, sum, value>>

EpilogueFaults(t) ==
  /\ stack[t] # "mapped"
  /\ Runs(t, "epilogue", "killed")
  /\ pc' = "crashed"
  /\ UNCHANGED <<exited, ret, sum, value>>

-----------------------------------------------------------------------------

Creates == MapStack \/ MapFails \/ Share \/ ShareFails \/ Clone \/ CloneFails

Joins == JoinTake \/ JoinUnmap \/ JoinUnmapFails \/ PrintSum

Main == Creates \/ Joins \/ Exit

Thread(t) ==
  \/ Startup(t) \/ Compute(t) \/ ComputeNoMemory(t)
  \/ StoreRet(t) \/ SetExited(t) \/ Epilogue(t) \/ EpilogueFaults(t)

Next == Main \/ \E t \in Threads : Thread(t)

Spec ==
  /\ Init /\ [][Next]_vars
  /\ WF_vars(Main) /\ \A t \in Threads : WF_vars(Thread(t))

-----------------------------------------------------------------------------
(* Properties                                                              *)

TypeOK ==
  /\ pc \in {"mmap", "malloc", "clone", "join", "munmap", "print", "returned",
             "ended", "crashed"}
  /\ k \in Threads /\ status \in {0, -1}
  /\ stack \in [Threads -> {"none", "mapped", "unmapped"}]
  /\ shared \in [Threads -> {"none", "allocated", "freed"}]
  /\ exited \in [Threads -> 0 .. 1] /\ ret \in [Threads -> {Null} \cup Threads]
  /\ sum \in [Threads -> {"none", "live", "freed"}]
  /\ at \in [Threads -> {"none", "start", "run", "store", "flag", "epilogue",
                         "gone", "killed"}]

(* Until it sets its flag a thread has its stack and its record.  The      *)
(* process is brought down only by a routine that found no memory, or by a *)
(* thread that main joined and robbed of its stack before it was gone.     *)
LiveMemory ==
  /\ TypeOK
  /\ \A t \in Threads : at[t] \in {"start", "run", "store", "flag"} =>
       stack[t] = "mapped" /\ shared[t] = "allocated"
  /\ pc = "crashed" => \E t \in Threads :
       /\ at[t] = "killed"
       /\ \/ exited[t] = 0 /\ sum[t] = "none"
          \/ exited[t] = 1 /\ stack[t] = "unmapped"

(* A join yields the sum of the thread joined; only when main gave up may  *)
(* a thread have read an argument that was gone.  When main succeeds,      *)
(* every stack, record and result is released; a creation that failed has  *)
(* left nothing behind.                                                    *)
JoinedAndReleased ==
  /\ \A t \in Threads : value[t] = Garbage => status = -1
  /\ \A t \in Threads : printed[t] \in {Null, Sum(t)}
  /\ \A t \in Threads : at[t] = "none" /\ status = -1 =>
       stack[t] # "mapped" /\ shared[t] # "allocated"
  /\ pc = "ended" /\ status = 0 => \A t \in Threads :
       /\ printed[t] = Sum(t)
       /\ stack[t] = "unmapped" /\ shared[t] = "freed" /\ sum[t] = "freed"

(* The polling join sees the flag in the end: the program terminates.      *)
Terminates == <>(pc \in {"ended", "crashed"})
=============================================================================

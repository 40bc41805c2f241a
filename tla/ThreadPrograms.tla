--------------------------- MODULE ThreadPrograms ---------------------------
(***************************************************************************)
(* The programs of WorkWithTreads 1.1 to 1.4: main creates threads, joins, *)
(* detaches, cancels or leaves them, and hands them memory.  They share    *)
(* their steps and differ in which they take, so a program is a record and *)
(* the first state chooses one.                                            *)
(*                                                                         *)
(* threads: how many main creates; detach: whether a thread is joinable,   *)
(* detaches itself or is created detached; arg: where its argument lies;   *)
(* body: it returns, loops for ever, or loops with a cleanup handler for a *)
(* string; main: joins, creates without end, or leaves by pthread_exit;    *)
(* failure: what main does when pthread_create fails; attr: when it        *)
(* destroys its attribute object.                                          *)
(*                                                                         *)
(* The operators carry the name of their component, since a proof module   *)
(* extends several components together.                                    *)
(***************************************************************************)
EXTENDS Integers

CONSTANT MaxThreads  \* bound: threads of the loops; 1.1 creates 5

ASSUME ThreadProgramsAssumption == MaxThreads \in Nat \ {0}

ThreadIds == 1 .. MaxThreads

Simple == [threads |-> 1, detach |-> "no", arg |-> "none", body |-> "returns",
           main |-> "join", failure |-> "return", attr |-> "none"]

P_1_1 == [Simple EXCEPT !.threads = MaxThreads, !.failure = "joinEarlier"]
P_1_2_b == Simple
P_1_2_c == [Simple EXCEPT !.failure = "joinUnset"]
P_1_2_d == [Simple EXCEPT !.threads = MaxThreads, !.detach = "self",
                          !.main = "endless"]
P_1_2_f == [Simple EXCEPT !.threads = MaxThreads, !.detach = "attr",
                          !.main = "endless", !.attr = "eachTurn"]
P_1_3_a == [Simple EXCEPT !.arg = "frame"]
P_1_3_b == [Simple EXCEPT !.detach = "attr", !.arg = "heap", !.main = "exit",
                          !.failure = "free", !.attr = "afterwards"]
P_1_4_a == [Simple EXCEPT !.body = "loops", !.main = "cancel"]
P_1_4_b == P_1_4_a
P_1_4_c == [P_1_4_a EXCEPT !.body = "cleanup"]

Programs == {P_1_1, P_1_2_b, P_1_2_c, P_1_2_d, P_1_2_f, P_1_3_a, P_1_3_b,
             P_1_4_a, P_1_4_b, P_1_4_c}

VARIABLES
  program,
  line,        \* where main is
  i,           \* the thread to create or to join next
  created,     \* how many there are
  phase,       \* where each thread is
  detached,    \* the threads that are detached
  joined,      \* the threads that were joined
  block,       \* the heap argument or the string: "none", "live", "freed"
  frees,       \* how often it was freed
  guarded,     \* whether the cleanup handler is pushed
  cancelled,   \* whether a cancellation request is pending
  attr         \* the attribute object: "none", "ready", "destroyed"

programVars == <<program, line, i, created, phase, detached, joined, block, frees, guarded,
          cancelled, attr>>
heap == <<block, frees>>
threadVars == <<phase, detached, guarded>>

ProgramInit ==
  /\ program \in Programs
  /\ line = IF program.arg = "heap" THEN "malloc" ELSE "create"
  /\ i = 1 /\ created = 0
  /\ phase = [t \in ThreadIds |-> "none"]
  /\ detached = {} /\ joined = {}
  /\ block = "none" /\ frees = 0
  /\ guarded = FALSE /\ cancelled = FALSE
  /\ attr = IF program.detach = "attr" THEN "ready" ELSE "none"

Jump(from, to) == line = from /\ line' = to

Allocate == block' = "live" /\ UNCHANGED frees
Free == block' = "freed" /\ frees' = frees + 1

-----------------------------------------------------------------------------
(* main                                                                    *)

MallocArg ==
  /\ \/ Jump("malloc", "create") /\ Allocate
     \/ Jump("malloc", "returned") /\ UNCHANGED heap
  /\ UNCHANGED <<program, i, created, threadVars, joined, cancelled, attr>>

(* The first thing after the last creation.                                *)
Continue ==
  CASE program.main = "join" -> "join"
    [] program.main = "cancel" -> "cancel"
    [] program.main = "exit" -> "exit"
    [] program.main = "endless" -> "create"

CreateThread ==
  /\ line = "create" /\ created < program.threads
  /\ created' = created + 1
  /\ phase' = [phase EXCEPT ![created + 1] = "start"]
  /\ detached' = IF program.detach = "attr" THEN detached \cup {created + 1}
                                            ELSE detached
  /\ line' = IF created' < program.threads THEN "create" ELSE Continue
  /\ attr' = IF program.attr = "none" THEN attr ELSE "destroyed"
  /\ UNCHANGED <<program, i, joined, heap, guarded, cancelled>>

(* Mutant: the argument is left to a thread that does not exist.           *)
CreateFailsKeeps ==
  /\ line = "create"
  /\ line' = CASE program.failure = "joinEarlier" -> "join"
             [] program.failure = "joinUnset" -> "joinUnset"
             [] OTHER -> "returned"
  /\ attr' = IF program.attr = "afterwards" THEN "destroyed" ELSE attr
  /\ UNCHANGED <<program, i, created, threadVars, joined, heap, cancelled>>

CreateFails ==
  /\ line = "create"
  /\ line' = CASE program.failure = "joinEarlier" -> "join"
             [] program.failure = "joinUnset" -> "joinUnset"
             [] OTHER -> "returned"
  /\ IF program.failure = "free" THEN Free ELSE UNCHANGED heap
  /\ attr' = IF program.attr = "afterwards" THEN "destroyed" ELSE attr
  /\ UNCHANGED <<program, i, created, threadVars, joined, cancelled>>

(* pthread_join of a thread id that was never set: an error that nobody    *)
(* sees, an invalid access, or a wait for something that never ends.       *)
JoinUnset ==
  /\ \/ Jump("joinUnset", "returned")
     \/ Jump("joinUnset", "crashed")
     \/ Jump("joinUnset", "hung")
  /\ UNCHANGED <<program, i, created, threadVars, joined, heap, cancelled, attr>>

Cancel ==
  /\ Jump("cancel", "join")
  /\ cancelled' = TRUE
  /\ UNCHANGED <<program, i, created, threadVars, joined, heap, attr>>

JoinThread ==
  /\ line = "join" /\ i <= created
  /\ phase[i] = "done"
  /\ joined' = joined \cup {i}
  /\ i' = i + 1
  /\ UNCHANGED <<program, line, created, threadVars, heap, cancelled, attr>>

JoinedAll ==
  /\ Jump("join", "returned")
  /\ i > created
  /\ UNCHANGED <<program, i, created, threadVars, joined, heap, cancelled, attr>>

(* pthread_exit: the process goes on until the last thread is done.        *)
Leave ==
  /\ Jump("exit", "left")
  /\ UNCHANGED <<program, i, created, threadVars, joined, heap, cancelled, attr>>

End ==
  /\ \/ Jump("returned", "ended")
     \/ Jump("left", "ended") /\ \A t \in 1 .. created : phase[t] = "done"
  /\ UNCHANGED <<program, i, created, threadVars, joined, heap, cancelled, attr>>

MainProgram ==
  \/ MallocArg \/ CreateThread \/ CreateFails \/ JoinUnset
  \/ Cancel \/ JoinThread \/ JoinedAll \/ Leave \/ End

-----------------------------------------------------------------------------
(* The threads                                                             *)

Advances(t, from, to) ==
  /\ line \notin {"ended", "crashed"}
  /\ phase[t] = from /\ phase' = [phase EXCEPT ![t] = to]
  /\ UNCHANGED <<program, line, i, created, joined, cancelled, attr>>

Begin(t) ==
  /\ Advances(t, "start",
          CASE program.body = "loops" -> "loop"
            [] program.body = "cleanup" -> "malloc"
            [] program.arg # "none" -> "read"
            [] OTHER -> "done")
  /\ detached' = IF program.detach = "self" THEN detached \cup {t} ELSE detached
  /\ UNCHANGED <<heap, guarded>>

(* Prints what its argument holds, and frees it if it came from the heap.  *)
UseArg(t) ==
  /\ Advances(t, "read", "done")
  /\ IF program.arg = "heap" THEN Free ELSE UNCHANGED heap
  /\ UNCHANGED <<detached, guarded>>

MallocString(t) ==
  /\ \/ Advances(t, "malloc", "push") /\ Allocate
     \/ Advances(t, "malloc", "done") /\ UNCHANGED heap
  /\ UNCHANGED <<detached, guarded>>

Push(t) ==
  /\ Advances(t, "push", "loop")
  /\ guarded' = TRUE
  /\ UNCHANGED <<detached, heap>>

(* Mutant: the loop never meets a cancellation point.                      *)
ActOnCancelNever(t) ==
  /\ FALSE
  /\ Advances(t, "loop", "done")
  /\ UNCHANGED <<detached, heap, guarded>>

(* Cancellation is deferred: the thread ends at the next point of its loop *)
(* (sleep, usleep, or the write below puts and printf), after the handler. *)
ActOnCancel(t) ==
  /\ cancelled
  /\ Advances(t, "loop", "done")
  /\ IF guarded THEN Free ELSE UNCHANGED heap
  /\ UNCHANGED <<detached, guarded>>

CreatedThread(t) ==
  \/ Begin(t) \/ UseArg(t) \/ MallocString(t) \/ Push(t) \/ ActOnCancel(t)

ProgramNext == MainProgram \/ \E t \in ThreadIds : CreatedThread(t)

ProgramSpec ==
  /\ ProgramInit /\ [][ProgramNext]_programVars
  /\ WF_programVars(MainProgram)
  /\ \A t \in ThreadIds : WF_programVars(CreatedThread(t))

-----------------------------------------------------------------------------
(* Properties                                                              *)

ProgramTypeOK ==
  /\ program \in Programs
  /\ line \in {"malloc", "create", "joinUnset", "cancel", "join", "exit", "left",
               "returned", "ended", "crashed", "hung"}
  /\ i \in 1 .. MaxThreads + 1 /\ created \in 0 .. MaxThreads
  /\ phase \in [ThreadIds -> {"none", "start", "read", "malloc", "push",
                              "loop", "done"}]
  /\ detached \in SUBSET ThreadIds /\ joined \in SUBSET ThreadIds
  /\ block \in {"none", "live", "freed"} /\ frees \in Nat
  /\ guarded \in BOOLEAN /\ cancelled \in BOOLEAN
  /\ attr \in {"none", "ready", "destroyed"}

(* A thread finds its argument alive when it reads it, in main's frame or  *)
(* on the heap.  What is allocated is freed once, by whoever owns it last: *)
(* before the process ends of itself, or before the join after a cancel.   *)
MemoryOwned ==
  /\ \A t \in ThreadIds : phase[t] = "read" =>
       IF program.arg = "frame" THEN line \notin {"left", "returned", "ended"}
                                ELSE block = "live"
  /\ frees <= 1 /\ (block = "freed" <=> frees = 1)
  /\ (line = "ended" \/ joined # {}) => block # "live"

(* No thread is both joined and detached.  When a main that joins returns, *)
(* every thread it created is joined, those before a failed creation too.  *)
(* Only 1.2.f uses an attribute object it has destroyed, and only 1.2.c    *)
(* can crash or hang, in the join of an id that was never set.             *)
ThreadsReleased ==
  /\ joined \cap detached = {}
  /\ line \in {"returned", "ended"} /\ program.main \in {"join", "cancel"} =>
       joined = 1 .. created
  /\ line = "create" /\ attr = "destroyed" => program = P_1_2_f /\ created > 0
  /\ line \in {"crashed", "hung"} => program = P_1_2_c /\ created = 0

LifetimesHold == ProgramTypeOK /\ MemoryOwned /\ ThreadsReleased

(* A main that joins, or cancels and joins, or leaves, ends the process:   *)
(* a cancelled thread gets to a point where it acts on the request.  The   *)
(* exception is the join of 1.2.c on an id that was never set, with no     *)
(* thread to wait for: it may crash or never return.                       *)
JoinsReturn ==
  program.main # "endless" ~>
    \/ line = "ended"
    \/ line \in {"crashed", "hung"} /\ program = P_1_2_c /\ created = 0
=============================================================================

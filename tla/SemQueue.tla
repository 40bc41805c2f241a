------------------------------ MODULE SemQueue ------------------------------
(***************************************************************************)
(* The queue of Synchronization/2.2/g: two counting semaphores hold a      *)
(* token for every free and for every used place, and a mutex guards the   *)
(* list.  A token is taken before the mutex and posted after it, so for a  *)
(* while it belongs to a thread.  The old tests for a full and an empty    *)
(* queue are still there; taken, they would return 0 and lose the token.   *)
(*                                                                         *)
(* queue_init does not initialise the mutex.  The structure comes from the *)
(* untouched heap of a fresh process, all zeros, which on Linux is what    *)
(* PTHREAD_MUTEX_INITIALIZER is: the mutex starts unlocked.                *)
(***************************************************************************)
EXTENDS GuardedQueue

VARIABLES not_full, not_empty   \* the values of the two semaphores

semVars == <<not_full, not_empty>>
syncVars == <<lock, semVars>>
vars == <<queueVars, programVars, syncVars>>

Init == GuardedInit /\ not_full = MaxCount /\ not_empty = 0

-----------------------------------------------------------------------------
(* queue_add                                                               *)

(* sem_wait(&q->not_full)                                                  *)
AddWait ==
  /\ Step("writer", "wait", "lock")
  /\ not_full > 0
  /\ not_full' = not_full - 1
  /\ UNCHANGED <<proc, mainVars, i, readerVars, shown, queueVars, lock,
                 not_empty>>

AddLock == Acquire("writer", "lock", "enter") /\ UNCHANGED semVars

AddEnter ==
  /\ Step("writer", "enter", IF count = MaxCount THEN "unlock_full" ELSE "link")
  /\ add_attempts' = add_attempts + 1
  /\ AssertHolds(count <= MaxCount)
  /\ UNCHANGED <<mainVars, i, readerVars, shown, listVars, count,
                 get_attempts, add_count, get_count, syncVars>>

(* The node, count and the statistics.                                     *)
AddNode ==
  /\ AddNoMemory \/ AddLink \/ AddCount \/ AddStat("unlock")
  /\ UNCHANGED semVars

(* Both ways out; the refused call goes back to its loop without a post.   *)
AddUnlock ==
  /\ pc["writer"] \in {"unlock", "unlock_full"}
  /\ Step("writer", pc["writer"], IF pc["writer"] = "unlock" THEN "post" ELSE "loop")
  /\ Release
  /\ UNCHANGED <<proc, mainVars, i, readerVars, shown, queueVars, semVars>>

(* Mutant: the post goes to the wrong semaphore.                           *)
AddPostsNotFull ==
  /\ WriterSucceeds("post")
  /\ not_full' = not_full + 1
  /\ UNCHANGED <<lock, not_empty>>

(* sem_post(&q->not_empty); return 1                                       *)
AddPost ==
  /\ WriterSucceeds("post")
  /\ not_empty' = not_empty + 1
  /\ UNCHANGED <<lock, not_full>>

WriterStep ==
  \/ (WriterCalls("wait") \/ LeaveLoop("writer")) /\ UNCHANGED syncVars
  \/ AddWait \/ AddLock \/ AddEnter \/ AddNode \/ AddUnlock \/ AddPost

-----------------------------------------------------------------------------
(* queue_get                                                               *)

(* Mutant: no sem_wait(&q->not_empty).                                     *)
GetNoWait ==
  /\ Step("reader", "wait", "lock")
  /\ UNCHANGED <<proc, mainVars, i, readerVars, shown, queueVars, syncVars>>

GetWait ==
  /\ Step("reader", "wait", "lock")
  /\ not_empty > 0
  /\ not_empty' = not_empty - 1
  /\ UNCHANGED <<proc, mainVars, i, readerVars, shown, queueVars, lock,
                 not_full>>

GetLock == Acquire("reader", "lock", "enter") /\ UNCHANGED semVars

GetEnter ==
  /\ Step("reader", "enter", IF count = 0 THEN "unlock_empty" ELSE "unlink")
  /\ get_attempts' = get_attempts + 1
  /\ AssertHolds(count >= 0)
  /\ UNCHANGED <<mainVars, i, readerVars, shown, listVars, count,
                 add_attempts, add_count, get_count, syncVars>>

GetNode ==
  /\ GetUnlink \/ GetCount \/ GetStat("unlock")
  /\ UNCHANGED semVars

GetUnlock ==
  /\ pc["reader"] \in {"unlock", "unlock_empty"}
  /\ Step("reader", pc["reader"], IF pc["reader"] = "unlock" THEN "post" ELSE "loop")
  /\ Release
  /\ UNCHANGED <<proc, mainVars, i, readerVars, shown, queueVars, semVars>>

(* Mutant: no sem_post(&q->not_full).                                      *)
GetNoPost == ReaderSucceeds("post") /\ UNCHANGED syncVars

(* sem_post(&q->not_full); return 1                                        *)
GetPost ==
  /\ ReaderSucceeds("post")
  /\ not_full' = not_full + 1
  /\ UNCHANGED <<lock, not_empty>>

ReaderStep ==
  \/ (ReaderCalls("wait") \/ LeaveLoop("reader")) /\ UNCHANGED syncVars
  \/ GetWait \/ GetLock \/ GetEnter \/ GetNode \/ GetUnlock \/ GetPost

-----------------------------------------------------------------------------
Ended == ~Running /\ UNCHANGED vars

Next ==
  \/ MainStep /\ UNCHANGED syncVars
  \/ WriterStep \/ ReaderStep
  \/ MonitorStep /\ UNCHANGED semVars
  \/ Ended

Spec == Init /\ [][Next]_vars

(* Threads run when they can.  No thread ever competes with itself for a   *)
(* semaphore (one producer, one consumer), so weak fairness is enough.     *)
FairSpec ==
  /\ Spec
  /\ WF_vars(MainStep /\ UNCHANGED syncVars)
  /\ WF_vars(WriterStep) /\ WF_vars(ReaderStep)
  /\ WF_vars(MonitorStep /\ UNCHANGED semVars)

-----------------------------------------------------------------------------
(* Properties                                                              *)

WriterLabels ==
  {"none", "loop", "wait", "lock", "enter", "unlock_full", "link", "count", "stat", "unlock", "post", "done"}
ReaderLabels ==
  {"none", "loop", "wait", "lock", "enter", "unlock_empty", "unlink", "count", "stat", "unlock", "post", "done"}
Labels == MainLabels \cup WriterLabels \cup ReaderLabels \cup MonitorLabels

(* Every variable has its type; the semaphores never exceed max_count.     *)
TypeOK ==
  /\ ProgramTypeOK
  /\ pc \in [Threads -> Labels]
  /\ pc["main"] \in MainLabels
  /\ pc["writer"] \in WriterLabels
  /\ pc["reader"] \in ReaderLabels
  /\ pc["qmonitor"] \in MonitorLabels
  /\ lock \in (Threads \ {"main"}) \cup {"nobody"}
  /\ not_full \in 0 .. MaxCount /\ not_empty \in 0 .. MaxCount

Holds(t, labels) == IF pc[t] \in labels THEN 1 ELSE 0

(* No token is lost or made up: whenever the mutex is free, every used     *)
(* place is a token of not_empty, one the reader has taken and not yet     *)
(* used, or one the writer is about to post; and the free places alike.    *)
TokensMatchCount ==
  lock = "nobody" =>
    /\ count = not_empty + Holds("reader", {"lock"}) + Holds("writer", {"post"})
    /\ MaxCount - count =
         not_full + Holds("writer", {"lock"}) + Holds("reader", {"post"})

(* The tests for a full and an empty queue that 2.2/g kept never succeed:  *)
(* no call returns 0, so none loses the token it waited for.  Neither does *)
(* an assertion fail.                                                      *)
NeverRefused ==
  /\ pc["writer"] # "unlock_full" /\ pc["reader"] # "unlock_empty"
  /\ proc # "assert_failed"

(* What every queue owes its callers: order, an intact list, no crash, and *)
(* teardown after the last use.                                            *)
QueueSafe ==
  /\ TypeOK
  /\ MutualExclusion /\ FifoOrder /\ NoCrash /\ StatsConsistent
  /\ ListIntact /\ TeardownSafe

(* One worker has left its loop and the other waits for a token that       *)
(* nobody is left to post: main never gets past its joins.                 *)
Stranded ==
  /\ pc["main"] \in {"join_reader", "join_writer"}
  /\ \/ pc["writer"] = "done" /\ pc["reader"] = "wait" /\ not_empty = 0
     \/ pc["reader"] = "done" /\ pc["writer"] = "wait" /\ not_full = 0

(* After q->stop = 1 the process ends, or one worker is stranded; no other *)
(* way to hang exists.                                                     *)
StopSettles == stop ~> (~Running \/ Stranded)

(* TokensMatchCount inside the mutex as well: a token taken is used when   *)
(* count moves, a token to post is owed from then on.                      *)
TokenInv ==
  /\ count = not_empty + Holds("reader", {"lock", "enter", "unlink", "count"})
                       + Holds("writer", {"stat", "unlock", "post"})
  /\ MaxCount - count =
       not_full + Holds("writer", {"lock", "enter", "link", "count"})
                + Holds("reader", {"stat", "unlock", "post"})

(* The inductive invariant of the proofs.                                  *)
IndInv == TypeOK /\ QueueInv /\ AttemptsInv /\ TokenInv /\ NeverRefused
=============================================================================

--------------------------- MODULE SignalThreads ---------------------------
(***************************************************************************)
(* WorkWithTreads/1.5/1.5.a.c: main blocks SIGINT and SIGQUIT and starts   *)
(* three threads, which inherit its mask.  t1 pauses, t2 installs a        *)
(* handler for SIGINT and unblocks it, t3 waits for SIGQUIT with sigwait.  *)
(* main ends the process when t3 has finished.                             *)
(*                                                                         *)
(* The signals are sent to the process: the kernel delivers one in any     *)
(* thread that does not block it and keeps it pending while all do.  Of a  *)
(* pending signal there is one instance.                                   *)
(*                                                                         *)
(* The operators carry the name of their component, since a proof module   *)
(* extends several components together.                                    *)
(***************************************************************************)
EXTENDS Naturals

CONSTANT MaxSent     \* bound: how often each signal is sent

ASSUME SignalAssumption == MaxSent \in Nat

Signals == {"INT", "QUIT"}
Created == {"t1", "t2", "t3"}
AllThreads == {"main"} \cup Created

VARIABLES
  place,       \* where main is
  stands,      \* where each created thread is
  mask,        \* the signals a thread blocks
  handler,     \* whether sigint_handler is installed, for the whole process
  pending,     \* signals pending on the process
  sent,        \* how often each signal was sent
  caughtBy     \* the threads in which sigint_handler ran

signalVars == <<place, stands, mask, handler, pending, sent, caughtBy>>
signals == <<pending, sent, caughtBy>>

SignalInit ==
  /\ place = "mask"
  /\ stands = [t \in Created |-> "none"]
  /\ mask = [t \in AllThreads |-> {}]
  /\ handler = FALSE
  /\ pending = {} /\ sent = [s \in Signals |-> 0] /\ caughtBy = {}

Ended == place \in {"exited", "killed"}

Moves(from, to) == place = from /\ place' = to

-----------------------------------------------------------------------------
(* The kernel                                                              *)

Send(s) ==
  /\ ~Ended /\ sent[s] < MaxSent
  /\ sent' = [sent EXCEPT ![s] = @ + 1]
  /\ pending' = pending \cup {s}
  /\ UNCHANGED <<place, stands, mask, handler, caughtBy>>

Live == {"main"} \cup {t \in Created : stands[t] \notin {"none", "gone"}}

(* sigint_handler runs in t.                                               *)
Catch(t) ==
  /\ ~Ended /\ handler
  /\ "INT" \in pending \ mask[t]
  /\ pending' = pending \ {"INT"}
  /\ caughtBy' = caughtBy \cup {t}
  /\ UNCHANGED <<place, stands, mask, handler, sent>>

(* No handler: the process ends.                                           *)
Kill(t, s) ==
  /\ ~Ended /\ ~(s = "INT" /\ handler)
  /\ s \in pending \ mask[t]
  /\ place' = "killed"
  /\ UNCHANGED <<stands, mask, handler, signals>>

-----------------------------------------------------------------------------
(* main                                                                    *)

Block ==
  /\ Moves("mask", "t1")
  /\ mask' = [mask EXCEPT !["main"] = Signals]
  /\ UNCHANGED <<stands, handler, signals>>

(* pthread_create fails, or pthread_sigmask: main returns 1.               *)
SetupFails ==
  /\ place \in {"mask", "t1", "t2", "t3"} /\ place' = "exited"
  /\ UNCHANGED <<stands, mask, handler, signals>>

(* A thread begins with the mask of its creator.                           *)
Create(t, first) ==
  /\ stands' = [stands EXCEPT ![t] = first]
  /\ mask' = [mask EXCEPT ![t] = mask["main"]]
  /\ UNCHANGED <<handler, signals>>

CreateAll ==
  \/ Moves("t1", "t2") /\ Create("t1", "pause")
  \/ Moves("t2", "t3") /\ Create("t2", "sigaction")
  \/ Moves("t3", "join") /\ Create("t3", "sigwait")

Join ==
  /\ stands["t3"] = "gone"
  /\ Moves("join", "exited")
  /\ UNCHANGED <<stands, mask, handler, signals>>

MainStep == Block \/ SetupFails \/ CreateAll \/ Join

-----------------------------------------------------------------------------
(* The threads                                                             *)

Step(t, from, to) ==
  /\ ~Ended
  /\ stands[t] = from /\ stands' = [stands EXCEPT ![t] = to]
  /\ UNCHANGED place

(* Mutant: unblocks before the handler is there.                           *)
InstallLate ==
  /\ Step("t2", "sigaction", "unblock")
  /\ mask' = [mask EXCEPT !["t2"] = @ \ {"INT"}]
  /\ UNCHANGED <<handler, signals>>

Install ==
  /\ Step("t2", "sigaction", "unblock")
  /\ handler' = TRUE
  /\ UNCHANGED <<mask, signals>>

(* Mutant: the signal stays blocked.                                       *)
UnblockNothing ==
  /\ Step("t2", "unblock", "pause")
  /\ UNCHANGED <<mask, handler, signals>>

Unblock ==
  /\ Step("t2", "unblock", "pause")
  /\ mask' = [mask EXCEPT !["t2"] = @ \ {"INT"}]
  /\ UNCHANGED <<handler, signals>>

(* sigaction or pthread_sigmask fails: pthread_exit.                       *)
GiveUp ==
  /\ \E from \in {"sigaction", "unblock"} : Step("t2", from, "gone")
  /\ UNCHANGED <<mask, handler, signals>>

Sigwait ==
  /\ "QUIT" \in pending
  /\ Step("t3", "sigwait", "gone")
  /\ pending' = pending \ {"QUIT"}
  /\ UNCHANGED <<mask, handler, sent, caughtBy>>

Delivery == \E t \in Live : Catch(t) \/ \E s \in Signals : Kill(t, s)

T2 == Install \/ Unblock \/ GiveUp

SignalNext ==
  MainStep \/ T2 \/ Sigwait \/ Delivery \/ \E s \in Signals : Send(s)

SignalSpec ==
  /\ SignalInit /\ [][SignalNext]_signalVars
  /\ WF_signalVars(MainStep) /\ WF_signalVars(T2)
  /\ WF_signalVars(Sigwait) /\ WF_signalVars(Delivery)

-----------------------------------------------------------------------------
(* Properties                                                              *)

SignalTypeOK ==
  /\ place \in {"mask", "t1", "t2", "t3", "join", "exited", "killed"}
  /\ stands \in [Created -> {"none", "pause", "sigaction", "unblock", "sigwait",
                             "gone"}]
  /\ mask \in [AllThreads -> SUBSET Signals]
  /\ handler \in BOOLEAN /\ pending \in SUBSET Signals
  /\ sent \in [Signals -> 0 .. MaxSent] /\ caughtBy \in SUBSET AllThreads

(* No signal kills the process once main has blocked them, whatever the    *)
(* threads have got to: SIGINT is unblocked only where its handler is      *)
(* installed already, and it never runs in a thread other than t2.         *)
SafeDelivery ==
  /\ SignalTypeOK
  /\ place = "killed" => mask["main"] = {}
  /\ caughtBy \subseteq {"t2"}

(* Sent before, while or after the threads get ready, a SIGQUIT ends the   *)
(* process, and a SIGINT is caught, unless t2 could not get ready.         *)
NoSignalLost ==
  /\ "QUIT" \in pending ~> Ended
  /\ "INT" \in pending ~> "INT" \notin pending \/ Ended \/ stands["t2"] = "gone"
=============================================================================

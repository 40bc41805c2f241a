-------------------------- MODULE RaceQueueProofs --------------------------
(***************************************************************************)
(* RaceQueue for every MaxCount, every number of calls and every set of    *)
(* addresses: whatever else the races break, the assertions of queue_add   *)
(* and queue_get never fail.                                               *)
(***************************************************************************)
EXTENDS RaceQueue, TLAPS

USE DEF Threads

(* The writer stays on its side of max_count.                              *)
LEMMA WriterInv == CountInv /\ WriterStep => CountInv'
<1> SUFFICES ASSUME CountInv, WriterStep PROVE CountInv'
  OBVIOUS
<1>0. MaxCount \in Nat /\ MaxCount > 0
  BY QueueDataAssumption
<1> USE <1>0 DEF CountInv, AssertionsHold, Step, Labels, WriterLabels, queueVars,
               localVars
<1>1. CASE AddEnter
  BY <1>1 DEF AddEnter, AssertHolds
<1>2. CASE AddCheck
  BY <1>2 DEF AddCheck
<1>3. CASE AddNoMemory
  BY <1>3 DEF AddNoMemory, OutOfMemory
<1>4. CASE AddMalloc
  BY <1>4 DEF AddMalloc
<1>5. CASE AddTestFirst
  BY <1>5 DEF AddTestFirst
<1>6. CASE AddSetLast
  BY <1>6 DEF AddSetLast
<1>7. CASE AddSetFirst
  BY <1>7 DEF AddSetFirst
<1>8. CASE AddLinkNext
  BY <1>8 DEF AddLinkNext, BadAccess
<1>9. CASE AddAdvanceLast
  BY <1>9 DEF AddAdvanceLast
<1>10. CASE AddLoadCount
  BY <1>10 DEF AddLoadCount
<1>11. CASE AddStoreCount
  BY <1>11 DEF AddStoreCount
<1>12. CASE AddStat
  BY <1>12 DEF AddStat
<1>13. CASE /\ WriterCalls("enter") \/ LeaveLoop("writer") \/ WriterSucceeds("return")
          /\ UNCHANGED localVars
  BY <1>13 DEF WriterCalls, LeaveLoop, WriterSucceeds
<1> QED BY <1>1, <1>2, <1>3, <1>4, <1>5, <1>6, <1>7, <1>8, <1>9, <1>10, <1>11,
           <1>12, <1>13
        DEF WriterStep

(* The reader stays on its side of 0.                                      *)
LEMMA ReaderInv == CountInv /\ ReaderStep => CountInv'
<1> SUFFICES ASSUME CountInv, ReaderStep PROVE CountInv'
  OBVIOUS
<1>0. MaxCount \in Nat /\ MaxCount > 0
  BY QueueDataAssumption
<1> USE <1>0 DEF CountInv, AssertionsHold, Step, Labels, ReaderLabels, queueVars,
               localVars
<1>1. CASE GetEnter
  BY <1>1 DEF GetEnter, AssertHolds
<1>2. CASE GetCheck
  BY <1>2 DEF GetCheck
<1>3. CASE GetLoadFirst
  BY <1>3 DEF GetLoadFirst
<1>4. CASE GetLoadVal
  BY <1>4 DEF GetLoadVal, BadAccess
<1>5. CASE GetLoadNext
  BY <1>5 DEF GetLoadNext, BadAccess
<1>6. CASE GetStoreFirst
  BY <1>6 DEF GetStoreFirst
<1>7. CASE GetFree
  BY <1>7 DEF GetFree, BadAccess, Free
<1>8. CASE GetLoadCount
  BY <1>8 DEF GetLoadCount
<1>9. CASE GetStoreCount
  BY <1>9 DEF GetStoreCount
<1>10. CASE GetStat
  BY <1>10 DEF GetStat
<1>11. CASE /\ ReaderCalls("enter") \/ LeaveLoop("reader") \/ ReaderSucceeds("return")
          /\ UNCHANGED localVars
  BY <1>11 DEF ReaderCalls, LeaveLoop, ReaderSucceeds
<1> QED BY <1>1, <1>2, <1>3, <1>4, <1>5, <1>6, <1>7, <1>8, <1>9, <1>10, <1>11
        DEF ReaderStep

(* The monitor only looks.                                                 *)
LEMMA MonitorInv == CountInv /\ MonitorStep => CountInv'
BY DEF CountInv, AssertionsHold, MonitorStep, MonitorCalls, TriesAgain,
       LeaveLoop, Step, Labels, localVars, queueVars

(* main leaves count alone.                                                *)
LEMMA MainInv == CountInv /\ MainStep /\ UNCHANGED localVars => CountInv'
<1> SUFFICES ASSUME CountInv, MainStep, UNCHANGED localVars PROVE CountInv'
  OBVIOUS
<1>0. MaxCount \in Nat /\ MaxCount > 0
  BY QueueDataAssumption
<1> USE <1>0 DEF CountInv, AssertionsHold, Step, Labels, MainLabels, localVars, queueVars
<1>1. CASE CreateMonitor
  BY <1>1 DEF CreateMonitor, Create
<1>2. CASE CreateReader
  BY <1>2 DEF CreateReader, Create
<1>3. CASE CreateWriter
  BY <1>3 DEF CreateWriter, Create
<1>4. CASE CreateFails
  BY <1>4 DEF CreateFails
<1>5. CASE SetStop
  BY <1>5 DEF SetStop
<1>6. CASE JoinReader
  BY <1>6 DEF JoinReader, Join
<1>7. CASE JoinWriter
  BY <1>7 DEF JoinWriter, Join
<1>8. CASE DestroyStop
  BY <1>8 DEF DestroyStop
<1>9. CASE JoinMonitor
  BY <1>9 DEF JoinMonitor
<1>10. CASE FreeNode
  BY <1>10 DEF FreeNode
<1>11. CASE FreeNodesDone
  BY <1>11 DEF FreeNodesDone
<1>12. CASE FreeQueue
  BY <1>12 DEF FreeQueue
<1> QED BY <1>1, <1>2, <1>3, <1>4, <1>5, <1>6, <1>7, <1>8, <1>9, <1>10, <1>11,
           <1>12
        DEF MainStep

(* count stays within its limits, as each thread's tests leave it.         *)
THEOREM CountBounded == Spec => []CountInv
<1>1. Init => CountInv
  BY QueueDataAssumption
     DEF Init, ProgramInit, QueueInit, CountInv, AssertionsHold, Labels, MainLabels
<1>2. CountInv /\ [Next]_vars => CountInv'
  <2> SUFFICES ASSUME CountInv, [Next]_vars PROVE CountInv'
    OBVIOUS
  <2>1. CASE UNCHANGED vars
    BY <2>1 DEF vars, queueVars, programVars, localVars, CountInv, AssertionsHold
  <2> QED BY <2>1, WriterInv, ReaderInv, MonitorInv, MainInv DEF Next, Ended
<1> QED BY <1>1, <1>2, PTL DEF Spec

(* The committed test program never stops on an assertion.                 *)
THEOREM AssertionsHoldAlways == Spec => []AssertionsHold
<1>1. CountInv => AssertionsHold
  BY DEF CountInv
<1> QED BY <1>1, CountBounded, PTL

-----------------------------------------------------------------------------
(* The list under the races.                                               *)

Types == TypeOK /\ i \in Int /\ got \in Int /\ expected \in Int

(* The steps of the writer keep the types.                                 *)
LEMMA WriterTypes == RaceInv /\ WriterStep => Types'
<1> SUFFICES ASSUME RaceInv, WriterStep PROVE Types'
  OBVIOUS
<1>0. MaxCount \in Nat /\ MaxCount > 0 /\ NULL \notin Nodes
  BY QueueDataAssumption
<1>a. Types
  BY DEF RaceInv, Types
<1> USE <1>0, <1>a DEF Types, TypeOK, Step, Labels, WriterLabels, queueVars, localVars,
                 listVars, readerVars, ProcStates
<1>1. CASE AddEnter
  BY <1>1 DEF AddEnter, AssertHolds
<1>2. CASE AddCheck
  BY <1>2 DEF AddCheck
<1>3. CASE AddNoMemory
  BY <1>3 DEF AddNoMemory, OutOfMemory
<1>4. CASE AddMalloc
  BY <1>4 DEF AddMalloc, Allocate
<1>5. CASE AddTestFirst
  BY <1>5 DEF AddTestFirst
<1>6. CASE AddSetLast
  BY <1>6 DEF AddSetLast
<1>7. CASE AddSetFirst
  <2>1. last = new
    BY <1>7 DEF AddSetFirst, RaceInv, Created, Tearing, ListOK, WriterPointers
  <2> QED BY <1>7, <2>1 DEF AddSetFirst
<1>8. CASE AddLinkNext
  BY <1>8 DEF AddLinkNext, BadAccess
<1>9. CASE AddAdvanceLast
  BY <1>9 DEF AddAdvanceLast
<1>10. CASE AddLoadCount
  BY <1>10 DEF AddLoadCount
<1>11. CASE AddStoreCount
  BY <1>11 DEF AddStoreCount
<1>12. CASE AddStat
  BY <1>12 DEF AddStat
<1>13. CASE /\ WriterCalls("enter") \/ LeaveLoop("writer") \/ WriterSucceeds("return")
          /\ UNCHANGED localVars
  BY <1>13 DEF WriterCalls, LeaveLoop, WriterSucceeds
<1> QED BY <1>1, <1>2, <1>3, <1>4, <1>5, <1>6, <1>7, <1>8, <1>9, <1>10, <1>11,
           <1>12, <1>13
        DEF WriterStep

(* The steps of the reader keep the types.                                 *)
LEMMA ReaderTypes == RaceInv /\ ReaderStep => Types'
<1> SUFFICES ASSUME RaceInv, ReaderStep PROVE Types'
  OBVIOUS
<1>0. MaxCount \in Nat /\ MaxCount > 0 /\ NULL \notin Nodes
  BY QueueDataAssumption
<1>a. Types
  BY DEF RaceInv, Types
<1> USE <1>0, <1>a DEF Types, TypeOK, Step, Labels, ReaderLabels, queueVars, localVars,
                 listVars, readerVars, ProcStates
<1>1. CASE GetEnter
  BY <1>1 DEF GetEnter, AssertHolds
<1>2. CASE GetCheck
  BY <1>2 DEF GetCheck
<1>3. CASE GetLoadFirst
  BY <1>3 DEF GetLoadFirst
<1>4. CASE GetLoadVal
  BY <1>4 DEF GetLoadVal, BadAccess
<1>5. CASE GetLoadNext
  BY <1>5 DEF GetLoadNext, BadAccess
<1>6. CASE GetStoreFirst
  BY <1>6 DEF GetStoreFirst
<1>7. CASE GetFree
  BY <1>7 DEF GetFree, BadAccess, Free
<1>8. CASE GetLoadCount
  BY <1>8 DEF GetLoadCount
<1>9. CASE GetStoreCount
  BY <1>9 DEF GetStoreCount
<1>10. CASE GetStat
  BY <1>10 DEF GetStat
<1>11. CASE /\ ReaderCalls("enter") \/ LeaveLoop("reader") \/ ReaderSucceeds("return")
          /\ UNCHANGED localVars
  BY <1>11 DEF ReaderCalls, LeaveLoop, ReaderSucceeds
<1> QED BY <1>1, <1>2, <1>3, <1>4, <1>5, <1>6, <1>7, <1>8, <1>9, <1>10, <1>11
        DEF ReaderStep

(* Only main and the thread itself move a thread's label, and main stays   *)
(* in its order.                                                           *)
LEMMA WriterCreated == RaceInv /\ WriterStep => Created' /\ ~Tearing /\ Running
BY DEF RaceInv, TypeOK, Created, Tearing, WriterStep, Step, AddEnter, AddCheck,
       AddNoMemory, OutOfMemory, AddMalloc, AddTestFirst, AddSetLast, AddSetFirst,
       AddLinkNext, AddAdvanceLast, AddLoadCount, AddStoreCount, AddStat,
       WriterCalls, LeaveLoop, WriterSucceeds

(* The same for the reader.                                                *)
LEMMA ReaderCreated == RaceInv /\ ReaderStep => Created' /\ ~Tearing /\ Running
BY DEF RaceInv, TypeOK, Created, Tearing, ReaderStep, Step, GetEnter, GetCheck,
       GetLoadFirst, GetLoadVal, GetLoadNext, GetStoreFirst, GetFree, GetLoadCount,
       GetStoreCount, GetStat, ReaderCalls, LeaveLoop, ReaderSucceeds

(* The new node stays private until the store that publishes it, and what  *)
(* it is hung behind is the end of a live list, a freed node or nowhere.   *)
LEMMA WriterList == RaceInv /\ WriterStep /\ Running' => ListOK'
<1> SUFFICES ASSUME RaceInv, WriterStep, Running' PROVE ListOK'
  OBVIOUS
<1>a. TypeOK /\ i \in Int /\ got \in Int /\ expected \in Int
  BY DEF RaceInv
<1>b. PointerInv /\ ReaderPointers /\ WriterPointers /\ OrderInv
  BY WriterCreated DEF RaceInv, ListOK
<1>c. NULL \notin Nodes /\ WILD \notin Nodes \cup {NULL}
  BY QueueDataAssumption, WildAssumption
<1> USE <1>a, <1>b, <1>c
    DEF ListOK, PointerInv, ReaderPointers, WriterPointers, OrderInv, Unlinked,
        Linked, End, HasFirst, NextValue, TypeOK, Step, queueVars, localVars,
        listVars, readerVars
<1>1. CASE AddEnter
  BY <1>1 DEF AddEnter, AssertHolds
<1>2. CASE AddCheck
  BY <1>2 DEF AddCheck
<1>3. CASE AddNoMemory
  BY <1>3 DEF AddNoMemory, OutOfMemory, Running
<1>4. CASE AddMalloc
  <2>1. PointerInv'
    BY <1>4 DEF AddMalloc, Allocate
  <2>2. ReaderPointers'
    BY <1>4 DEF AddMalloc, Allocate
  <2>3. WriterPointers'
    BY <1>4 DEF AddMalloc, Allocate
  <2>4. OrderInv'
    BY <1>4 DEF AddMalloc, Allocate
  <2> QED BY <2>1, <2>2, <2>3, <2>4
<1>5. CASE AddTestFirst
  BY <1>5 DEF AddTestFirst
<1>6. CASE AddSetLast
  BY <1>6 DEF AddSetLast
<1>7. CASE AddSetFirst
  <2>1. PointerInv'
    BY <1>7 DEF AddSetFirst
  <2>2. ReaderPointers'
    BY <1>7 DEF AddSetFirst
  <2>3. WriterPointers'
    BY <1>7 DEF AddSetFirst
  <2>4. OrderInv'
    BY <1>7 DEF AddSetFirst
  <2> QED BY <2>1, <2>2, <2>3, <2>4
<1>8. CASE AddLinkNext
  <2>1. PointerInv'
    BY <1>8 DEF AddLinkNext, BadAccess, Running
  <2>2. ReaderPointers'
    BY <1>8 DEF AddLinkNext, BadAccess, Running
  <2>3. WriterPointers'
    BY <1>8 DEF AddLinkNext, BadAccess, Running
  <2>4. OrderInv'
    BY <1>8 DEF AddLinkNext, BadAccess, Running
  <2> QED BY <2>1, <2>2, <2>3, <2>4
<1>9. CASE AddAdvanceLast
  <2>1. PointerInv'
    BY <1>9 DEF AddAdvanceLast
  <2>2. ReaderPointers'
    BY <1>9 DEF AddAdvanceLast
  <2>3. WriterPointers'
    BY <1>9 DEF AddAdvanceLast
  <2>4. OrderInv'
    BY <1>9 DEF AddAdvanceLast
  <2> QED BY <2>1, <2>2, <2>3, <2>4
<1>10. CASE AddLoadCount
  BY <1>10 DEF AddLoadCount
<1>11. CASE AddStoreCount
  BY <1>11 DEF AddStoreCount
<1>12. CASE AddStat
  BY <1>12 DEF AddStat
<1>13. CASE /\ WriterCalls("enter") \/ LeaveLoop("writer") \/ WriterSucceeds("return")
           /\ UNCHANGED localVars
  BY <1>13 DEF WriterCalls, LeaveLoop, WriterSucceeds
<1> QED BY <1>1, <1>2, <1>3, <1>4, <1>5, <1>6, <1>7, <1>8, <1>9, <1>10, <1>11,
           <1>12, <1>13
        DEF WriterStep

(* The reader frees the head only after it has unlinked it.                *)
LEMMA ReaderList == RaceInv /\ ReaderStep /\ Running' => ListOK'
<1> SUFFICES ASSUME RaceInv, ReaderStep, Running' PROVE ListOK'
  OBVIOUS
<1>a. TypeOK /\ i \in Int /\ got \in Int /\ expected \in Int
  BY DEF RaceInv
<1>b. PointerInv /\ ReaderPointers /\ WriterPointers /\ OrderInv
  BY ReaderCreated DEF RaceInv, ListOK
<1>c. NULL \notin Nodes /\ WILD \notin Nodes \cup {NULL}
  BY QueueDataAssumption, WildAssumption
<1> USE <1>a, <1>b, <1>c
    DEF ListOK, PointerInv, ReaderPointers, WriterPointers, OrderInv, Unlinked,
        Linked, End, HasFirst, NextValue, TypeOK, Step, queueVars, localVars,
        listVars, readerVars
<1>1. CASE GetEnter
  BY <1>1 DEF GetEnter, AssertHolds
<1>2. CASE GetCheck
  BY <1>2 DEF GetCheck
<1>3. CASE GetLoadFirst
  BY <1>3 DEF GetLoadFirst
<1>4. CASE GetLoadVal
  <2>1. PointerInv'
    BY <1>4 DEF GetLoadVal, BadAccess, Running
  <2>2. ReaderPointers'
    BY <1>4 DEF GetLoadVal, BadAccess, Running
  <2>3. WriterPointers'
    BY <1>4 DEF GetLoadVal, BadAccess, Running
  <2>4. OrderInv'
    BY <1>4 DEF GetLoadVal, BadAccess, Running
  <2> QED BY <2>1, <2>2, <2>3, <2>4
<1>5. CASE GetLoadNext
  BY <1>5 DEF GetLoadNext, BadAccess, Running
<1>6. CASE GetStoreFirst
  <2>1. PointerInv'
    BY <1>6 DEF GetStoreFirst
  <2>2. ReaderPointers'
    BY <1>6 DEF GetStoreFirst
  <2>3. WriterPointers'
    BY <1>6 DEF GetStoreFirst
  <2>4. OrderInv'
    BY <1>6 DEF GetStoreFirst
  <2> QED BY <2>1, <2>2, <2>3, <2>4
<1>7. CASE GetFree
  <2>1. PointerInv'
    BY <1>7 DEF GetFree, BadAccess, Free, Running
  <2>2. ReaderPointers'
    BY <1>7 DEF GetFree, BadAccess, Free, Running
  <2>3. WriterPointers'
    BY <1>7 DEF GetFree, BadAccess, Free, Running
  <2>4. OrderInv'
    BY <1>7 DEF GetFree, BadAccess, Free, Running
  <2> QED BY <2>1, <2>2, <2>3, <2>4
<1>8. CASE GetLoadCount
  BY <1>8 DEF GetLoadCount
<1>9. CASE GetStoreCount
  BY <1>9 DEF GetStoreCount
<1>10. CASE GetStat
  BY <1>10 DEF GetStat
<1>11. CASE /\ ReaderCalls("enter") \/ LeaveLoop("reader") \/ ReaderSucceeds("return")
           /\ UNCHANGED localVars
  BY <1>11 DEF ReaderCalls, LeaveLoop, ReaderSucceeds
<1> QED BY <1>1, <1>2, <1>3, <1>4, <1>5, <1>6, <1>7, <1>8, <1>9, <1>10, <1>11
        DEF ReaderStep

(* The node the reader holds is the head, or the head it has unlinked.     *)
LEMMA ReaderLive == RaceInv /\ ReaderStep /\ Types' => ReaderHoldsLiveNode'
<1> SUFFICES ASSUME RaceInv, ReaderStep, Types' PROVE ReaderHoldsLiveNode'
  OBVIOUS
<1>a. TypeOK' /\ TypeOK
  BY DEF Types, RaceInv
<1>b. PointerInv /\ ReaderPointers
  BY ReaderCreated DEF RaceInv, ListOK
<1> USE <1>a, <1>b DEF ReaderHoldsLiveNode, PointerInv, ReaderPointers, HasFirst,
                       TypeOK, Step, queueVars, localVars, listVars
<1>1. CASE GetLoadFirst
  BY <1>1 DEF GetLoadFirst
<1>2. CASE GetLoadVal
  BY <1>2 DEF GetLoadVal
<1>3. CASE GetLoadNext
  BY <1>3 DEF GetLoadNext
<1>4. CASE GetStoreFirst
  BY <1>4 DEF GetStoreFirst
<1> QED BY <1>1, <1>2, <1>3, <1>4
        DEF ReaderStep, GetEnter, GetCheck, GetFree, GetLoadCount, GetStoreCount,
            GetStat, ReaderCalls, LeaveLoop, ReaderSucceeds

(* The writer only adds to the heap.                                       *)
LEMMA WriterLive == RaceInv /\ WriterStep /\ Types' => ReaderHoldsLiveNode'
BY DEF RaceInv, Types, TypeOK, ReaderHoldsLiveNode, WriterStep, Step, AddEnter,
       AddCheck, AddNoMemory, OutOfMemory, AddMalloc, Allocate, AddTestFirst,
       AddSetLast, AddSetFirst, AddLinkNext, AddAdvanceLast, AddLoadCount,
       AddStoreCount, AddStat, WriterCalls, LeaveLoop, WriterSucceeds, localVars,
       queueVars, listVars

(* The monitor changes nothing but its label.                              *)
LEMMA MonitorRace == RaceInv /\ MonitorStep => RaceInv'
<1> SUFFICES ASSUME RaceInv, MonitorStep PROVE RaceInv'
  OBVIOUS
<1> USE DEF RaceInv, MonitorStep, MonitorCalls, TriesAgain, LeaveLoop, Step, localVars,
            queueVars, listVars, readerVars
<1>1. Types'
  BY DEF Types, TypeOK, Labels
<1>2. /\ pc'["main"] = pc["main"] /\ pc'["reader"] = pc["reader"]
      /\ pc'["writer"] = pc["writer"]
  BY DEF TypeOK
<1>3. Created' /\ ReaderHoldsLiveNode' /\ (Tearing' <=> Tearing) /\ (Running' <=> Running)
  BY <1>1, <1>2 DEF Types, Created, Tearing, ReaderHoldsLiveNode, Running
<1>4. ListOK => ListOK'
  BY <1>2 DEF ListOK, PointerInv, ReaderPointers, WriterPointers, OrderInv, Unlinked,
              Linked, End, HasFirst, NextValue
<1> QED BY <1>1, <1>3, <1>4 DEF Types

(* main leaves the list alone until both workers are joined.               *)
LEMMA MainRace == RaceInv /\ MainStep /\ UNCHANGED localVars => RaceInv'
<1> SUFFICES ASSUME RaceInv, MainStep, UNCHANGED localVars PROVE RaceInv'
  OBVIOUS
<1>a. Types /\ Created /\ ReaderHoldsLiveNode
  BY DEF RaceInv, Types
<1>b. Tearing => pc["reader"] = "done"
  BY <1>a DEF Created
<1>c. ASSUME UNCHANGED <<i, readerVars, listVars>>, ListOK,
             \A t \in {"reader", "writer"} :
               pc'[t] = pc[t] \/ (pc[t] = "none" /\ pc'[t] = "loop")
      PROVE  ListOK'
  BY <1>c DEF ListOK, PointerInv, ReaderPointers, WriterPointers, OrderInv, Unlinked,
              Linked, End, HasFirst, NextValue, localVars, readerVars, listVars
<1> USE DEF Step, queueVars, localVars, readerVars, mainVars, Types, TypeOK, Labels,
            MainLabels, Threads, ProcStates
<1>1. CASE CreateMonitor \/ CreateReader \/ CreateWriter
  <2> USE <1>1 DEF CreateMonitor, CreateReader, CreateWriter, Create
  <2>1. Types'
    BY <1>a DEF listVars
  <2>2. Created' /\ ~Tearing /\ Running
    BY <1>a DEF Created, Tearing
  <2>3. ReaderHoldsLiveNode'
    BY <1>a, <2>1 DEF ReaderHoldsLiveNode, listVars
  <2>4. ListOK'
    BY <1>a, <1>c, <2>2 DEF RaceInv, Created
  <2> QED BY <2>1, <2>2, <2>3, <2>4 DEF RaceInv
<1>2. CASE CreateFails
  <2> USE <1>2 DEF CreateFails
  <2>1. Types' /\ ~Running'
    BY <1>a DEF Running, listVars
  <2>2. Created' /\ ReaderHoldsLiveNode'
    BY <1>a DEF Created, Tearing, ReaderHoldsLiveNode, listVars
  <2> QED BY <2>1, <2>2 DEF RaceInv
<1>3. CASE SetStop \/ JoinReader \/ JoinWriter \/ DestroyStop
  <2> USE <1>3 DEF SetStop, JoinReader, JoinWriter, Join, DestroyStop
  <2>1. Types'
    BY <1>a DEF listVars
  <2>2. Created' /\ ~Tearing /\ Running
    BY <1>a DEF Created, Tearing
  <2>3. ReaderHoldsLiveNode'
    BY <1>a, <2>1 DEF ReaderHoldsLiveNode, listVars
  <2>4. ListOK'
    BY <1>a, <1>c, <2>2 DEF RaceInv
  <2> QED BY <2>1, <2>2, <2>3, <2>4 DEF RaceInv
<1>4. CASE JoinMonitor \/ FreeNode \/ FreeNodesDone \/ FreeQueue
  <2> USE <1>4 DEF JoinMonitor, FreeNode, FreeNodesDone, FreeQueue
  <2>1. Types'
    BY <1>a DEF Free, listVars
  <2>2. Created' /\ Tearing' /\ pc'["reader"] = "done"
    BY <1>a DEF Created, Tearing
  <2>3. ReaderHoldsLiveNode'
    BY <2>1, <2>2 DEF ReaderHoldsLiveNode
  <2> QED BY <2>1, <2>2, <2>3 DEF RaceInv
<1> QED BY <1>1, <1>2, <1>3, <1>4 DEF MainStep

(* The races keep the list in shape.                                       *)
THEOREM ListKeepsShape == Spec => []RaceInv
<1>1. Init => RaceInv
  <2> SUFFICES ASSUME Init PROVE RaceInv
    OBVIOUS
  <2> USE QueueDataAssumption, WildAssumption DEF Init, ProgramInit, QueueInit
  <2>1. TypeOK /\ i \in Int /\ got \in Int /\ expected \in Int
    BY DEF TypeOK, ProcStates, Labels, MainLabels
  <2>2. Created /\ ReaderHoldsLiveNode
    BY <2>1 DEF Created, Tearing, ReaderHoldsLiveNode
  <2>3. ListOK
    BY DEF ListOK, PointerInv, ReaderPointers, WriterPointers, OrderInv, Unlinked,
           Linked, End, HasFirst, NextValue
  <2> QED BY <2>1, <2>2, <2>3 DEF RaceInv
<1>2. RaceInv /\ [Next]_vars => RaceInv'
  <2> SUFFICES ASSUME RaceInv, [Next]_vars PROVE RaceInv'
    OBVIOUS
  <2>1. CASE WriterStep
    BY <2>1, WriterTypes, WriterCreated, WriterList, WriterLive DEF RaceInv, Types
  <2>2. CASE ReaderStep
    BY <2>2, ReaderTypes, ReaderCreated, ReaderList, ReaderLive DEF RaceInv, Types
  <2>3. CASE UNCHANGED vars
    BY <2>3 DEF vars, queueVars, listVars, programVars, readerVars, localVars, RaceInv,
                TypeOK, Created, Tearing, Running, ReaderHoldsLiveNode, ListOK,
                PointerInv, ReaderPointers, WriterPointers, OrderInv, Unlinked, Linked,
                End, HasFirst, NextValue
  <2> QED BY <2>1, <2>2, <2>3, MonitorRace, MainRace DEF Next, Ended
<1> QED BY <1>1, <1>2, PTL DEF Spec

(* The reader reads and frees no node that was freed before.               *)
THEOREM ReaderHoldsLiveNodeAlways == Spec => []ReaderHoldsLiveNode
<1>1. RaceInv => ReaderHoldsLiveNode
  BY DEF RaceInv
<1> QED BY <1>1, ListKeepsShape, PTL

(* queue_get returns with a value above all that reader got before; what   *)
(* the other threads do until reader compares it does not matter.          *)
LEMMA ComparesForward ==
  RaceInv /\ NeverBackwards /\ [Next]_vars => NeverBackwards'
<1> SUFFICES ASSUME RaceInv, NeverBackwards, [Next]_vars PROVE NeverBackwards'
  OBVIOUS
<1>0. pc \in [Threads -> Labels]
  BY DEF RaceInv, TypeOK
<1>1. CASE ReaderStep
  <2>1. CASE GetStat
    <3>1. pc["reader"] = "stat" /\ OrderInv
      BY <2>1, <1>1, ReaderCreated DEF GetStat, Step, RaceInv, ListOK
    <3>2. expected <= got /\ expected \in Int /\ got \in Int
      BY <3>1 DEF OrderInv, RaceInv
    <3>3. UNCHANGED <<expected, got>>
      BY <2>1 DEF GetStat, readerVars
    <3> QED BY <3>2, <3>3 DEF NeverBackwards
  <2>2. CASE ~GetStat
    <3>1. pc'["reader"] # "return"
      BY <1>0, <1>1, <2>2
         DEF ReaderStep, Step, GetEnter, GetCheck, GetLoadFirst, GetLoadVal,
             GetLoadNext, GetStoreFirst, GetFree, GetLoadCount, GetStoreCount,
             ReaderCalls, LeaveLoop, ReaderSucceeds
    <3> QED BY <3>1 DEF NeverBackwards
  <2> QED BY <2>1, <2>2
<1>2. CASE WriterStep
  BY <1>0, <1>2
     DEF NeverBackwards, WriterStep, Step, AddEnter, AddCheck, AddNoMemory, OutOfMemory,
         AddMalloc, AddTestFirst, AddSetLast, AddSetFirst, AddLinkNext, AddAdvanceLast,
         AddLoadCount, AddStoreCount, AddStat, WriterCalls, LeaveLoop, WriterSucceeds,
         readerVars
<1>3. CASE MainStep
  BY <1>0, <1>3
     DEF NeverBackwards, MainStep, Step, CreateMonitor, CreateReader, CreateWriter,
         Create, CreateFails, SetStop, JoinReader, JoinWriter, Join, DestroyStop,
         JoinMonitor, FreeNode, FreeNodesDone, FreeQueue, readerVars
<1>4. CASE MonitorStep
  BY <1>0, <1>4
     DEF NeverBackwards, MonitorStep, Step, MonitorCalls, TriesAgain, LeaveLoop,
         readerVars
<1>5. CASE UNCHANGED vars
  BY <1>5 DEF NeverBackwards, vars, programVars, readerVars
<1> QED BY <1>1, <1>2, <1>3, <1>4, <1>5 DEF Next, Ended

(* No value that reader compares is one it got or passed over before.      *)
THEOREM NeverBackwardsAlways == Spec => []NeverBackwards
<1>1. Init => NeverBackwards
  BY DEF Init, ProgramInit, NeverBackwards
<1> QED BY <1>1, ListKeepsShape, ComparesForward, PTL DEF Spec
=============================================================================

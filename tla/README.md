# Specifications of Operating-Systems_2_NSU

TLA+ models, TLC configurations and TLAPS proofs for the programs of this
repository: one bounded producer/consumer queue written five times with
different synchronisation (`src/Synchronization`), an HTTP proxy with a thread
per client (`src/proksi`), and a set of small thread programs
(`src/WorkWithTreads`), among them a thread library on `clone`. All of them are
modelled; section 5 lists what is left out.

## 1. Inventory

| component | state | operations | interacts through |
|---|---|---|---|
| queue structure (`*/queue.c`, `queue.h`) | `first`, `last`, heap nodes (`val`, `next`), `count`, four statistics | `queue_init`, `queue_add`, `queue_get`, `queue_print_stats`, `queue_destroy` | shared memory between writer, reader, monitor, main |
| program around it (`*/queue-threads.c`, `qmonitor`) | `q->stop`, loop variables `i`, `val`, `expected` | `main`, `reader`, `writer`, `qmonitor` | thread creation, `q->stop`, joins, process exit |
| 2.1 | no lock | as above | racing loads and stores |
| 2.2/a-c+d | spinlock | as above, returns 0 when full or empty | `lock` |
| 2.2/e | mutex | the same | `lock` |
| 2.2/f | mutex, `not_full`, `not_empty` condition variables | waits when full or empty | `lock`, signals |
| 2.2/g | mutex, `not_full`, `not_empty` semaphores | waits when full or empty | `lock`, tokens |
| `queue-example.c`, `start`, logs | - | ten adds and twelve gets in one thread; parameter sweeps | - |
| proxy, accept loop (`proxy.c:312-372`) | `flag_is_working`, listening socket | `main`, `handle_sigint` | SIGINT, `accept`, `pthread_create`, process exit |
| proxy, handler (`proxy.c:100-310`) | two descriptors, request buffer, counters | `client_handler`, `connect_to_host`, `another_method` | client and server sockets |
| proxy, headers (`http.c`) | automaton state, buffer | `http_read_headers`, `http_get_content_length` | `read` |
| threads 1.1-1.3 | `global_var`, thread ids, argument memory | create, join, detach | shared and heap memory |
| threads 1.4 | a heap string, cancellation state | `pthread_cancel`, cleanup handlers | cancellation requests |
| threads 1.5 | signal masks, dispositions | `sigaction`, `sigwait`, masks | SIGINT, SIGQUIT |
| threads 1.6 | stack, `shared` descriptor, `exited` | `mythread_create`, `mythread_startup`, `mythread_join` | `exited` (release/acquire) |

What is hard in this code: interleavings of four threads on one structure;
freed nodes whose address returns; early returns that must unlock; wakeups and
tokens that must not get lost; a shutdown flag that blocked threads never look
at; teardown that must come after every other access; in the proxy, peers that
end, fail or fall silent at any read or stop reading, thread creation that
fails unseen and a signal that races with `accept`; in the thread programs,
memory that is released while its thread still runs. `hazards` in
`PROJECT.json` lists each one at its line, with the properties that cover it.

What makes each component correct:

* every queue: first in, first out, nothing lost, repeated or invented; count,
  statistics and list agree whenever nobody is inside; a bound that is never
  exceeded; no access to freed memory; teardown after the last access;
* lock queues: they never block for ever; condition variables: no lost wakeup;
  semaphores: tokens equal places; 2.1: whatever part of this the races leave;
* proxy: each descriptor closed exactly once, one status line per response,
  the body forwarded in order up to `Content-Length`, SIGINT leads to an end;
* mythread: the stack and the record are there until the thread sets its flag,
  `join` returns the value the routine returned, all is released in the end;
* thread programs: an argument outlives its reader, each block is freed once,
  each thread is joined or detached, a signal is neither lost nor fatal.

## 2. Modules

    QueueData         fields, heap, list surgery             (no synchronisation)
      QueueProgram    main, the loops of the threads, teardown
        GuardedQueue  2.2: what one lock guards, the queue's properties
          LockQueue   2.2/a-c+d and 2.2/e                    one lock
          CondQueue   2.2/f                                  mutex, condition variables
          SemQueue    2.2/g                                  mutex, semaphores
        RaceQueue     2.1                                    one step per memory access
    Fifo            what queue.h promises: the abstract bounded buffer

    HandlerContract what the accept loop relies on: a handler's descriptors
      Proxy         proxy.c main, SIGINT, handlers by their contract
      ProxyHandler  proxy.c client_handler against its peers, keeps the contract
    HttpHeaders     http.c

    MyThread        1.6, threads on clone
    SignalThreads   1.5, signal masks
    ThreadPrograms  1.1 to 1.4, creation, joining, detaching, cancellation

    MCxxx           the instances for TLC
    GuardedQueueProofs, LockQueueProofs, CondQueueProofs, SemQueueProofs,
    RaceQueueProofs, ProxyProofs, ProxyHandlerProofs, ThreadsProofs    theorems

**QueueData / QueueProgram.** The five copies of `queue.c` and
`queue-threads.c` agree in structure and differ in the synchronisation, so what
they share is modelled once; `map` points at the copy in `2.2/e` for it, and at
each directory's own files for what is specific (its operations, its four
threads, its structure). A queue node is an address; `heap` is the set of the
allocated ones, and `val` and `next` are functions on it, so an access to a
freed node is an application outside the domain and is modelled as a crash, not
as a value. `malloc` returns any free address, hence also the one just freed.
Each thread has a label in `pc`; `proc` is the process: `running`, `exited`
(main returned), `aborted`, `assert_failed` or `crashed`, and when it is not
`running` nothing happens any more (`Ended`). Failing `pthread_create` and
`malloc` are modelled (`CreateFails`, `OutOfMemory`).

**GuardedQueue.** The four queues of 2.2 do the same behind their tests: link
or unlink a node, move `count`, move a statistics counter, and print the
statistics under the lock. `GuardedQueue` has these actions once, with the lock
as the thread that holds it, and the properties every such queue owes
(`MutualExclusion`, `FifoOrder`, `NoCrash`, `StatsConsistent`, `ListIntact`,
`TeardownSafe`, the refinement mapping `Buffer` to `Fifo`). Each queue adds how
a call enters, waits and leaves. Inside the lock the list surgery, `count` and
the statistics change in separate steps, although no other thread may look:
that they cannot is what `MutualExclusion`, `StatsConsistent` and `NoCrash`
establish, and dropping a lock (see the mutants) breaks them. The accesses to
`first`, `last` and the heap within one call are a single step: they lie in one
critical section, and the theorems below say that no two threads are ever in
one at the same time. `q->last->next = new` kills the process on a null tail
and loses the write or kills on a freed one (`LinkOutcomes`); that neither
happens is a part of `NoCrash` and `ListInv`. A read of freed memory that does
not fault is not a state of its own. 2.1, which has no lock, is modelled access
by access.

**LockQueue.** A call on a full or an empty queue unlocks and returns 0.

**CondQueue.** `not_full` and `not_empty` are the sets of threads asleep.
`pthread_cond_wait` releases and sleeps in one step, a signal wakes one
sleeper, and a woken thread needs the mutex before it tests again.
`SpuriousWakeup` may wake a thread at any time.

**SemQueue.** The semaphores are numbers; taking a token and posting one are
steps outside the lock, as in the code. `queue_init` never initialises the
mutex; it is modelled unlocked, see the comment in the module.

**RaceQueue.** One step per load or store, in the order in which the committed
unoptimised binary performs them. Data races are undefined behaviour in C; the
module allows the outcomes that binary can show: interleaved word accesses,
a death on a null or wild pointer, a write through a dangling `q->last` that is
lost or kills the process, a read through it that returns what is there. The
writes of `queue_add` into a new node (`val`, `next`) are one step with the
`malloc`: nobody else has its address yet. A statistics counter has one writer
and is one step.

**HttpHeaders.** `http_read_headers` byte by byte, over symbols that stand for
CR, LF, blank or tab, digit, the key `Content-Length:` and anything else (what
else `strtoull` accepts, a sign, \v, \f, and a NUL are not among them). `read`
may fail; its result is kept in a `size_t`, so a failure is not seen and the
byte read last is stored once more (before the first byte: whatever `c` holds).
`http_get_content_length` is an operator on what was stored; the length is the
set of positions of the digits that `strtoull` takes.

**ProxyHandler.** One handler is sequential; what varies is its peers. A
request and a response are chosen in the first state: the class of the head,
the declared length, the units of body that really come, and how the stream
ends (`eof`, `reset`, `silent`). A patient server answers only when it has the
request and the declared body. `read` takes any part of what is there. A write
takes any part of what it is given, one turn of the loop of `write_all` at a
time; it may fail at any turn, and it may block for ever (`Stall`), which is
what a peer does that keeps its connection and no longer reads. Error pages are
writes too: a failing step of the handler leads to the place `page` with the
code to send, and `SendPage` is the call of `send_http_error`. `socket`, name
resolution and `connect` may fail. Each action is one call of the code with
what follows it up to the next; `pc` names the place. `toClient` is what was
written to the client in order, `uploaded` the body written to the server. The
request line is a sequence of symbols with a byte each, because
`client_handler` rewrites it in place by counting bytes.

**HandlerContract, Proxy.** The contract is the life of a handler's two
descriptors. `ProxyHandler` implements it (`KeepsContract`); `Proxy` composes
`main` with one contract per client, so that its state space does not carry the
transfers. `client` is where a connection is: in the queue of the listening
socket, held by main, served by a handler, leaked by a failed `pthread_create`,
closed. SIGINT is taken by main or by a handler: taken by main inside `accept`
it ends the call, otherwise only `flag_is_working` changes. Before `sigaction`
it kills. The descriptor table is bounded (`MaxFds`): with a full table `accept`
fails, and so does `socket` in a handler. `pthread_detach` of an unset or old
thread id may do nothing or crash.

**MyThread.** `mythread_create` is `mmap`, `malloc`, `clone`, each of which may
fail; the thread computes, stores its result, sets `exited`, and then still has
to print and return on its stack (`Epilogue`, or `EpilogueFaults` if the stack
is gone; that it may print from a record already freed is not observed);
`mythread_join` polls `exited`, frees the record, unmaps the stack. `N` threads
stand for the two of `main`. The argument is in main's frame: a thread that
reads it after main has returned gets `Garbage`.

**SignalThreads.** Masks per thread (a created thread inherits its creator's),
one handler for the process, pending signals as a set. The kernel delivers a
pending signal in any thread that does not block it.

**ThreadPrograms.** Nine programs (1.4.a and 1.4.b behave alike) as records:
how many threads, detached how, argument where, body, what main does, what it
does when `pthread_create` fails. The steps are shared; the first state chooses
the program. `pthread_join` on the id that a failed `pthread_create` left unset
(1.2.c) is undefined: it returns, crashes or hangs (`JoinUnset`).

`HttpHeaders`, `SignalThreads` and `ThreadPrograms` name their specifications
`HeadersSpec`, `SignalSpec` and `ProgramSpec` (and so on), so that one module
can extend them together with `Proxy` and `MyThread` and prove theorems about
both.

## 3. Runs

| run | instance | what it shows |
|---|---|---|
| `lockqueue` | capacity 3, 6 calls, 4 addresses (symmetric) | `MutualExclusion`, `FifoOrder`, `NoCrash`, `StatsConsistent`, `ListIntact`, `TeardownSafe`, and the inductive invariant `IndInv`, which contains the type invariant |
| `lockqueue_live` | capacity 2, 3 calls, 3 addresses | `Termination` under fairness, `ImplementsFifo` (refinement of `Fifo`) |
| `condqueue` | capacity 3, 5 calls, 4 addresses | `NoLostWakeup`, `QueueSafe` (types, order, intact list, teardown), `StopSettles`, `ImplementsFifo` |
| `semqueue` | capacity 3, 5 calls, 4 addresses | `TokensMatchCount`, `NeverRefused`, `QueueSafe`, `StopSettles`, `ImplementsFifo` |
| `racequeue` | capacity 2, 5 calls, 3 addresses (symmetric) | what the races cannot break: `AssertionsHold` with its reason `CountInv`, `ReaderHoldsLiveNode`, `NeverBackwards` |
| `race_order` | capacity 2, 3 calls, 3 addresses | expected violation of `FifoOrder`: the program's own ERROR line |
| `headers` | buffer of 8, 2 failing reads | `EndsAtTerminator`: the reader stops exactly at the end of the headers, but for the exceptions it names; `LengthFromItsLine`: the length comes from the first field that has one, unless the field is blank |
| `handler` | bodies of up to 2 units | `OneAnswer`, `RelayExact`, `ForwardsOriginForm`, `Settles` (liveness), `KeepsContract` (refinement of `HandlerContract`) |
| `proxy` | 3 clients, 5 descriptors, 2 signals | `DescriptorsOwned`, `StopsServing`, `SigintStops` and `QueueServed` (liveness) |
| `mythread` | 3 threads | `LiveMemory`, `JoinedAndReleased`, `Terminates` (liveness) |
| `signals` | each signal sent twice | `SafeDelivery`, `NoSignalLost` (liveness) |
| `threads` | 5 threads | `LifetimesHold`, `JoinsReturn` (liveness) |

Bounds. `MaxAttempts` limits the calls of each worker; it stands for the time
main sleeps. With more calls than places the queue fills, refuses or blocks,
drains, and is refilled. `Nodes` has one address more than the capacity, so
`malloc` finds an address (in 2.1 lost nodes can use them up, and then it only
fails), may hand out a freed address while others are linked,
and a stale pointer can meet a reused node. Two places are the least that tells
first from last; the first run uses three, so that there is a node in the
middle. `CHECK_DEADLOCK FALSE` in the runs of 2.2/f and 2.2/g: these programs
really can hang in their joins (below). The value bound of the
refinement, `0 .. MaxAttempts`, covers every value the writer reaches.

The bounds of the other runs. A buffer of eight symbols holds a terminator, a
CR in front of it, or a field with a number and its line end; two failures can
repeat a CR and an LF. Two units of body are the least that a read can split,
and let a body be shorter or longer than declared, and each of the two declare
nothing. Three clients, five descriptors: main can hold one client while another
is served and a third waits, and one open host fills the table. Two signals:
one that a handler takes, one for main. `N` in `mythread` is one more than the
program creates; `MaxThreads` in `threads` is what 1.1 creates, and for the
endless loops of 1.2.d and 1.2.f it stands for the limit at which
`pthread_create` fails. These runs say `CHECK_DEADLOCK FALSE`, because the
programs end, or wait on a peer that stays silent or does not read.

Fairness. Weak fairness for each thread: an operating system runs every thread
that can run. No thread gets strong fairness, because neither a spinlock nor a
default mutex promises a turn; `Termination` and `StopSettles` hold without it,
since after `q->stop` each worker makes a bounded number of lock acquisitions.
In `CondQueue` the liveness properties also assume that spurious wakeups end
at some time (`<>[][~SpuriousWakeup]_vars`); none is ever required to happen.
The handler is weakly fair as a whole: it is one thread, and it can step
wherever no peer holds it. A peer holds it in a read (`Starved`) or in a write
that blocks (`stalled`); neither has a timeout, so both are states without a
step, and `WaitsForPeer` names both. Nothing is assumed of the peers. In
`Proxy` only main is fair: nothing about the handlers is needed, and a handler
may well stay open for ever. Signals are delivered in the end (`Delivery`), as
the kernel does when a thread that does not block them runs.

Results worth knowing:

* 2.2/f and 2.2/g: `StopSettles` says exactly what shutdown can do. The process
  ends, or one worker has seen `q->stop` and the other waits for it on an empty
  (or full) queue, so main never returns from `pthread_join`: the waits do not
  look at `q->stop`. `Stranded` describes these states, and there is no other
  way to hang. In practice the `start` script kills the program after 15
  seconds, before `sleep(150)` ends.
* `Fifo` closes before it discards: a value may be dropped only by
  `queue_destroy`, after the joins (`closed <- Tearing`).
* 2.1: count never leaves `0 .. max_count` although both threads update it
  without a lock, so the assertions hold; with one writer and one reader a
  stale load is always one the other side's test had allowed. Values are lost
  (the finding), but never repeated or reordered: where the reader compares,
  the value is at least the one expected (`NeverBackwards`).
* 2.2/g: the tests for full and empty that were kept from the earlier version
  are dead code; had they fired they would have lost a token.
* Header reader: a peer cannot make it see an end that was not sent, except by
  a read that fails before the first byte. It misses an end with a CR in front
  (CR CR LF CR LF): the second CR leads back to state 0.
* Handler: an error page follows a part of an answer in one case only, when the
  server's stream breaks after its head. A spare blank in the request line
  moves bytes of the host name in front of the path, and for a URL without a
  path the server gets none: the `"/"` that is put into `path` is never used.
  A handler can be held for ever by a silent peer or by one that stops reading:
  no read and no write has a timeout, so an answer to HEAD with a length, an
  answer without a length on a connection that stays open, or a client that
  keeps its connection and takes no more of the answer, keeps its thread and
  both descriptors.
* Proxy: after SIGINT the server can wait for one more client, if the signal
  fell between the test of the flag and `accept` or went to a handler; that
  client is turned away. Any failed `accept` stops the server.
* mythread: the only ways to crash are a routine that finds no memory, and a
  join that unmaps the stack before its thread, which has set the flag, has
  returned.

## 4. Proofs

TLAPS proves the theorems below for every value of the constants: every
capacity, number of calls and set of addresses, any number of clients,
descriptors, threads and signals, bodies, headers and buffers of any size. Every
invariant and every refinement that a run checks is proved. The assumptions
are those in the modules: a positive capacity and a null pointer that is no
address (`QueueDataAssumption`), `WildAssumption`, `ProxyAssumption` (finitely
many clients, room for one descriptor), and natural or positive numbers
(`MaxAttemptsAssumption`, `HandlerAssumption`, `HttpAssumption`,
`MyThreadAssumption`, `SignalAssumption`, `ThreadProgramsAssumption`).

The large inductive invariants stand in the modules they are about (`IndInv` of
the three queues, `RaceInv`, `HandlerInv`), not in the proofs, so that TLC can
check them too; the others stand with the theorems they are for. The run
`lockqueue` does so all the time, for the invariant the three queues share; the
others were checked on the instances of their runs before they were proved, and
adding their names to the `INVARIANTS` of `MCCondQueue.cfg`, `MCSemQueue.cfg`,
`MCRaceQueue.cfg` and `MCProxyHandler.cfg` repeats that after a change.

### The guarded queues (2.2/a-c+d, e, f, g)

`GuardedQueueProofs` proves once what the three modules share.

* *The list.* `ListHolds(lo, hi)` says that the heap is exactly one list whose
  nodes carry lo .. hi-1 in order. Linking hi gives `ListHolds(lo, hi+1)`
  (`LinkNodeExtends`), unlinking gives `ListHolds(lo+1, hi)` and yields lo
  (`UnlinkFirstShortens`), freeing the head of a chain shortens it. Because the
  writer sends consecutive numbers, the value identifies the node and order is
  arithmetic; no induction over the list is needed.
* *A bound on the steps.* `QueueStep` is a next-state relation that leaves open
  how threads wait: it contains the updates of `GuardedQueue`, the steps of
  main, and `ControlStep`, in which a thread moves from any label to any other
  as long as the lock goes with the labels, an update is entered only when the
  queue is not full (not empty), and no data changes.
* *`QueueStepInv`*: a `QueueStep` keeps `QueueInv`, the conjunction of the
  types and of `LockInv` (inside exactly if holding the lock), `MainInv` (which
  threads exist at which point of main), `CountInv` (count against the list,
  with the pending updates of a thread inside; what a call tested still holds
  when it acts), `ListInv` (the list is the interval of values linked and not
  unlinked, and shrinks during teardown), `ValueInv` (i and expected against
  the statistics), and of three properties. None of the properties is inductive
  alone: `FifoOrder` needs the order of the list, that needs `count` to be
  exact in the middle of an update, and that needs the lock.
* *`QueueStepFifo`*: a `QueueStep` is a step of `Fifo` under the refinement
  mapping, or changes nothing the mapping shows. The mapping walks the list with
  a recursive function. `QueuedIs` gets rid of it: for a chain that carries
  lo .. hi-1 the sequence it collects is that interval, because the node with
  value v is reached after v - lo steps. That the recursive function exists is
  shown by exhibiting it, and what it returns by a least counterexample
  (`LeastElement`), not by an induction theorem with an operator parameter.

`LockQueueProofs`, `CondQueueProofs` and `SemQueueProofs` then show that each
step of their module is a `QueueStep`, or leaves the queue alone, as a spurious
wakeup does, and that labels and number of calls stay in bounds. Each of them
proves `Invariance` (`Spec => []IndInv`), the safety properties of its run, and
`Refinement` (`Spec => ImplementsFifo`). What is particular to them:

* `CondQueue`: `NoLostWakeup` is inductive together with `SleepInv` (who sleeps
  on a condition stands in its wait) and `QueueInv`. A value can be added while
  the reader sleeps only by the writer, which then stands at `stat` or `signal`;
  its signal finds at most one sleeper, so the sleeper is the one it wakes.
* `SemQueue`: `TokenInv` is `TokensMatchCount` with the tokens in hand of a
  thread inside the mutex. It holds at every step, and the tests for full and
  empty are refuted by it: a writer past `sem_wait` has a token, so
  `count < max_count`.

*The end of these programs.* Liveness under fairness cannot be proved here, but
its two safety parts can, and they are where the argument could be wrong.

* Nothing goes on for ever. `StepsLeft` (`GuardedQueueProofs`) counts the steps
  left after `q->stop = 1`: `After` gives each label of a worker, of the
  monitor and of main the steps from there to the end, and teardown adds one
  per node. `StageInv` says which threads exist while main still creates them.
  `StopIsBounded`, in each of the three modules, says that every step after the
  stop lowers the count and that it is at most `MaxCount + 69` up to the end of
  the joins; so no thread can be kept from its end by the others taking turns
  at the lock. In `CondQueue` a wait can be repeated, so `CondLeft` also counts
  who is awake (bound `MaxCount + 73`): a spurious wakeup adds at most two,
  every other step lowers it.
* Who stands still. `MainBlocked`, `WorkerBlocked` and `Blocked` say from the
  guards when a thread has no step (a join whose thread has not ended, a lock
  held by another, no token, asleep). ENABLED is beyond the prover; TLC was used
  to compare these definitions with ENABLED on small instances of all three
  queues, where they agree in every reachable state. `SomeoneGoesOn`: in
  `LockQueue` somebody can always go on. `OnlyStranding`: in `CondQueue` and
  `SemQueue`, when main and both workers are blocked, the state is `Stranded`.
* The hang is real and permanent: `StrandedForEver`. In `SemQueue` a stranded
  state never changes back; in `CondQueue` a spurious wakeup may lift the worker
  out of its wait for a moment, but it finds the queue as it was (`Hung`), and
  main never gets past its joins. Before that, the workers never wait for each
  other: `NeverBothAsleep`, `NeverBothWait`.

### 2.1 without a lock

`RaceQueueProofs`: `CountBounded` and `AssertionsHoldAlways`, for which the
invariant carries the loaded value of the non-atomic `count++` and `count--`.
`ListKeepsShape` is about the list. Nodes get lost, and `last` may point
anywhere, so it cannot be described as one list; `RaceInv` says what remains
true between any two loads and stores: no two live nodes have the same
successor, nothing points at the head but the node being freed, nobody but the
writer knows a new node before it is linked, the value of a node is below that
of its successor, and everything still reachable is above what the reader last
got. `ReaderHoldsLiveNodeAlways` follows, and `NeverBackwardsAlways`:
`queue_get` returns with a value above all the reader got (`OrderInv`), and
until the reader compares it nothing the other threads do can change that
(`ComparesForward`). What is not true, `FifoOrder`, is the finding.

### The proxy

* `ProxyProofs`: `StopsServingHolds`, from `OnTimeInv`: the client that main
  holds was accepted in time as long as the flag is up, and the flag never rises
  again. `DescriptorsOwnedHolds`, from `OwnerInv`, which adds what main holds at
  each place and that nobody connects before `listen`, and from a count of the
  descriptors by cardinalities: the only steps that take one are `accept` and
  `socket`, which a full table refuses. `SigintIsFinal`: once the signal was
  taken the flag stays down, main never returns to `accept`, and each of its
  steps is one of at most seven to its end; whether it waits in `accept` for one
  more client, as said above, is then the only open question.
* `ProxyProofs` also extends `HttpHeaders`. `EndsAtTerminatorHolds` rests on
  `StreamInv`, which ties the state of the automaton to the last symbols, in
  both directions: a state other than 0 means that buffer and stream end in the
  matching part of CR LF CR LF, but for a first read that failed (`Seen`,
  `Chance`); and a buffer that ends in such a part with no CR in front has
  brought the automaton to that state (`Missed`). `LengthFromItsLineHolds` is
  about `http_get_content_length` on any text: the lines that `IsLengthLine`
  accepts are those the property means, `Number` is the digits `Declared`
  describes, and the first line is the same for both because the least position
  exists (`MinIsLeast`, by well-foundedness).
* `ProxyHandlerProofs`: `ImplementsContract`, every step of the handler is a
  step of `HandlerContract` or leaves the descriptors alone; `FdsInv` says
  which descriptors are open at each place of the code. `HandlerInvHolds`
  proves `HandlerInv`: of the request's body `x` units were read, `got` of them
  are still held, and the `x - got` before them were written, nothing else
  (`UploadInv`); the answer likewise (`AnswerInv`), which also lists what a
  client may have been sent when the handler closes. `OneAnswerHolds` and
  `RelayExactHolds` follow. `RelayExact` says where the units stand in what was
  written, position by position; saying it with a filter over the sequence
  would mean the same and need induction. `ForwardsOriginFormHolds` rests on
  `RewriteForm`, which cuts the rewritten line at byte slash - url and follows
  the cut into the host name, with lemmas on cutting a concatenation.
  `HandlerIsBounded`: each step lowers `StepsLeft`, which is at most `4 *
  MaxBody + 12`, so no loop over `read` or `write` can be kept going: a turn of
  `write_all` that takes a part leaves less to write, and a write that blocks
  leaves nothing to count. `HeldForEver`: where `WaitsForPeer` holds, in a read
  or in a write, it holds for ever, with the client's descriptor open. Both
  together are what `Settles` needs besides fairness.

### The thread programs

`ThreadsProofs` extends `MyThread`, `SignalThreads` and `ThreadPrograms`.

* 1.6. `LiveMemoryHolds`: `MemInv` adds that main releases only what no thread
  has got yet, or what belongs to a thread that has set its flag (`MainInv`),
  and ties the flag to the place of the thread (`ThreadInv`).
  `JoinedAndReleasedHolds`: `JoinInv` adds how far main has come
  (`ProgressInv`: threads before the current one are joined and released, those
  after it untouched) and what a thread has left in its cell and in
  `shared->ret` by the time its flag is set (`ResultInv`). `PollIsAnswered`:
  main polls only for a thread that is on its way to its flag, or has set it.
* 1.5. `SafeDeliveryHolds`: `MaskInv` adds who blocks what, every created
  thread both signals, but for SIGINT in t2 once the handler is installed.
  `SignalsWait` is an action property from the same invariant: a pending signal
  is taken only by the thread it is meant for, when that is ready.
* 1.1 to 1.4. `LifetimesHoldAlways`, for any number of threads: `LifetimesInv`
  adds at which places a thread of each program can be (`PlacesInv`) and who
  owns which block there (`OwnerInv`). `ProgramKinds` lists what the nine
  records have in common, so that the steps need not be checked program by
  program. `JoinsAreAnswered`: main joins no thread that loops for ever, unless
  it has cancelled it.

### Only model-checked

Liveness under fairness is out of the prover's reach; so is ENABLED. What TLC
checks and no theorem states is therefore:

| property | proved of it |
|---|---|
| `Termination` (`LockQueue`) | `StopIsBounded`, `SomeoneGoesOn` |
| `StopSettles` (`CondQueue`, `SemQueue`) | `StopIsBounded`, `OnlyStranding`, `StrandedForEver` |
| `Settles` | `HandlerIsBounded`, `HeldForEver` |
| `SigintStops` | `SigintIsFinal` |
| `QueueServed` | nothing: while the flag is up main may serve for ever, so there is no bound on its steps to prove |
| `Terminates` | `PollIsAnswered` |
| `NoSignalLost` | `SignalsWait` |
| `JoinsReturn` | `JoinsAreAnswered` |

The right column is safety: bounds, and that nobody waits for what cannot come.
That each enabled step is taken in the end, and that these parts together give
the property, is what the runs show.

## 5. Not modelled

CPU affinity, `sched_yield`, sleeps (timing only), the text of the output,
`queue-example.c` (sequential), what 2.1 prints from torn reads, failures of
lock initialisation, weak memory ordering in 2.1 (x86 and one reader and one
writer; the model is sequentially consistent), and integer overflow of the
values sent: 2^31 additions are not reached in the 15 seconds of a run.

Reads of freed or unmapped memory that do not fault are not observed: what
matters of an access to a freed node, a freed record or a stack that is gone is
whether it kills the process or loses a write. `sem_init` of 2.2/g aborts when
it fails, which an `int` argument cannot make it do.

In the proxy: the truncation of an over-long method, host or path, the port,
the value of a declared length (its digits are), how `resolve_hostname` picks
an address, a client that sends a second request on the same connection (it is
never read), and signals inside `read_retry` and `write_all`, which are tried
again there. In the thread programs: the values and addresses 1.1 prints, the
failure of `pthread_detach` on the own id, and what the threads of 1.6 do to
the thread-local storage they share with main, because `clone` is called without
`CLONE_SETTLS` (concurrent use of stdio and malloc is undefined there; the
model keeps each of these calls intact).

## 6. What is left

Every component is modelled, and every invariant and refinement of the runs is
proved. Four hazards have no property: the mutex of 2.2/g that is never
initialised, the end of the process under running handlers, the return of main
when a thread cannot be created, and the end of the proxy on any failed
`accept`. All four are in the models; `hazards` says for each why there is
nothing to state: the code does the last three on purpose, or promises nothing
else. Worth doing next, in this order:

1. What `queue_print_stats` of 2.1 prints from torn reads.
2. The truncations of `client_handler` (method, host and path in their fixed
   buffers), which would join `ProxyHandler` to the bytes of `HttpHeaders`.
3. For 1.6, the storage shared through `clone` without `CLONE_SETTLS`.

# Verification of CorePartitioning

CorePartitioning has two halves. A shared library, preloaded into an
unmodified application, intercepts its network and file system calls and has
each of them performed by a worker thread that belongs to the descriptor. A
kernel module measures the load of the cores once per second and divides them
among network interrupts, network system calls, block interrupts and file
calls; the workers place themselves on the cores of their side. This directory
holds TLA+ models of the system, the TLC runs that check them and TLAPS proofs
about them. `PROJECT.json` lists runs, theorems, the source lines behind every
definition, findings and hazards.

## 1. Inventory

| component | source | state | operations |
|---|---|---|---|
| IPC channel | `ipc.c` | six semaphores and one message buffer per descriptor | send/recv in both directions |
| descriptor table | `fdtable.c` | doubly linked list of `thread_info`, `thr_num`, `table_rwlock` | init, add, three lookups, delete |
| wrappers | `ld_preload.c` | locals, `errno`, the lock | 25 intercepted calls |
| workers | `ld_preload.c` `syscall_thread` | request, result record | find own entry, serve, stop |
| process duplication | `ld_preload.c` `fork`, `fdtable.c` `fdtable_forked` | the child's copy of a channel | new worker, new buffer, semaphores |
| controllers | `simple_proc.c` | boundaries of the groups, turn, sockets in use, interrupt hints | timer tick in four build variants, `/proc/KU/dynamic` |
| sampling | `simple_proc.c` | per-core counters of the last tick | percentages per tick |
| module life cycle | `simple_proc.c` | `/proc` entries, timer and its memory | init with error paths, exit |
| placement | `affinity.c` | global boundaries, loop counters and CPU mask | `set_cpu` |

How they interact: a wrapper takes `table_rwlock`, looks its descriptor up and
sends a request through the entry's channel; it keeps the lock until the result
is back. The worker performs the call and answers. `open`, `openat`, `socket`,
`epoll_create` and `accept` add an entry and start a worker; `close` and
`shutdown` take the lock for writing, tell the worker to stop, join it and free
the entry, and only then call the kernel. A worker calls `set_cpu` when it
starts and after every few requests; it reads `/proc/KU/dynamic`, whose
boundaries the timer of the module moves meanwhile. The timer's handler samples
the counters of the cores, moves boundaries, hints the interrupts and registers
the timer again. `fork` copies channels in the middle of calls.

What is hard to get right:

* several application threads on one descriptor share a channel that was
  written for one caller and one worker, with one buffer for both directions;
* an entry may be freed while somebody holds a pointer to it; a new worker walks
  the list without a lock;
* the lock is held for reading while a forwarded call waits in the kernel;
* entries are added under a read lock in two wrappers;
* a descriptor number is reused by the kernel as soon as it is closed;
* each of 25 wrappers has its own copy of the control flow, so they differ in
  how they treat locks, `errno` and the result;
* the child of a fork starts a worker before it has repaired the channel;
* the boundaries move by local rules, and divisions rely on groups that never
  become empty; readers see the boundaries of different ticks; hints of one side
  are renewed in that side's turn only;
* CROSS and PER read the averages at another index than they wrote them;
* all workers build their CPU sets in the same global variables;
* counters go on while a tick reads them; the module may be unloaded while a
  tick runs, and loading may fail half way.

What makes each component correct: the channel executes a request once and
gives its result to its caller; the table names open descriptors, each once,
and counts its entries; a wrapper returns what the kernel returned, sets
`errno` as the call would, gives the lock back and returns; a child's calls get
their own results; a controller keeps a core in every group and hints no
interrupt to the other side; the percentages account for the time since the last
tick, once; a worker runs on its side, never on the core reserved for network
interrupts; an unloaded module leaves nothing behind.

`build.sh` builds CROSS, PER and APP with `-D__FILEIO__-DCROSS` and so on, a
blank missing: the placement code of these variants is not selected in those
libraries. The models of the user-level part have `__FILEIO__` set and
`__POOL__` not set, as in every library that is built.

## 2. Modules

| module | models | how |
|---|---|---|
| `RemoteCall` | what a channel promises | per caller: calls asked, executed, answered |
| `Ipc` | `ipc.c` | every `sem_wait`, `sem_post` and `memcpy` is a step; overlapping copies may tear |
| `Fork` | `fork`, `fdtable_forked` for an entry | `Ipc` for the parent, a second instance of it for the child |
| `FdTable` | `fdtable.c` | the list as a sequence of addresses, entries as records |
| `Wrappers` | the intercepted calls | one record per C function with the parameters in which the bodies differ |
| `LdPreload` | `ld_preload.c` | application threads, `table_rwlock`, workers, kernel descriptors |
| `SingleCP` | `kerneltimer_timeover`, SINGLE | one action per turn, any load as input, the reader of `/proc` |
| `Placement` | `set_cpu`, SINGLE | its statements on the library's global variables, while `SingleCP` ticks |
| `Sockets` | what CROSS, PER and APP share | boundaries and averages per socket, the dealing of queues |
| `CrossCP` | CROSS and PER | measuring, number of sockets, a turn for each side |
| `AppCP` | APP | the sort of the groups, one core moved per socket and tick |
| `CoreBalance` | what APP promises | sizes and loads of groups, no cores or boundaries |
| `SocketCP` | the module built for several sockets | `CrossCP` and `AppCP` under one timer |
| `CpuUsage` | sampling | one step per counter read, then the percentages of a core |
| `KModule` | loading, ticking, unloading | one step per call that can fail or be overtaken |
| `MC*` | | instances for TLC |
| `Ipc_proof`, `Fork_proof`, `SingleCP_proof`, `SocketCP_proof`, `Placement_proof`, `KModule_proof`, `LdPreload_proof` | | theorems about the module named |
| `Outcomes_proof` | | theorems about `LdPreload` that need more than memory and lock: results, errors, descriptors, types |

Composition. `LdPreload` extends `FdTable` and `Wrappers`. In it a channel
transfer is one step, because `Ipc` treats its steps; a caller that finds the
channel occupied waits. `Ipc` implements `RemoteCall` under a refinement mapping
(`ImplementsRemoteCall`). `Fork` extends `Ipc` and follows, after a fork, an
instance of it with the child's variables. `Placement` extends `SingleCP`: each
step of a worker interleaves with ticks. `SocketCP` implements `CoreBalance` in
its mode APP (`BalanceSpec`). `KModule` extends `CpuUsage`; its step `Control`,
where a tick moves the boundaries, is the `Tick` of `SingleCP` and `SocketCP`,
whose loads are the percentages sampled.

State and actions. The `pc` values of `Ipc` are the statements of the four
functions (`ST` send_to_thread, `RT` recv_from_thread, `RA` recv_from_app, `SA`
send_to_app). A `frame` of `LdPreload` is the local state of a wrapper (`tmp`,
`ret`, `func_errno`, `thr_errno`), and its `pc` the lock, the send, the receive,
the unlock or the intercepted call that comes next. `fdtable_add` is split
between its read of `header->next` and the linking, where two adders can meet;
whether the second of them also loses its `thr_num++` is a choice. A new worker
looks for its entry without a lock (`fdtable_get_by_tid`): `WorkerStart` reads
`header->next`, and each `WorkerWalk` looks at one node and goes on to its
successor, while other threads add and delete entries. A node that has been freed
meanwhile is undefined behaviour, and `fdtable_delete` has cleared its `next`: the
worker is then at `"fault"` and the process is gone (`Crashed`). The successor of
an allocated entry that is not in the list (one that another adder dropped) is any
node. A close, shutdown or forwarded call may fail, and the calls of `MayBlock` may
never return. `Calls` gives the wrappers each thread may use, so that a run can be
about one group of wrappers.
`Exclusive` says whether the application uses a descriptor from two threads at
once. The kernel gives out the lowest free descriptor; results and errors come
from small sets.

In `Fork`, a `sem_init` of a semaphore on which the worker already sleeps is
undefined in the standard; with glibc the sleeper may be forgotten, and the model
allows both outcomes. `pthread_create` may fail there, which is only reported: the
child's entry then has no worker. The history variables `early` (the worker used a semaphore
before it was ready) and `pending` (a request was in the channel) let the
properties say exactly when the child is affected.

The controllers take the utilisation of every core as an input of a tick; their
conditions are those of the code with its integer divisions. `part[s]` holds the
six boundaries of socket `s`; averages are indexed by the group numbers of the
code. CROSS and PER read `blk_queue_util_avg[2]` and its neighbours behind arrays
of length 2: what is there is `stray`, any member of `Stray`. APP's app group may
end one core behind `p_dynamic`; a load therefore has one more element, which may be
any integer (`Quotient` is C's division; an overflow of the sums is left out). The loop
over the APP block queues leaves a socket after its first core or never
(`AppBlkHint`), but its flag never fires (see the findings).

In `Placement`, `CPU_SET` and `++` on a global variable are a load and a store;
the boundaries printed by `/proc/KU/dynamic` are read in two steps. `affinity`
is what the kernel last accepted. `alone` remembers whether another call
overlapped.

In `KModule`, `proc` holds the names in `/proc/KU`; `load` and `prev` remember how
the last two loads ended and what ran out of memory. `Oops` is a use of code or
memory of a module that is gone. `cpustat` grows at any moment, also between two
reads of one tick; `unread` and `measured` remember, per counter, the time since
it was last read and between its last two readings.

## 3. Runs

| run | shows | bounds |
|---|---|---|
| `IpcShared` | three callers at once: binary semaphores, one token per direction, nothing left over, every call returns | 1 call each: all three stand in any two functions at once |
| `IpcForked` | one caller at a time: no race, own result, refinement of `RemoteCall`; a fork at any moment: the child's results, requests and returns | 2 callers, 2 calls: the second call finds results of the first, in parent and child |
| `LdpSafety` | no entry in use is freed; the table matches the kernel; a wrapper returns the outcome of its own call and, `write` excepted, the error of a failed one | one thread uses all 25 wrappers, one shuts down and closes; 3 calls each, 2 descriptors, so that numbers are reused and the worker's record holds an older result; calls and `pthread_create` may fail |
| `LdpLifecycle` | list, counter, lookup and workers stay consistent; an unlocked search does not miss its entry; every call returns unless a forwarded one waits in the kernel for ever or a search meets freed memory; a waiting call keeps no other reader out | one thread creates and accepts, one reads, shuts down and closes; 3 calls each, room for 2 entries, which accept passes |
| `SinglePartition` | groups, hints and torn reads; an idle block side shrinks to one core for good | the numbers of the code; every load that is a step function with up to two steps and three levels |
| `SocketPartition` | groups and hints of CROSS, PER and APP; CROSS keeps both sockets under load; APP follows `CoreBalance` | two sockets of six cores, 12 loads that favour each group in turn, stray words 0 and 400, behind `p_dynamic` -400 and 400 |
| `Placement` | overlapping calls of `set_cpu` spare the interrupt core and return, a call alone gets its side exactly | 5 cores, on which the boundaries have three positions; 2 workers, a call each |
| `KModule` | percentages are exact shares; what unloaded and failed modules leave | 1 core, three growths of four kinds, three loads: a failed one, one that meets its remains, one after that |

Runs that find a disagreement with what the source says of itself:
`IpcSharedResults` (a result goes to the wrong caller), `LdpConcurrentAccept`
(entry lost under the read lock), `LdpLockLeak` (a refused `epoll_create` takes the
lock again where it means to release it), `AppBlkQueues` (APP never deals the block
queues). The findings in `PROJECT.json` quote the lines. These behaviours are in
the models that the passing runs check; a passing run differs from them by the
wrappers, descriptors and callers it uses, not by a corrected action.

Other deviations that the models have because the code has them, and that no run
is about, or that a property of a passing run excepts by name:

* a new worker's search may meet a node that `close` has freed (`ld_preload.c` 192):
  a second descriptor is added before the worker of the first has found its entry,
  and closed while that worker stands on it. This happens in `LdpLifecycle`
  (`~Crashed` is not an invariant of it); `CallsReturn` and `ReadersPass` except it
  by name, `SearchAhead` says that a search with one adder fails in no other way, and
  `NoUseAfterFree` speaks of entries in use, not of nodes a search passes;
* a forwarded call that never returns keeps the read lock, and `close`, `shutdown`,
  `open` and `socket` of all threads wait behind it (`CallsReturn` names this case);
* `LdpLifecycle` has no `epoll_create`: after the leak of `LdpLockLeak` every writer
  waits for ever (`LdpSafety` has it, without liveness);
* a lookup ends at descriptor 0 (`fdtable.c` 92, 108); the runs use descriptors
  above 0;
* `write` restores its own saved `errno` and drops the one its worker sends
  (`ld_preload.c` 1113); the wrappers marked `"assign"` in `Wrappers` set `errno`
  to 0 after a call that succeeded; `lseek`'s `off_t` passes through an `int`
  (`ToInt`, results are at most `INT_MAX` in `LdpSafety`); `accept` adds an entry
  without looking at `MAXTHREAD`;
* a child's worker that is faster than `fdtable_forked` may sleep on a semaphore
  that is then initialised under it, or perform a second time a request that was
  in the channel at the fork (`early` in the properties of `Fork`); a child whose
  `pthread_create` failed has no worker, and its calls on that descriptor never return
  (excepted in `ChildCallsReturn`);
* a tick that runs while `del_timer` is called registers freed memory, and a
  failed `kmalloc` leaves entries whose handlers are unloaded and which make the
  next load fail (the two cases of `UnloadSafe`);
* with negative words behind the averages CROSS gives a busy socket back; `Stray` has
  none in `SocketPartition` (the other properties and the proofs take any integer).

Deadlock is checked except in four runs. `LdpSafety`: after a failed
`pthread_create` an entry has no worker and a call on it waits forever, as every
writer does after a refused `epoll_create`, which is what the code does. `IpcForked`:
the run ends when the child has made its calls, or has no worker, or its worker sleeps
on a forgotten semaphore. `Placement`: the timer goes on, but
the workers' calls are bounded. `KModule`: the module may stay absent after its
last load, and nothing follows an oops.

Fairness. Application threads and workers are pthreads of one process, so each
takes its next step if it can (weak fairness per thread, also in a child and
inside `set_cpu`). In `LdPreload` the system calls that may wait for a peer or a
device (`MayBlock`: accept, connect, and the calls that send, receive, read, write or
poll) are not assumed to return, whoever performs them: the code has no timeout. The
others (bind, listen, options, names, lseek, open, socket, close) do. In `Ipc` and
`Fork`, which are about the protocol of one channel, the forwarded call is assumed to
return; `CallsReturn` and `ChildCallsReturn` there say that nothing else keeps a caller
waiting. The timer of the controllers registers itself again in every tick
(`simple_proc.c` 946; weak fairness of `Tick`), and a read of `/proc` ends. `KModule` is
checked for safety only and has no fairness. `Enter` and a fork are never forced.

## 4. Proofs

`Ipc_proof`, for every set of callers and every number of calls:

* `TypeCorrect`, `TokensKept`: however many threads use the descriptor at once.
  The invariant `Control` states the tokens thread by thread, together with
  "a free mutex is held by nobody"; without it `sem_post` could leave the range
  0..1. One lemma per kind of statement (take a token, pass it on, take or give
  a mutex, no semaphore), then one case per statement.
* `NothingStays`, also for callers at once: `NothingLeftOver` speaks of a channel at
  rest, so `Balance` counts on the way there. The callers that have sent a request
  and not yet taken a result are as many as there are requests and results in the
  channel and in the worker's hands. The four steps that move one change both sides
  by one, whichever caller's result it is that a caller takes.
* `BufferRaceFree`, `CallerGetsOwnResult`, `ChannelImplementsRemoteCall`: under
  `Exclusive`. The properties are not inductive, as they say nothing of where
  request and result are in between. `OneCall` does: either the channel is at
  rest, or exactly one caller is inside a call, and the positions of caller and
  worker, the tokens, the buffer and the worker's record fit together
  (`Sending`, `Sent`, `Served`, `Replied`, `Receiving`, `Received`). The
  refinement maps `Call`, `Execute` and the memcpy of `CPART_recv_from_thread`
  to the three actions of `RemoteCall` and every other step to a stutter.

`Fork_proof`, for every set of callers, every moment of a fork:

* `ChildServesChild`, however threads shared the descriptor in the parent;
  `ChildGetsOwnResult` under `Exclusive`. `ForkInv` follows the child: while
  `fdtable_forked` runs, the semaphores it has passed are new and the worker waits;
  once it is through, caller and worker are at one of six stages of a call (`Rest`,
  `Asking`, `Asked`, `Serving`, `Answering`, `Taking`). The parent's invariants
  (`Control`, and `OneCall` under `Exclusive`) say what a vanished thread can leave
  behind. The invariant speaks of runs in which the
  worker was not faster or found no request (`Clean`); the others are the exceptions
  the properties name.

`SingleCP_proof`, for all core numbers, thresholds, queues and loads that meet
the assumptions of `SingleCP`:

* `TypeCorrect`, `NoEmptyGroup`, `HintsOnTheirSide` from the inductive invariant
  `TypeOK /\ GroupsNonEmpty /\ HintsInPartition`; the last conjunct needs to know
  that the block hints are at most one core behind.
* `TornReadUsable` for reads that last at most three ticks, from `Drift`, which
  bounds how far each boundary moves per turn.

`SocketCP_proof`, for every layout of two sockets, all thresholds, loads, queues
and stray words that meet the assumptions of `Sockets`:

* `TypeCorrect`, `NoEmptyGroup`, `HintsOnTheirSide` from the inductive invariant
  `TypeOK /\ GroupsNonEmpty /\ HintsInPartition /\ AppBlkUnset`: for APP's block
  queues `HintsInPartition` holds only because they never get a hint. Lemmas say what a turn does to
  the boundaries of one socket, and that dealing queues round robin stays inside
  the groups (`q % n` is below `n`).
* `AppBalances`: APP refines `CoreBalance`. The six comparisons of the bubble sort
  yield a permutation of the groups in ascending order of load; the last is a
  most loaded group; `min` is a least loaded one among those that have two cores,
  or no such group other than the most loaded one exists; moving the boundaries
  between two groups changes exactly these two groups' sizes, by one.

`Placement_proof`, for every number of workers, calls and cores, with the controller
ticking between any two of their steps:

* `PTypeCorrect`, `InterruptCoreSpared`: calls race on `lib_net_end`, `file_start`, the
  counters and the mask. `Reserved` says of each what a worker at a given statement
  may rely on: from the moment it has stored a boundary, whatever another worker
  stores there leaves it above `NET_START`; a counter in use, a loaded mask and a
  loaded counter are too.
* `AloneGetsItsSide` from `AloneInv`: while nobody overlaps a call, the mask is exactly
  the cores from the first one of its side to the loop's counter.

`KModule_proof`, for any number of cores, growths and loads of the module:

* `UnloadIsSafe`, `LeakCostsOneLoad` and `ProcStaysClean` from `LifeInv`, which adds
  what the properties leave open: a load starts with an empty `/proc/KU` unless the
  one before failed in `kmalloc`, no timer is pending and no handler runs while the
  module is being loaded or after a `del_timer` that met none, and only a load that
  went well makes the module live.
* `TypeCorrect`, `PercentagesExact`: `SharesExact` is about the end of a tick.
  `UsageInv` keeps the books in between (`Accounted`): a counter is what was last
  read of it plus what is unread, and what was read since the last percentages is
  what was measured. A lemma shows that the code's integer division stays in 0..100
  and yields the share, rounded up (`IsShare`; without idle time the code counts one
  tick of it).

`LdPreload_proof`, for every set of threads, descriptors, entries and every
assignment of wrappers to threads. The invariant `Account` has four parts: `Types`;
`Places` (which wrapper can be where); `Locks` (who has `table_rwlock`, by position);
`Memory` (everything that is listed, looked up, about to be linked or served is
allocated). `Memory` is inductive only with two facts that `NoUseAfterFree` does not
mention: an entry is in the list once, as else `fdtable_delete` would leave a freed
entry in it; and a thread that has found an entry in order to close it would find the
same one again, since `fdtable_delete` searches by descriptor and not by pointer.

* `NothingFreedInUse`: no hypotheses. Two threads on a descriptor, failing calls and
  lost entries included. It covers what a wrapper has looked up and the entry of every
  live worker, also of one that still searches; it does not cover the nodes that the
  search passes, which may be freed under it.
* `LockGivenBack` for programs without `epoll_create`, which keeps a lock when it
  fails, and the kernel may always have run out of descriptors.
* `ListIntact` when at most one thread calls wrappers that add under the read lock
  (`OneAdder`). `LdpConcurrentAccept` shows what two of them do. `Chain`: the successor
  that `fdtable_add` has read is still the first of the list when it links.
* `SearchFindsItself`, with `OneAdder`: a search stands on a deleted node or has its own
  entry ahead. A new entry is linked in front of the list, so the order of the entries
  that a search has still to pass does not change; deleting one of them only brings its
  own entry nearer, and its own entry is not deleted before its worker has ended.
* `EntriesServed`, with `OneAdder`, when `pthread_create` does not fail and descriptor 0
  is not handed out (a new worker's search would stop there): `Serving` ties a
  request to stop, at every point of its way, to the close that waits for it.

`Outcomes_proof` continues with `Orderly` and `Ownership`:

* `OwnAnswer`, `OwnError` under `Exclusive`. Three parts: threads hold different entries
  (`Apart`); for the one that waits at an entry, its request or its result is in
  exactly one of four places, and with nobody waiting the channel is empty and the
  worker idle (`Channels`); what a wrapper has taken over is the outcome of its call
  (`Outcomes`). `OwnAnswer` needs results that fit an `int` (`Small`), as `retval_data`
  cuts them off; `OwnError` does not.
* `TableAgrees`, `EntriesFound`: `TableMatchesKernel` says nothing about descriptors
  that are about to enter or leave the table. `Ownership` gives every descriptor at
  most one owner, the application or a wrapper that is making or closing it, and says
  that the table has no entry for one that a wrapper has made and not yet added, or
  deleted and not yet closed. Descriptor 0 is not handed out. For a program that
  accepts, `Exclusive` and `Small` are assumed as well (`Sole`), because `accept` adds
  the number it finds in the channel.
* `TypeCorrect` with all these hypotheses and a finite set of entries: `TypeOK` bounds
  `thr_num` by the number of entries, which a lost entry or a wrong delete would break.

The assumptions are those stated with the constants: ordered boundaries with the
initial gaps of the code, numbers as thresholds, natural queues and loads; threads
call interposed functions (`CallsAssumption`), results and errors are integers
(`ValueAssumption`). Every other hypothesis is in the theorem that needs it. Each is met
by a run: `Small`, `OneAdder` and `0 \notin Fds` by `LdpSafety` and `LdpLifecycle`,
`~CreateMayFail` by `LdpLifecycle`, programs without `epoll_create` by `LdpLifecycle`.
`Exclusive` is met by `LdpConcurrentAccept` and `LdpLockLeak`; the two passing runs check
the same properties with less: one thread makes all forwarded calls or the two use
different ones, and `close` and `shutdown` interfere at any moment. They also have
`accept` without `Exclusive`.

Only model-checked: liveness (`CallsReturn`, `ReadersPass`, `ChildCallsReturn`, `IdleBlkShrinks`,
`BusyUsesBothSockets`, `SetCpuReturns`), which is out of the prover's
reach, and the four runs that expect a violation. Every invariant that a passing run
checks is also a theorem.

## 5. Not modelled, and the plan

1. Proofs: `LockReleased` thread by thread in programs with `epoll_create`;
   `TableMatchesKernel` for a single accepting thread without `Exclusive`.
2. `FdTableLinks`: the list with its `next` and `prev` pointers, one step per store of
   `fdtable_add` and `fdtable_delete`, refining `FdTable`.
3. `table_rwlock` in a child whose parent's other thread held it at the fork.
4. `Ipc` with interrupted waits: `sem_wait` is taken to return with a token, while the
   code ignores that it may return with EINTR.

Left out for good: a `calloc` that fails in `fdtable_add`, which then returns NULL to
callers that write through it; the thread pool (not compiled); logging and printing; the
diagnostic traversals and `fdtable_destroy` (never called); `wrap_init`'s symbol
lookups; `ku_select` and the stat thread (never started); the placement code of
CROSS (a stray token in `affinity.c` 237), PER and APP (undeclared names, 247 and
268), which does not compile, and `set_cpu_app`, which no command of `build.sh`
selects; `set_affinity_within`; generated build files. Descriptors passed to `poll`
with `nfds` 0 are a read outside the caller's array. `irq_set_affinity_hint` keeps
a pointer to the module's one mask; the models record the core it holds at the call.

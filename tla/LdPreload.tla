----------------------------- MODULE LdPreload -----------------------------
(***************************************************************************)
(* The interposition layer (ld_preload.c): application threads inside the   *)
(* wrappers, table_rwlock, the descriptor table and one syscall_thread per  *)
(* entry, with the kernel's descriptors as environment.                     *)
(*                                                                          *)
(* A frame is the local state of a wrapper; its pc says what it does next:  *)
(*   original  performs the intercepted call itself                         *)
(*   lock      waits for table_rwlock, then looks the descriptor up         *)
(*   send, recv    the channel of the entry (Ipc has its steps)             *)
(*   link      is between the two halves of fdtable_add                     *)
(*   unlock, join  finish a forwarded call, a close                         *)
(*   done      has returned                                                 *)
(***************************************************************************)
EXTENDS FdTable, Wrappers

CONSTANTS
  Threads,       \* application threads
  Calls,         \* the wrappers each thread of the application uses
  Fds,           \* descriptors the kernel can hand out
  Results,       \* values an intercepted call can return
  Errors,        \* errno values with which a forwarded call can fail
  CreateErrors,  \* errno values with which open, socket, ... can fail
  INT_MAX,       \* largest value of retval_data's int return_value
  MaxCalls,      \* bound: calls per thread
  Exclusive,     \* TRUE: no two threads use one descriptor at once
  CreateMayFail  \* TRUE: pthread_create can fail

ASSUME FdsAssumption == Fds \subseteq Nat /\ IsFiniteSet(Fds)
ASSUME ThreadAssumption == NULL \notin Threads
ASSUME LimitAssumption == INT_MAX \in Nat /\ MaxCalls \in Nat
ASSUME CallsAssumption == \A t \in Threads : Calls[t] \subseteq Interposed
ASSUME ValueAssumption ==
  Results \subseteq Int /\ Errors \subseteq Int /\ CreateErrors \subseteq Int
ASSUME FlagAssumption == Exclusive \in BOOLEAN /\ CreateMayFail \in BOOLEAN

VARIABLES
  pc,        \* where each application thread is
  frame,     \* locals of its wrapper
  made,      \* calls it has made
  errno,     \* its errno
  outcome,   \* what the kernel answered to its current call (history)
  readers,   \* table_rwlock: read locks each thread holds
  writer,    \* table_rwlock: the thread that holds it for writing
  worker,    \* the syscall_thread of each entry
  openFds,   \* descriptors open in the kernel
  known      \* descriptors the application holds

lockVars   == <<readers, writer>>
kernelVars == <<openFds, known>>
vars == <<tableVars, pc, frame, made, errno, outcome, lockVars, worker, kernelVars>>

Idle == [call |-> [kind |-> "none"], fd |-> -1, tmp |-> NULL, next |-> <<>>,
         ret |-> -1, thr_errno |-> 0, func_errno |-> 0]
NoOutcome == [val |-> 0, err |-> 0]
NoWorker == [pc |-> "none", at |-> NULL, args |-> NoMessage, value |-> 0, size |-> 0,
             err |-> 0]

(* The wrappers of Calls and the fields they share. *)
call(t) == frame[t].call
Is(t, kind, at) == pc[t] = at /\ call(t).kind = kind
Goto(t, at) == pc' = [pc EXCEPT ![t] = at]
-----------------------------------------------------------------------------
(* The environment: the kernel's descriptors and what its calls return. *)
FreeFds == Fds \ openFds
LowestFd == CHOOSE f \in FreeFds : \A g \in FreeFds : f <= g
Failures(errs) == {[val |-> -1, err |-> e] : e \in errs}
Answers == {[val |-> v, err |-> 0] : v \in Results} \cup Failures(Errors)
EMFILE == 24
NewFd(errs) ==
  IF FreeFds = {} THEN Failures(errs \cup {EMFILE})
  ELSE {[val |-> LowestFd, err |-> 0]} \cup Failures(errs)
(* errno after an intercepted call with outcome o, when it was `old'. *)
AfterCall(o, old) == IF o.err # 0 THEN o.err ELSE old

(* table_rwlock (pthread_rwlock_t, readers preferred). *)
CanRdLock == writer = NULL
CanWrLock == writer = NULL /\ \A t \in Threads : readers[t] = 0
Acquire(t, mode) ==
  IF mode = "wr" THEN writer' = t /\ UNCHANGED readers
                 ELSE readers' = [readers EXCEPT ![t] = @ + 1] /\ UNCHANGED writer
CanAcquire(mode) == IF mode = "wr" THEN CanWrLock ELSE CanRdLock
Unlock(t) ==
  IF writer = t THEN writer' = NULL /\ UNCHANGED readers
                ELSE readers' = [readers EXCEPT ![t] = @ - 1] /\ UNCHANGED writer
-----------------------------------------------------------------------------
Init ==
  /\ fdtable_init
  /\ pc = [t \in Threads |-> "app"]
  /\ frame = [t \in Threads |-> Idle]
  /\ made = [t \in Threads |-> 0]
  /\ errno = [t \in Threads |-> 0]
  /\ outcome = [t \in Threads |-> NoOutcome]
  /\ readers = [t \in Threads |-> 0]
  /\ writer = NULL
  /\ worker = [e \in Entries |-> NoWorker]
  /\ openFds = {}
  /\ known = {}

(* The application calls wrapper c, on one of its descriptors unless c      *)
(* makes a new one.  It does not use a descriptor again once it has called  *)
(* close on it.                                                             *)
Enter(t) ==
  \E c \in Calls[t], fd \in known \cup {-1} :
    /\ pc[t] = "app"
    /\ made[t] < MaxCalls
    /\ (c.kind = "create") <=> (fd = -1)
    /\ (Exclusive /\ fd # -1) => \A u \in Threads : frame[u].fd # fd
    /\ made' = [made EXCEPT ![t] = @ + 1]
    /\ frame' = [frame EXCEPT ![t] =
         [Idle EXCEPT !.call = c, !.fd = fd,
                      !.func_errno = IF c = accept THEN 0 ELSE errno[t]]]
    /\ known' = IF c.type = "CLOSE" THEN known \ {fd} ELSE known
    /\ Goto(t, IF c.kind = "create" THEN "original" ELSE "lock")
    /\ UNCHANGED <<tableVars, errno, outcome, lockVars, worker, openFds>>

(* A wrapper returns; the application now holds the descriptor it made. *)
Return(t) ==
  /\ pc[t] = "done"
  /\ known' = IF (call(t).kind = "create" \/ call(t) = accept) /\ frame[t].ret \in openFds
              THEN known \cup {frame[t].ret} ELSE known
  /\ frame' = [frame EXCEPT ![t] = Idle]
  /\ outcome' = [outcome EXCEPT ![t] = NoOutcome]
  /\ Goto(t, "app")
  /\ UNCHANGED <<tableVars, made, errno, lockVars, worker, openFds>>
-----------------------------------------------------------------------------
(* open, openat, socket, epoll_create: perform the call; open returns at    *)
(* once below descriptor 3.                                                 *)
CreateOriginal(t) ==
  \E o \in NewFd(CreateErrors) :
    /\ Is(t, "create", "original")
    /\ openFds' = IF o.val >= 0 THEN openFds \cup {o.val} ELSE openFds
    /\ outcome' = [outcome EXCEPT ![t] = o]
    /\ frame' = [frame EXCEPT ![t].ret = o.val,
                              ![t].func_errno = AfterCall(o, errno[t])]
    /\ errno' = [errno EXCEPT ![t] = AfterCall(o, @)]
    /\ Goto(t, IF call(t) = open /\ o.val < 3 THEN "done" ELSE "lock")
    /\ UNCHANGED <<tableVars, made, lockVars, worker, known>>

(* The descriptor is negative or already in the table: the lock is given    *)
(* back.  epoll_create calls rdlock where the others call unlock.           *)
CreateRefused(t) ==
  /\ Is(t, "create", "lock")
  /\ CanAcquire(call(t).lock)
  /\ fdtable_get_by_fd_all(frame[t].ret) # NULL \/ frame[t].ret < 0
  /\ readers' = IF call(t) = epoll_create
                THEN [readers EXCEPT ![t] = @ + 2] ELSE readers
  /\ errno' = [errno EXCEPT ![t] = frame[t].func_errno]
  /\ Goto(t, "done")
  /\ UNCHANGED <<tableVars, frame, made, outcome, writer, worker, kernelVars>>

HasRoom(t) == /\ frame[t].ret >= call(t).least
              /\ fdtable_getnumber < MAXTHREAD

(* fdtable_add up to its read of header->next. *)
CreateAdd(t) ==
  /\ Is(t, "create", "lock")
  /\ CanAcquire(call(t).lock)
  /\ fdtable_get_by_fd_all(frame[t].ret) = NULL /\ frame[t].ret >= 0
  /\ HasRoom(t)
  /\ Acquire(t, call(t).lock)
  /\ frame' = [frame EXCEPT ![t].next = table]
  /\ Goto(t, "link")
  /\ UNCHANGED <<tableVars, made, errno, outcome, worker, kernelVars>>

(* No entry: the table is full, or openat returned descriptor 0. *)
CreateWithoutEntry(t) ==
  /\ Is(t, "create", "lock")
  /\ CanAcquire(call(t).lock)
  /\ fdtable_get_by_fd_all(frame[t].ret) = NULL /\ frame[t].ret >= 0
  /\ ~HasRoom(t)
  /\ errno' = [errno EXCEPT ![t] = frame[t].func_errno]
  /\ Goto(t, "done")
  /\ UNCHANGED <<tableVars, frame, made, outcome, lockVars, worker, kernelVars>>

(* The rest of fdtable_add, the fields of the entry, pthread_create, unlock.*)
(* socket creates the thread before it assigns thr_fd, so its worker may    *)
(* find its entry first.  A failed pthread_create is only reported.         *)
Link(t) ==
  LET c == call(t) IN
  \E e \in Entries \ allocated,
     at \in (IF c = socket THEN {"start", "recv"} ELSE {"start"})
            \cup (IF CreateMayFail THEN {"none"} ELSE {}) :
    /\ pc[t] = "link"
    /\ fdtable_add(e, frame[t].next, frame[t].ret, c.class)
    /\ worker' = [worker EXCEPT ![e] = [NoWorker EXCEPT !.pc = at]]
    /\ Unlock(t)
    /\ errno' = [errno EXCEPT ![t] =
         IF c = accept THEN frame[t].thr_errno ELSE frame[t].func_errno]
    /\ frame' = [frame EXCEPT ![t].next = <<>>]
    /\ Goto(t, "done")
    /\ UNCHANGED <<made, outcome, kernelVars>>
-----------------------------------------------------------------------------
(* Mutant: the lock is given back before the entry is used. *)
MutForwardLock(t) ==
  LET tmp == fdtable_get_by_fd(frame[t].fd, call(t).class) IN
  /\ Is(t, "forward", "lock")
  /\ CanRdLock
  /\ tmp # NULL
  /\ frame' = [frame EXCEPT ![t].tmp = tmp]
  /\ Goto(t, "send")
  /\ UNCHANGED <<tableVars, made, errno, outcome, lockVars, worker, kernelVars>>
(* The forwarded calls: take the lock for reading and look the entry up.    *)
ForwardLock(t) ==
  LET tmp == fdtable_get_by_fd(frame[t].fd, call(t).class) IN
  /\ Is(t, "forward", "lock")
  /\ CanRdLock
  /\ tmp # NULL
  /\ Acquire(t, "rd")
  /\ frame' = [frame EXCEPT ![t].tmp = tmp]
  /\ Goto(t, "send")
  /\ UNCHANGED <<tableVars, made, errno, outcome, worker, kernelVars>>

(* Mutant: the lock is kept. *)
MutForwardMiss(t) ==
  /\ Is(t, "forward", "lock")
  /\ CanRdLock
  /\ fdtable_get_by_fd(frame[t].fd, call(t).class) = NULL
  /\ Acquire(t, "rd")
  /\ Goto(t, "original")
  /\ UNCHANGED <<tableVars, frame, made, errno, outcome, worker, kernelVars>>
(* No entry: give the lock back and perform the call. *)
ForwardMiss(t) ==
  /\ Is(t, "forward", "lock")
  /\ CanRdLock
  /\ fdtable_get_by_fd(frame[t].fd, call(t).class) = NULL
  /\ errno' = [errno EXCEPT ![t] =
       IF call(t).fallback = "zero" THEN 0 ELSE frame[t].func_errno]
  /\ Goto(t, "original")
  /\ UNCHANGED <<tableVars, frame, made, outcome, lockVars, worker, kernelVars>>

ForwardOriginal(t) ==
  \E o \in (IF call(t) = accept THEN NewFd(Errors) ELSE Answers) :
    /\ Is(t, "forward", "original")
    /\ openFds' = IF call(t) = accept /\ o.val >= 0 THEN openFds \cup {o.val}
                  ELSE openFds
    /\ outcome' = [outcome EXCEPT ![t] = o]
    /\ frame' = [frame EXCEPT ![t].ret = o.val]
    /\ errno' = [errno EXCEPT ![t] = AfterCall(o, @)]
    /\ Goto(t, "done")
    /\ UNCHANGED <<tableVars, made, lockVars, worker, known>>

(* CPART_send_to_thread. *)
Send(t) ==
  LET e == frame[t].tmp IN
  /\ pc[t] = "send"
  /\ entry[e].full = 0
  /\ entry' = [entry EXCEPT ![e].full = 1,
                            ![e].message = [NoMessage EXCEPT !.type = call(t).type,
                                                             !.from = t]]
  /\ Goto(t, "recv")
  /\ UNCHANGED <<table, allocated, thr_num, frame, made, errno, outcome,
                 lockVars, worker, kernelVars>>

(* CPART_recv_from_thread, and the field of the result the wrapper returns. *)
Recv(t) ==
  LET e == frame[t].tmp
      m == entry[e].message IN
  /\ pc[t] = "recv"
  /\ entry[e].full2 = 1
  /\ entry' = [entry EXCEPT ![e].full2 = 0]
  /\ frame' = [frame EXCEPT
       ![t].ret = IF call(t).kind = "close" THEN @
                  ELSE IF call(t).field = "size" THEN m.size ELSE m.value,
       ![t].thr_errno = m.err]
  /\ Goto(t, IF call(t).kind = "close" THEN "join"
             ELSE IF call(t) = accept THEN "accepted" ELSE "unlock")
  /\ UNCHANGED <<table, allocated, thr_num, made, errno, outcome, lockVars,
                 worker, kernelVars>>

(* accept adds an entry for the connection, still under the read lock. *)
Accepted(t) ==
  /\ pc[t] = "accepted"
  /\ IF frame[t].ret > 0 /\ fdtable_get_by_fd_all(frame[t].ret) = NULL
     THEN /\ frame' = [frame EXCEPT ![t].next = table]
          /\ Goto(t, "link")
     ELSE Goto(t, "unlock") /\ UNCHANGED frame
  /\ UNCHANGED <<tableVars, made, errno, outcome, lockVars, worker, kernelVars>>

ForwardReturn(t) ==
  /\ pc[t] = "unlock"
  /\ Unlock(t)
  /\ errno' = [errno EXCEPT ![t] =
       CASE call(t).errno = "assign" -> frame[t].thr_errno
         [] call(t).errno = "if_set" /\ frame[t].thr_errno # 0 -> frame[t].thr_errno
         [] OTHER -> frame[t].func_errno]
  /\ Goto(t, "done")
  /\ UNCHANGED <<tableVars, frame, made, outcome, worker, kernelVars>>
-----------------------------------------------------------------------------
(* Mutant: the descriptor is closed before its entry is deleted. *)
MutCloseLock(t) ==
  LET tmp == fdtable_get_by_fd_all(frame[t].fd) IN
  /\ Is(t, "close", "lock")
  /\ CanWrLock
  /\ tmp # NULL
  /\ Acquire(t, "wr")
  /\ frame' = [frame EXCEPT ![t].tmp = tmp]
  /\ openFds' = IF call(t) = close THEN openFds \ {frame[t].fd} ELSE openFds
  /\ Goto(t, "send")
  /\ UNCHANGED <<tableVars, made, errno, outcome, worker, known>>
(* close and shutdown: take the lock for writing, find the entry, tell its  *)
(* worker to stop.                                                          *)
CloseLock(t) ==
  LET tmp == fdtable_get_by_fd_all(frame[t].fd) IN
  /\ Is(t, "close", "lock")
  /\ CanWrLock
  /\ tmp # NULL
  /\ Acquire(t, "wr")
  /\ frame' = [frame EXCEPT ![t].tmp = tmp]
  /\ Goto(t, "send")
  /\ UNCHANGED <<tableVars, made, errno, outcome, worker, kernelVars>>

CloseMiss(t) ==
  /\ Is(t, "close", "lock")
  /\ CanWrLock
  /\ fdtable_get_by_fd_all(frame[t].fd) = NULL
  /\ Goto(t, "original")
  /\ UNCHANGED <<tableVars, frame, made, errno, outcome, lockVars, worker, kernelVars>>

(* pthread_join, fdtable_delete, unlock. *)
Join(t) ==
  /\ pc[t] = "join"
  /\ worker[frame[t].tmp].pc = "exit"
  /\ worker' = [worker EXCEPT ![frame[t].tmp] = NoWorker]
  /\ fdtable_delete(frame[t].fd)
  /\ Unlock(t)
  /\ frame' = [frame EXCEPT ![t].tmp = NULL]
  /\ Goto(t, "original")
  /\ UNCHANGED <<made, errno, outcome, kernelVars>>

(* original_close frees the descriptor, also when it fails;                 *)
(* original_shutdown does not.                                              *)
CloseOriginal(t) ==
  \E o \in {NoOutcome} \cup Failures(Errors) :
    /\ Is(t, "close", "original")
    /\ openFds' = IF call(t) = close THEN openFds \ {frame[t].fd} ELSE openFds
    /\ outcome' = [outcome EXCEPT ![t] = o]
    /\ frame' = [frame EXCEPT ![t].ret = o.val]
    /\ errno' = [errno EXCEPT ![t] = AfterCall(o, @)]
    /\ Goto(t, "done")
    /\ UNCHANGED <<tableVars, made, lockVars, worker, known>>
-----------------------------------------------------------------------------
(* syscall_thread: find the entry, without a lock, or give up. *)
WorkerStart(e) ==
  /\ worker[e].pc = "start"
  /\ worker' = [worker EXCEPT ![e].pc = "walk", ![e].at = FirstNode]
  /\ UNCHANGED <<tableVars, pc, frame, made, errno, outcome, lockVars, kernelVars>>
WorkerWalk(e) ==
  LET next == fdtable_get_by_tid(worker[e].at, e) IN
  \E tmp \in (IF next = "walk" THEN NextNodes(worker[e].at) ELSE {NULL}) :
    /\ worker[e].pc = "walk"
    /\ worker' = [worker EXCEPT ![e].pc = next, ![e].at = tmp]
    /\ UNCHANGED <<tableVars, pc, frame, made, errno, outcome, lockVars, kernelVars>>

(* CPART_recv_from_app. *)
WorkerRecv(e) ==
  /\ worker[e].pc = "recv"
  /\ entry[e].full = 1
  /\ entry' = [entry EXCEPT ![e].full = 0]
  /\ worker' = [worker EXCEPT ![e].pc = "exec", ![e].args = entry[e].message]
  /\ UNCHANGED <<table, allocated, thr_num, pc, frame, made, errno, outcome,
                 lockVars, kernelVars>>

Stops(type) == type \in {"CLOSE", "SHUTDOWN"}

(* An int return_value keeps the low bits of what is stored in it. *)
ToInt(v) == IF v > INT_MAX THEN v - 2 * (INT_MAX + 1) ELSE v

(* The switch: perform the request, store its outcome in its field; the     *)
(* other field keeps what an earlier request left there.                    *)
WorkerExec(e) ==
  LET w == worker[e]
      type == w.args.type IN
  \E o \in (IF Stops(type) THEN {NoOutcome}
            ELSE IF type = "ACCEPT" THEN NewFd(Errors) ELSE Answers) :
    /\ w.pc = "exec"
    /\ worker' = [worker EXCEPT ![e] =
         [w EXCEPT !.pc = "reply", !.err = o.err,
                   !.value = IF ~Stops(type) /\ StoredField(type) = "value"
                             THEN ToInt(o.val) ELSE @,
                   !.size = IF ~Stops(type) /\ StoredField(type) = "size"
                            THEN o.val ELSE @]]
    /\ openFds' = IF type = "ACCEPT" /\ o.val >= 0 THEN openFds \cup {o.val}
                  ELSE openFds
    /\ outcome' = IF w.args.from = NULL THEN outcome
                  ELSE [outcome EXCEPT ![w.args.from] = o]
    /\ UNCHANGED <<tableVars, pc, frame, made, errno, lockVars, known>>

(* CPART_send_to_app. *)
WorkerReply(e) ==
  LET w == worker[e] IN
  /\ w.pc = "reply"
  /\ entry[e].full2 = 0
  /\ entry' = [entry EXCEPT ![e].full2 = 1,
       ![e].message = [type |-> w.args.type, from |-> NULL, value |-> w.value,
                       size |-> w.size, err |-> w.err]]
  /\ worker' = [worker EXCEPT ![e].pc = "loop"]
  /\ UNCHANGED <<table, allocated, thr_num, pc, frame, made, errno, outcome,
                 lockVars, kernelVars>>

(* Mutants: the worker serves one request only; SHUTDOWN does not stop it. *)
MutWorkerOnce(e) ==
  /\ worker[e].pc = "loop"
  /\ worker' = [worker EXCEPT ![e].pc = "exit", ![e].args = NoMessage]
  /\ UNCHANGED <<tableVars, pc, frame, made, errno, outcome, lockVars, kernelVars>>
MutWorkerIgnoresShutdown(e) ==
  /\ worker[e].pc = "loop"
  /\ worker' = [worker EXCEPT
       ![e].pc = IF worker[e].args.type = "CLOSE" THEN "exit" ELSE "recv",
       ![e].args = NoMessage]
  /\ UNCHANGED <<tableVars, pc, frame, made, errno, outcome, lockVars, kernelVars>>
(* The condition of the while loop. *)
WorkerLoop(e) ==
  /\ worker[e].pc = "loop"
  /\ worker' = [worker EXCEPT
       ![e].pc = IF Stops(worker[e].args.type) THEN "exit" ELSE "recv",
       ![e].args = NoMessage]
  /\ UNCHANGED <<tableVars, pc, frame, made, errno, outcome, lockVars, kernelVars>>
-----------------------------------------------------------------------------
ThreadStep(t) ==
  \/ Return(t) \/ CreateOriginal(t) \/ CreateRefused(t) \/ CreateAdd(t)
  \/ CreateWithoutEntry(t) \/ Link(t) \/ ForwardLock(t) \/ ForwardMiss(t)
  \/ ForwardOriginal(t) \/ Send(t) \/ Recv(t) \/ Accepted(t)
  \/ ForwardReturn(t) \/ CloseLock(t) \/ CloseMiss(t) \/ Join(t)
  \/ CloseOriginal(t)
WorkerStep(e) ==
  \/ WorkerStart(e) \/ WorkerWalk(e) \/ WorkerRecv(e) \/ WorkerExec(e)
  \/ WorkerReply(e) \/ WorkerLoop(e)

(* The process is gone when a worker has followed a freed node. *)
Crashed == \E e \in Entries : worker[e].pc = "fault"

(* The run is over; the application need not make another call. *)
Finished ==
  /\ Crashed \/ \A t \in Threads : pc[t] = "app"
  /\ UNCHANGED vars

Next == \/ \E t \in Threads : ~Crashed /\ (Enter(t) \/ ThreadStep(t))
        \/ \E e \in Entries : ~Crashed /\ WorkerStep(e)
        \/ Finished

(* The calls with which a thread may wait in the kernel for as long as it   *)
(* takes: nothing says that they return.                                    *)
MayBlock(type) ==
  type \in {"ACCEPT", "CONNECT", "SEND", "RECV", "READ", "WRITE", "POLL",
            "SENDTO", "SENDMSG", "RECVFROM", "RECVMSG"}
ThreadBlocks(t) == Is(t, "forward", "original") /\ MayBlock(call(t).type)
WorkerBlocks(e) == worker[e].pc = "exec" /\ MayBlock(worker[e].args.type)

Fairness ==
  /\ \A t \in Threads : WF_vars(~Crashed /\ ~ThreadBlocks(t) /\ ThreadStep(t))
  /\ \A e \in Entries : WF_vars(~Crashed /\ ~WorkerBlocks(e) /\ WorkerStep(e))

Spec == Init /\ [][Next]_vars
FairSpec == Spec /\ Fairness
-----------------------------------------------------------------------------
CallRecords == {[kind |-> "none"]} \cup UNION {Calls[t] : t \in Threads}

(* Every variable keeps its type. *)
TypeOK ==
  /\ table \in Seq(Entries) /\ allocated \subseteq Entries
  /\ thr_num \in 0..Cardinality(Entries)
  /\ \A e \in Entries :
       /\ entry[e].thr_fd \in Fds \cup {-12}
       /\ entry[e].NetorFile \in {net, file}
       /\ entry[e].full \in 0..1 /\ entry[e].full2 \in 0..1
       /\ worker[e].pc \in {"none", "start", "walk", "fault", "recv", "exec", "reply",
                            "loop", "exit"}
       /\ worker[e].at \in Entries \cup {NULL}
  /\ \A t \in Threads :
       /\ pc[t] \in {"app", "original", "lock", "send", "recv", "accepted",
                     "link", "unlock", "join", "done"}
       /\ frame[t].call \in CallRecords
       /\ frame[t].fd \in Fds \cup {-1}
       /\ frame[t].tmp \in Entries \cup {NULL}
       /\ readers[t] \in Nat /\ made[t] \in 0..MaxCalls
  /\ writer \in Threads \cup {NULL}
  /\ openFds \subseteq Fds /\ known \subseteq openFds

(* An entry that is in use is not freed: not one that a wrapper has looked  *)
(* up, not the entry of a live worker, also of one that still searches for  *)
(* it.  close frees it only after it has the write lock and has joined the  *)
(* worker.  The nodes a search passes on its way are not spoken of here.    *)
NoUseAfterFree ==
  /\ \A t \in Threads :
       (frame[t].tmp # NULL /\ pc[t] \notin {"original", "done"})
          => frame[t].tmp \in allocated
  /\ \A e \in Entries : worker[e].pc \notin {"none", "exit"} => e \in allocated

(* The table and the kernel agree: an entry is for a descriptor that is     *)
(* open, and for one no other entry has.  close deletes the entry before it *)
(* lets the kernel reuse the number.                                        *)
TableMatchesKernel ==
  \A d, e \in Linked :
     /\ entry[e].thr_fd \in openFds
     /\ d # e => entry[d].thr_fd # entry[e].thr_fd

(* fdtable_add adds the given entry: every allocated entry is in the list,  *)
(* once, and thr_num counts them.                                           *)
TableIntact ==
  /\ allocated = Linked
  /\ thr_num = Len(table) /\ Cardinality(Linked) = Len(table)

(* The lookup returns the entry of a descriptor that has one. *)
LookupFinds ==
  \A e \in Linked : fdtable_get_by_fd_all(entry[e].thr_fd) = e

(* Every entry has a worker that serves it, unless close is about to join   *)
(* the worker and delete the entry.                                         *)
ServedEntries ==
  \A e \in Linked :
     \/ worker[e].pc \notin {"none", "exit"}
     \/ \E t \in Threads : pc[t] \in {"recv", "join"} /\ frame[t].tmp = e
                           /\ call(t).kind = "close"

(* A wrapper that returns has given table_rwlock back. *)
LockReleased ==
  \A t \in Threads : pc[t] \in {"app", "done"} => readers[t] = 0 /\ writer # t

(* A wrapper returns what the kernel answered to its own call. *)
ReturnsOutcome ==
  \A t \in Threads : pc[t] = "done" => frame[t].ret = outcome[t].val

(* The application sees the error of a failed call in errno, whether the    *)
(* worker or the wrapper performed it.  write is the exception: it never    *)
(* looks at the errno its worker sends (l.1113).                            *)
ErrnoDelivered ==
  \A t \in Threads :
     (pc[t] = "done" /\ outcome[t].err # 0 /\ call(t) # write)
        => errno[t] = outcome[t].err

(* A search does not miss its entry, although entries are added and deleted *)
(* meanwhile: unless the node it stands on has been deleted, its own entry  *)
(* is still ahead.  So it meets freed memory only by the deletion of an     *)
(* entry that is newer than its own.                                        *)
Ahead(d, e) == \E i, j \in DOMAIN table : i <= j /\ table[i] = d /\ table[j] = e
SearchAhead ==
  \A e \in Entries : worker[e].pc = "walk" =>
    /\ worker[e].at # NULL
    /\ worker[e].at \in Linked => Ahead(worker[e].at, e)

(* Every call returns, unless the process is gone or a call waits in the    *)
(* kernel for ever: the thread's own, or any that was forwarded, because it *)
(* keeps table_rwlock for reading.                                          *)
CallsReturn ==
  \A t \in Threads :
    \/ (pc[t] # "app") ~> (pc[t] = "app")
    \/ <>[](ThreadBlocks(t) \/ \E e \in Entries : WorkerBlocks(e))
    \/ <>Crashed

(* A call that waits in the kernel, for however long, keeps no other        *)
(* forwarded call from the table: the lock is shared among readers, and a   *)
(* writer that has it does not wait for the kernel.                         *)
ReadersPass ==
  \A t \in Threads : Is(t, "forward", "lock") ~> (pc[t] # "lock" \/ Crashed)
=============================================================================

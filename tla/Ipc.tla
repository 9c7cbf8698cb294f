-------------------------------- MODULE Ipc --------------------------------
(***************************************************************************)
(* The channel of one descriptor (ipc.c): application threads inside a      *)
(* wrapper hand a request to the descriptor's worker thread and receive the *)
(* result.  thread_info holds six semaphores, three for each direction, and *)
(* ONE message buffer that both directions use.                             *)
(*                                                                          *)
(* Every semaphore operation is a step of its own.  A memcpy to or from the *)
(* buffer lasts from the moment its mutex is held until its own step; two   *)
(* copies that overlap, one of them writing, are a data race and may leave  *)
(* Torn bytes.                                                              *)
(***************************************************************************)
EXTENDS Naturals, FiniteSets

CONSTANTS
  Callers,    \* application threads that use the descriptor
  worker,     \* the descriptor's syscall_thread
  MaxCalls,   \* bound: calls per caller
  Exclusive   \* TRUE: the application never uses a descriptor from two
              \* threads at once.  The wrappers do not enforce this: they
              \* take table_rwlock only for reading.

ASSUME WorkerAssumption == worker \notin Callers
ASSUME MaxCallsAssumption == MaxCalls \in Nat
ASSUME ExclusiveAssumption == Exclusive \in BOOLEAN

VARIABLES
  pc,        \* where each thread is
  sem,       \* the semaphores of the thread_info
  message,   \* the buffer of the thread_info
  overlap,   \* threads whose running memcpy has met a conflicting one
  buf,       \* worker: the request, then its result; caller: recv_data
  calls,     \* number of calls each caller has made
  executed   \* number of system calls the worker performed for each caller

vars == <<pc, sem, message, overlap, buf, calls, executed>>

Threads == Callers \cup {worker}

(* args_data and retval_data, reduced to the call they belong to; Garbage is *)
(* the result of executing something that was never a request.               *)
Request(c) == [kind |-> "args_data", caller |-> c, seq |-> calls[c]]
Result(args) ==
  IF args.kind = "args_data" THEN [args EXCEPT !.kind = "retval_data"]
                             ELSE [args EXCEPT !.kind = "garbage"]
Kinds == {"zero", "args_data", "retval_data", "garbage", "torn"}
Messages == [kind : Kinds, caller : Threads, seq : 0..MaxCalls]
Zero == [kind |-> "zero", caller |-> worker, seq |-> 0]
Torn == [kind |-> "torn", caller |-> worker, seq |-> 0]

Semaphores == {"empty", "full", "mutex", "empty2", "full2", "mutex2"}

(* Positions: the n-th statement of send_to_thread (ST), recv_from_thread   *)
(* (RT), recv_from_app (RA) and send_to_app (SA).                           *)
CallerPcs == {"app", "ST1", "ST2", "ST3", "ST4", "ST5",
              "RT1", "RT2", "RT3", "RT4", "RT5"}
WorkerPcs == {"RA1", "RA2", "RA3", "RA4", "RA5", "exec",
              "SA1", "SA2", "SA3", "SA4", "SA5"}
WritePcs == {"ST3", "SA3"}
CopyPcs  == WritePcs \cup {"RT3", "RA3"}

Copying == {t \in Threads : pc[t] \in CopyPcs}

Goto(t, from, to) == pc[t] = from /\ pc' = [pc EXCEPT ![t] = to]

(* Mutant: an interrupted wait returns although nothing was posted. *)
MutInterruptedWait(s) ==
  sem' = [sem EXCEPT ![s] = IF @ > 0 THEN @ - 1 ELSE @]
sem_wait(s) == sem[s] > 0 /\ sem' = [sem EXCEPT ![s] = @ - 1]
sem_post(s) == sem' = [sem EXCEPT ![s] = @ + 1]

(* The copies under way that conflict with one of t that starts at `at'. *)
Conflicts(t, at) ==
  {u \in Copying \ {t} : at \in WritePcs \/ pc[u] \in WritePcs}
BeginCopy(t, at) ==
  overlap' = IF Conflicts(t, at) = {} THEN overlap
             ELSE overlap \cup Conflicts(t, at) \cup {t}

(* memcpy(message, data) and memcpy(data, message) of thread t. *)
CopyIn(t, data) ==
  /\ \E m \in (IF t \in overlap THEN {data, message, Torn} ELSE {data}) :
        message' = m
  /\ overlap' = overlap \ {t}
  /\ UNCHANGED <<sem, buf>>
CopyOut(t) ==
  /\ \E m \in (IF t \in overlap THEN {message, Torn} ELSE {message}) :
        buf' = [buf EXCEPT ![t] = m]
  /\ overlap' = overlap \ {t}
  /\ UNCHANGED <<sem, message>>

(* The three kinds of statement that act on a semaphore: wait for a token, *)
(* enter the mutex (and the memcpy behind it), post.                        *)
Wait(t, from, s, to) ==
  Goto(t, from, to) /\ sem_wait(s) /\ UNCHANGED <<message, overlap, buf>>
Lock(t, from, s, to) ==
  /\ Goto(t, from, to) /\ sem_wait(s) /\ BeginCopy(t, to)
  /\ UNCHANGED <<message, buf>>
Post(t, from, s, to) ==
  Goto(t, from, to) /\ sem_post(s) /\ UNCHANGED <<message, overlap, buf>>

(* The semaphores of a new entry, as fdtable_add initialises them. *)
MutInitialSem == [s \in Semaphores |-> 1]
InitialSem ==
  [s \in Semaphores |-> IF s \in {"full", "full2"} THEN 0 ELSE 1]

(* fdtable_add: fresh semaphores and a zeroed buffer. *)
Init ==
  /\ pc = [t \in Threads |-> IF t = worker THEN "RA1" ELSE "app"]
  /\ sem = InitialSem
  /\ message = Zero
  /\ overlap = {}
  /\ buf = [t \in Threads |-> Zero]
  /\ calls = [c \in Callers |-> 0]
  /\ executed = [c \in Callers |-> 0]

(* A wrapper is entered: it fills in send_data and calls send_to_thread. *)
Call(c) ==
  /\ calls[c] < MaxCalls
  /\ Exclusive => \A d \in Callers : pc[d] = "app"
  /\ Goto(c, "app", "ST1")
  /\ calls' = [calls EXCEPT ![c] = @ + 1]
  /\ UNCHANGED <<sem, message, overlap, buf, executed>>

CPART_send_to_thread(c) ==
  /\ \/ Wait(c, "ST1", "empty", "ST2")
     \/ Lock(c, "ST2", "mutex", "ST3")
     \/ Goto(c, "ST3", "ST4") /\ CopyIn(c, Request(c))
     \/ Post(c, "ST4", "mutex", "ST5")
     \/ Post(c, "ST5", "full", "RT1")
  /\ UNCHANGED <<calls, executed>>

(* Mutants: the wait for full2 is dropped; empty is posted for empty2. *)
MutNoWaitForResult(c) ==
  /\ \/ Lock(c, "RT1", "mutex2", "RT3")
     \/ Goto(c, "RT3", "RT4") /\ CopyOut(c)
     \/ Post(c, "RT4", "mutex2", "RT5")
     \/ Post(c, "RT5", "empty2", "app")
  /\ UNCHANGED <<calls, executed>>
MutPostsWrongEmpty(c) ==
  /\ \/ Wait(c, "RT1", "full2", "RT2")
     \/ Lock(c, "RT2", "mutex2", "RT3")
     \/ Goto(c, "RT3", "RT4") /\ CopyOut(c)
     \/ Post(c, "RT4", "mutex2", "RT5")
     \/ Post(c, "RT5", "empty", "app")
  /\ UNCHANGED <<calls, executed>>
CPART_recv_from_thread(c) ==
  /\ \/ Wait(c, "RT1", "full2", "RT2")
     \/ Lock(c, "RT2", "mutex2", "RT3")
     \/ Goto(c, "RT3", "RT4") /\ CopyOut(c)
     \/ Post(c, "RT4", "mutex2", "RT5")
     \/ Post(c, "RT5", "empty2", "app")
  /\ UNCHANGED <<calls, executed>>

(* Mutant: the request is read without waiting for full. *)
MutNoWaitForRequest ==
  /\ \/ Lock(worker, "RA1", "mutex", "RA3")
     \/ Goto(worker, "RA3", "RA4") /\ CopyOut(worker)
     \/ Post(worker, "RA4", "mutex", "exec")
  /\ UNCHANGED <<calls, executed>>
CPART_recv_from_app ==
  /\ \/ Wait(worker, "RA1", "full", "RA2")
     \/ Lock(worker, "RA2", "mutex", "RA3")
     \/ Goto(worker, "RA3", "RA4") /\ CopyOut(worker)
     \/ Post(worker, "RA4", "mutex", "RA5")
     \/ Post(worker, "RA5", "empty", "exec")
  /\ UNCHANGED <<calls, executed>>

(* syscall_thread's switch: perform the request, keep its outcome. *)
Execute ==
  /\ Goto(worker, "exec", "SA1")
  /\ executed' = IF buf[worker].kind = "args_data"
                 THEN [executed EXCEPT ![buf[worker].caller] = @ + 1]
                 ELSE executed
  /\ buf' = [buf EXCEPT ![worker] = Result(@)]
  /\ UNCHANGED <<sem, message, overlap, calls>>

(* Mutants: full2 is posted before the copy; full is posted for full2.      *)
MutPostsBeforeCopy ==
  /\ \/ Wait(worker, "SA1", "empty2", "SA2")
     \/ Lock(worker, "SA2", "mutex2", "SA4")
     \/ Post(worker, "SA4", "mutex2", "SA5")
     \/ Post(worker, "SA5", "full2", "SA3")
     \/ Goto(worker, "SA3", "RA1") /\ CopyIn(worker, buf[worker])
  /\ UNCHANGED <<calls, executed>>
MutPostsWrongFull ==
  /\ \/ Wait(worker, "SA1", "empty2", "SA2")
     \/ Lock(worker, "SA2", "mutex2", "SA3")
     \/ Goto(worker, "SA3", "SA4") /\ CopyIn(worker, buf[worker])
     \/ Post(worker, "SA4", "mutex2", "SA5")
     \/ Post(worker, "SA5", "full", "RA1")
  /\ UNCHANGED <<calls, executed>>
CPART_send_to_app ==
  /\ \/ Wait(worker, "SA1", "empty2", "SA2")
     \/ Lock(worker, "SA2", "mutex2", "SA3")
     \/ Goto(worker, "SA3", "SA4") /\ CopyIn(worker, buf[worker])
     \/ Post(worker, "SA4", "mutex2", "SA5")
     \/ Post(worker, "SA5", "full2", "RA1")
  /\ UNCHANGED <<calls, executed>>

CallerStep(c) ==
  CPART_send_to_thread(c) \/ CPART_recv_from_thread(c)
WorkerStep == CPART_recv_from_app \/ Execute \/ CPART_send_to_app

(* Every caller has made its calls and the worker waits: the bounded run ends. *)
Finished ==
  /\ \A c \in Callers : pc[c] = "app" /\ calls[c] = MaxCalls
  /\ pc[worker] = "RA1" /\ sem["full"] = 0
  /\ UNCHANGED vars

Next == \/ \E c \in Callers : Call(c) \/ CallerStep(c)
        \/ WorkerStep
        \/ Finished

(* The threads are pthreads of one process, and the system calls they       *)
(* perform are assumed to return.                                           *)
Fairness == WF_vars(WorkerStep) /\ \A c \in Callers : WF_vars(CallerStep(c))

Spec == Init /\ [][Next]_vars
FairSpec == Spec /\ Fairness
-----------------------------------------------------------------------------
(* Every variable keeps its type; the semaphores stay binary, as the code   *)
(* that initialises them to 0 or 1 means them to be.                        *)
TypeOK ==
  /\ pc \in [Threads -> CallerPcs \cup WorkerPcs]
  /\ \A c \in Callers : pc[c] \in CallerPcs
  /\ pc[worker] \in WorkerPcs
  /\ sem \in [Semaphores -> {0, 1}]
  /\ message \in Messages
  /\ overlap \subseteq Threads
  /\ buf \in [Threads -> Messages]
  /\ calls \in [Callers -> 0..MaxCalls]
  /\ executed \in [Callers -> Nat]

(* Threads that have taken a token of a lane and not yet passed it on. *)
InLane1 == {t \in Threads : pc[t] \in {"ST2", "ST3", "ST4", "ST5",
                                       "RA2", "RA3", "RA4", "RA5"}}
InLane2 == {t \in Threads : pc[t] \in {"SA2", "SA3", "SA4", "SA5",
                                       "RT2", "RT3", "RT4", "RT5"}}
OneToken(e, f, holders) ==
  \/ e + f = 1 /\ holders = {}
  \/ e + f = 0 /\ \E t \in holders : holders = {t}

(* Each direction has one token: in empty, in full, or held by the single   *)
(* thread between its sem_wait and its sem_post.  No interleaving of any    *)
(* number of callers loses or duplicates it.                                *)
LaneTokens ==
  /\ OneToken(sem["empty"], sem["full"], InLane1)
  /\ OneToken(sem["empty2"], sem["full2"], InLane2)

(* A result is produced for every caller that waits for one, and for no     *)
(* other: when nobody is inside a call and the worker is back at its first  *)
(* sem_wait, neither direction has a message left in it.                    *)
NothingLeftOver ==
  (pc[worker] = "RA1" /\ \A c \in Callers : pc[c] = "app")
     => sem["full"] = 0 /\ sem["full2"] = 0

(* No memcpy on the buffer runs while another one that conflicts with it.   *)
NoDataRace ==
  \A t, u \in Copying :
     t # u => pc[t] \notin WritePcs /\ pc[u] \notin WritePcs

(* A caller that returns from recv_from_thread holds the result of its own  *)
(* request.                                                                 *)
OwnResult ==
  \A c \in Callers :
     pc[c] \in {"RT4", "RT5"} \/ (pc[c] = "app" /\ calls[c] > 0) =>
        buf[c] = [kind |-> "retval_data", caller |-> c, seq |-> calls[c]]

(* A call that has been entered returns. *)
CallsReturn == \A c \in Callers : (pc[c] # "app") ~> (pc[c] = "app")

(* The result a caller holds, as the number of the call it answers. *)
Answered(c) ==
  IF buf[c] = Zero THEN 0
  ELSE IF buf[c].kind = "retval_data" /\ buf[c].caller = c THEN buf[c].seq
  ELSE MaxCalls + 1

(* Each request is executed exactly once and its caller obtains its result: *)
(* the channel implements RemoteCall.                                       *)
RC == INSTANCE RemoteCall WITH
        asked <- calls, executed <- executed,
        answered <- [c \in Callers |-> Answered(c)]
ImplementsRemoteCall == RC!Spec
=============================================================================

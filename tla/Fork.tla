-------------------------------- MODULE Fork --------------------------------
(***************************************************************************)
(* fork in a process whose threads use a descriptor's channel (Ipc).  The   *)
(* child has a copy of the channel, in whatever state other threads' calls  *)
(* were, but of the threads only the one that called fork.  There           *)
(* fdtable_forked creates a worker and only then gives the entry a new      *)
(* buffer and initialises its semaphores, so that the worker may use them   *)
(* first.                                                                   *)
(***************************************************************************)
EXTENDS Ipc, Sequences

VARIABLES
  at,         \* next statement of fdtable_forked in the child
  forker,     \* the thread that called fork
  cpc, csem, cmessage, coverlap, cbuf, ccalls, cexecuted,
              \* the child's channel and threads
  asleep,     \* the child's worker sleeps in a sem_wait
  lost,       \* ... on a semaphore that has forgotten its waiter
  early,      \* history: that worker used a semaphore before it was ready
  pending     \* history: a request was in the channel at the fork

childVars == <<at, forker, cpc, csem, cmessage, coverlap, cbuf, ccalls, cexecuted,
               asleep, lost, early, pending>>
fvars == <<vars, childVars>>

C == INSTANCE Ipc WITH pc <- cpc, sem <- csem, message <- cmessage, overlap <- coverlap,
                       buf <- cbuf, calls <- ccalls, executed <- cexecuted
channel == <<cpc, csem, cmessage, coverlap, cbuf, ccalls, cexecuted>>

(* The statements of fdtable_forked for an entry: pthread_create, malloc,   *)
(* and the semaphores in this order.                                        *)
Inits == <<"empty", "full", "empty2", "full2", "mutex", "mutex2">>
Ready == Len(Inits) + 3

FInit ==
  /\ Init
  /\ at = 0 /\ forker = worker
  /\ cpc = pc /\ csem = sem /\ cmessage = message /\ coverlap = {}
  /\ cbuf = buf /\ ccalls = calls /\ cexecuted = executed
  /\ asleep = FALSE /\ lost = FALSE /\ early = FALSE /\ pending = FALSE

(* A thread outside the wrappers forks.  The others are gone in the child;  *)
(* what one of them was writing is in the buffer or not, or partly.         *)
ForkNow(c) ==
  /\ at = 0 /\ pc[c] = "app"
  /\ at' = 1 /\ forker' = c
  /\ cpc' = [t \in Threads |-> IF t = worker THEN "none" ELSE "app"]
  /\ csem' = sem
  /\ cmessage' \in {message} \cup
       (IF \E t \in Copying : pc[t] \in WritePcs THEN {Torn} ELSE {})
  /\ coverlap' = {}
  /\ cbuf' = [buf EXCEPT ![worker] = Zero]
  /\ ccalls' = calls /\ cexecuted' = [d \in Callers |-> 0]
  /\ pending' = (sem["full"] = 1)
  /\ UNCHANGED <<vars, asleep, lost, early>>

(* A pthread_create that fails is only reported. *)
CreateWorker ==
  /\ at = 1 /\ at' = 2
  /\ \E p \in {"RA1", "none"} : cpc' = [cpc EXCEPT ![worker] = p]
  /\ UNCHANGED <<vars, forker, csem, cmessage, coverlap, cbuf, ccalls, cexecuted,
                 asleep, lost, early, pending>>

(* The new buffer has no defined contents; a copy under way may use either. *)
NewMessage ==
  /\ at = 2 /\ at' = 3
  /\ cmessage' = Torn
  /\ coverlap' = coverlap \cup (C!Copying \cap {worker})
  /\ UNCHANGED <<vars, forker, cpc, csem, cbuf, ccalls, cexecuted,
                 asleep, lost, early, pending>>

(* sem_init.  On a semaphore somebody sleeps on it is undefined: glibc      *)
(* forgets the sleeper, which a later sem_post then does not wake.          *)
WaitsFor(p) == CASE p = "RA1" -> "full" [] p = "RA2" -> "mutex"
                 [] p = "SA1" -> "empty2" [] p = "SA2" -> "mutex2" [] OTHER -> "none"
MutKeepsFull(s) == IF s = "full" THEN csem[s] ELSE InitialSem[s]
MutKeepsFull2(s) == IF s = "full2" THEN csem[s] ELSE InitialSem[s]
MutKeepsEmpty2(s) == IF s = "empty2" THEN csem[s] ELSE InitialSem[s]
NewValue(s) == InitialSem[s]
SemInit ==
  /\ at \in 3..(Ready - 1) /\ at' = at + 1
  /\ LET s == Inits[at - 2]
     IN /\ csem' = [csem EXCEPT ![s] = NewValue(s)]
        /\ lost' \in {lost, lost \/ (asleep /\ WaitsFor(cpc[worker]) = s)}
  /\ UNCHANGED <<vars, forker, cpc, cmessage, coverlap, cbuf, ccalls, cexecuted,
                 asleep, early, pending>>

(* The child's worker: sem_wait puts it to sleep, or it makes a step. *)
WorkerSleeps ==
  /\ at > 1 /\ ~asleep
  /\ WaitsFor(cpc[worker]) # "none" /\ csem[WaitsFor(cpc[worker])] = 0
  /\ asleep' = TRUE /\ early' = (early \/ at < Ready)
  /\ UNCHANGED <<vars, at, forker, channel, lost, pending>>
ChildWorker ==
  /\ at > 1 /\ ~(asleep /\ lost)
  /\ C!WorkerStep
  /\ asleep' = FALSE /\ early' = (early \/ at < Ready)
  /\ UNCHANGED <<vars, at, forker, lost, pending>>

(* fork has returned in the child, which uses the descriptor. *)
ChildCall == /\ at = Ready /\ C!Call(forker)
             /\ UNCHANGED <<vars, at, forker, asleep, lost, early, pending>>
ChildCaller == /\ at = Ready /\ C!CallerStep(forker)
               /\ UNCHANGED <<vars, at, forker, asleep, lost, early, pending>>

Forked == CreateWorker \/ NewMessage \/ SemInit
(* The two processes share nothing: after the fork only the child is        *)
(* followed; the parent goes on as if there had been none.                  *)
FNext ==
  \/ at = 0 /\ Next /\ UNCHANGED childVars
  \/ \E c \in Callers : ForkNow(c)
  \/ Forked \/ WorkerSleeps \/ ChildWorker \/ ChildCall \/ ChildCaller

FSpec == FInit /\ [][FNext]_fvars
(* The child's threads run. *)
FFairSpec == /\ FSpec
             /\ WF_fvars(Forked) /\ WF_fvars(ChildWorker) /\ WF_fvars(ChildCaller)
-----------------------------------------------------------------------------
(* The channel of the child starts afresh, whatever call of another thread  *)
(* the fork cut off: unless its worker was faster than fdtable_forked, a    *)
(* caller in the child obtains the result of its own request.               *)
ChildOwnResult ==
  at = Ready /\ ~early /\ cpc[forker] \in {"RT4", "RT5", "app"} /\ ccalls[forker] > 0
    => cbuf[forker] = [kind |-> "retval_data", caller |-> forker, seq |-> ccalls[forker]]

(* What the child's worker performs was asked for in the child, except in   *)
(* one case: a request of another thread was in the channel at the fork and *)
(* the worker was faster than fdtable_forked.  It then performs that        *)
(* request a second time, or whatever the new buffer holds.                 *)
ServesChildOnly ==
  at > 1 /\ cpc[worker] = "exec" =>
    \/ cbuf[worker] = C!Request(forker)
    \/ early /\ pending

(* Calls in the child return when its worker was created, unless that       *)
(* worker was faster than fdtable_forked (it may then sleep on a semaphore  *)
(* that was initialised under it).  Without a worker they never return:     *)
(* fdtable_forked leaves the entry in the table.                            *)
ChildCallsReturn ==
  (at = Ready /\ ~early /\ cpc[worker] # "none" /\ cpc[forker] # "app")
    ~> (at = Ready /\ cpc[forker] = "app")
=============================================================================

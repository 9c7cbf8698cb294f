------------------------------ MODULE Ipc_proof ------------------------------
(***************************************************************************)
(* Proofs about Ipc, for any number of callers and of calls.  First what    *)
(* holds however many threads use the descriptor at once: types and the     *)
(* tokens of the two lanes.  Then, for callers that use it one at a time,   *)
(* that the single buffer is never accessed by two threads, that a caller   *)
(* receives the result of its own request, and that the channel implements  *)
(* RemoteCall.                                                              *)
(***************************************************************************)
EXTENDS Ipc, FiniteSetTheorems, TLAPS

Lane1Pcs == {"ST2", "ST3", "ST4", "ST5", "RA2", "RA3", "RA4", "RA5"}
Lane2Pcs == {"SA2", "SA3", "SA4", "SA5", "RT2", "RT3", "RT4", "RT5"}

Mutex1Pcs == {"ST3", "ST4", "RA3", "RA4"}
Mutex2Pcs == {"SA3", "SA4", "RT3", "RT4"}

(* LaneTokens, thread by thread: one thread at most is between taking a     *)
(* token of the lane and passing it on, and one is iff neither semaphore    *)
(* has the token.                                                           *)
Nobody(pcs) == \A t \in Threads : pc[t] \notin pcs
Lane(e, f, pcs) ==
  /\ sem[e] = 0 \/ sem[f] = 0
  /\ sem[e] = 1 \/ sem[f] = 1 => Nobody(pcs)
  /\ sem[e] = 0 /\ sem[f] = 0 => \E t \in Threads : pc[t] \in pcs
  /\ \A t, u \in Threads : pc[t] \in pcs /\ pc[u] \in pcs => t = u

(* A mutex that can be taken is held by nobody. *)
Mutex(m, pcs) == sem[m] = 1 => Nobody(pcs)

Positions ==
  /\ pc \in [Threads -> CallerPcs \cup WorkerPcs]
  /\ \A c \in Callers : pc[c] \in CallerPcs
  /\ pc[worker] \in WorkerPcs
Control ==
  /\ Positions
  /\ sem \in [Semaphores -> {0, 1}]
  /\ Lane("empty", "full", Lane1Pcs)
  /\ Lane("empty2", "full2", Lane2Pcs)
  /\ Mutex("mutex", Mutex1Pcs)
  /\ Mutex("mutex2", Mutex2Pcs)

(* The types of what the threads copy and count. *)
Data ==
  /\ message \in Messages
  /\ overlap \subseteq Threads
  /\ buf \in [Threads -> Messages]
  /\ calls \in [Callers -> 0..MaxCalls]
  /\ executed \in [Callers -> Nat]

(* With exclusive use: the result of the request c has made last. *)
Reply(c) == [kind |-> "retval_data", caller |-> c, seq |-> calls[c]]
WorkerIdle == pc[worker] = "RA1"

(* What the worker holds while it serves c. *)
WorkerHas(c) ==
  /\ pc[worker] \in {"RA2", "RA3"} => message = Request(c)
  /\ pc[worker] \in {"RA4", "RA5", "exec"} => buf[worker] = Request(c)
  /\ pc[worker] \in {"RA2", "RA3", "RA4", "RA5", "exec"} => executed[c] = calls[c] - 1
  /\ pc[worker] \in {"SA1", "SA2", "SA3"} => buf[worker] = Reply(c)
  /\ pc[worker] \in {"SA4", "SA5"} => message = Reply(c)
  /\ pc[worker] \in {"SA1", "SA2", "SA3", "SA4", "SA5"} => executed[c] = calls[c]

(* Where a call of c is, and the tokens and data that belong there. *)
Outside(c) ==
  /\ pc[c] = "app" /\ executed[c] = calls[c]
  /\ \/ calls[c] = 0 /\ buf[c] = Zero
     \/ calls[c] > 0 /\ buf[c] = Reply(c)
Waiting(c) ==   \* the previous result is still in buf
  /\ calls[c] > 0
  /\ \/ calls[c] = 1 /\ buf[c] = Zero
     \/ calls[c] > 1 /\ buf[c] = [Reply(c) EXCEPT !.seq = calls[c] - 1]
NoTokens == sem["full"] = 0 /\ sem["full2"] = 0
Sending(c) ==
  /\ pc[c] \in {"ST1", "ST2", "ST3", "ST4", "ST5"}
  /\ Waiting(c) /\ WorkerIdle /\ NoTokens /\ executed[c] = calls[c] - 1
  /\ pc[c] \in {"ST4", "ST5"} => message = Request(c)
Sent(c) ==
  /\ pc[c] = "RT1" /\ Waiting(c) /\ WorkerIdle
  /\ sem["full"] = 1 /\ sem["full2"] = 0
  /\ message = Request(c) /\ executed[c] = calls[c] - 1
Served(c) ==
  /\ pc[c] = "RT1" /\ Waiting(c) /\ ~WorkerIdle /\ NoTokens /\ WorkerHas(c)
Replied(c) ==
  /\ pc[c] = "RT1" /\ Waiting(c) /\ WorkerIdle
  /\ sem["full"] = 0 /\ sem["full2"] = 1
  /\ message = Reply(c) /\ executed[c] = calls[c]
Receiving(c) ==
  /\ pc[c] \in {"RT2", "RT3"} /\ Waiting(c) /\ WorkerIdle /\ NoTokens
  /\ message = Reply(c) /\ executed[c] = calls[c]
Received(c) ==
  /\ pc[c] \in {"RT4", "RT5"} /\ calls[c] > 0 /\ WorkerIdle /\ NoTokens
  /\ buf[c] = Reply(c) /\ executed[c] = calls[c]
Inside(c) == \/ Sending(c) \/ Sent(c) \/ Served(c) \/ Replied(c)
             \/ Receiving(c) \/ Received(c)

(* Either nobody is inside a call and the channel is at rest, or exactly    *)
(* one caller is, and everything else follows from where it is.             *)
AtRest == WorkerIdle /\ NoTokens /\ \A c \in Callers : Outside(c)
Active(c) == Inside(c) /\ \A d \in Callers \ {c} : Outside(d)
OneCall == overlap = {} /\ (AtRest \/ \E c \in Callers : Active(c))
-----------------------------------------------------------------------------
(* A thread stays inside its own functions. *)
LEMMA MoveKeepsPositions ==
  ASSUME Positions, NEW t \in Threads, NEW to,
         pc' = [pc EXCEPT ![t] = to],
         IF t = worker THEN to \in WorkerPcs ELSE to \in CallerPcs
  PROVE  Positions'
  BY WorkerAssumption DEF Positions, Threads

(* The statements that take the token of a lane ... *)
LEMMA TakeToken ==
  ASSUME Control, NEW t \in Threads, NEW from, NEW to, NEW s,
         Goto(t, from, to), sem_wait(s), Positions',
         \/ from = "ST1" /\ to = "ST2" /\ s = "empty"
         \/ from = "RA1" /\ to = "RA2" /\ s = "full"
         \/ from = "SA1" /\ to = "SA2" /\ s = "empty2"
         \/ from = "RT1" /\ to = "RT2" /\ s = "full2"
  PROVE  Control'
  <1> USE DEF Control, Goto, Lane, Mutex, Nobody, Positions
  <1>1. s \in Semaphores /\ sem[s] = 1 /\ sem' = [sem EXCEPT ![s] = 0]
    <2>1. s \in Semaphores BY DEF Semaphores
    <2>2. sem[s] \in {0, 1} BY <2>1
    <2>3. sem[s] = 1 BY <2>2 DEF sem_wait
    <2>4. sem[s] - 1 = 0 BY <2>3
    <2> QED BY <2>1, <2>3, <2>4 DEF sem_wait
  <1>2. sem' \in [Semaphores -> {0, 1}]
    BY <1>1
  <1>3. Lane("empty", "full", Lane1Pcs)'
    BY <1>1 DEF Semaphores, Lane1Pcs
  <1>4. Lane("empty2", "full2", Lane2Pcs)'
    BY <1>1 DEF Semaphores, Lane2Pcs
  <1>5. Mutex("mutex", Mutex1Pcs)' /\ Mutex("mutex2", Mutex2Pcs)'
    BY <1>1 DEF Semaphores, Mutex1Pcs, Mutex2Pcs
  <1> QED BY <1>2, <1>3, <1>4, <1>5

(* ... pass it on ... *)
LEMMA PassToken ==
  ASSUME Control, NEW t \in Threads, NEW from, NEW to, NEW s,
         Goto(t, from, to), sem_post(s), Positions',
         \/ from = "ST5" /\ to = "RT1" /\ s = "full"
         \/ from = "RA5" /\ to = "exec" /\ s = "empty"
         \/ from = "SA5" /\ to = "RA1" /\ s = "full2"
         \/ from = "RT5" /\ to = "app" /\ s = "empty2"
  PROVE  Control'
  <1> USE DEF Control, Goto, Lane, Mutex, Nobody, Positions
  <1>1. s \in Semaphores /\ sem[s] = 0 /\ sem' = [sem EXCEPT ![s] = 1]
    <2>1. s \in Semaphores BY DEF Semaphores
    <2>2. sem[s] \in {0, 1} BY <2>1
    <2>3. pc[t] \in Lane1Pcs \/ pc[t] \in Lane2Pcs BY DEF Lane1Pcs, Lane2Pcs
    <2>4. sem[s] = 0 BY <2>2, <2>3 DEF Lane1Pcs, Lane2Pcs
    <2> QED BY <2>1, <2>4 DEF sem_post
  <1>2. sem' \in [Semaphores -> {0, 1}]
    BY <1>1
  <1>3. Lane("empty", "full", Lane1Pcs)'
    BY <1>1 DEF Semaphores, Lane1Pcs
  <1>4. Lane("empty2", "full2", Lane2Pcs)'
    BY <1>1 DEF Semaphores, Lane2Pcs
  <1>5. Mutex("mutex", Mutex1Pcs)' /\ Mutex("mutex2", Mutex2Pcs)'
    BY <1>1 DEF Semaphores, Mutex1Pcs, Mutex2Pcs
  <1> QED BY <1>2, <1>3, <1>4, <1>5

(* ... take the mutex of a lane and give it back ... *)
LEMMA TakeMutex ==
  ASSUME Control, NEW t \in Threads, NEW from, NEW to, NEW s,
         Goto(t, from, to), sem_wait(s), Positions',
         \/ from = "ST2" /\ to = "ST3" /\ s = "mutex"
         \/ from = "RA2" /\ to = "RA3" /\ s = "mutex"
         \/ from = "SA2" /\ to = "SA3" /\ s = "mutex2"
         \/ from = "RT2" /\ to = "RT3" /\ s = "mutex2"
  PROVE  Control'
  <1> USE DEF Control, Goto, Lane, Mutex, Nobody, Positions
  <1>1. s \in Semaphores /\ sem[s] = 1 /\ sem' = [sem EXCEPT ![s] = 0]
    <2>1. s \in Semaphores BY DEF Semaphores
    <2>2. sem[s] \in {0, 1} BY <2>1
    <2>3. sem[s] = 1 BY <2>2 DEF sem_wait
    <2>4. sem[s] - 1 = 0 BY <2>3
    <2> QED BY <2>1, <2>3, <2>4 DEF sem_wait
  <1>2. sem' \in [Semaphores -> {0, 1}]
    BY <1>1
  <1>3. Lane("empty", "full", Lane1Pcs)'
    BY <1>1 DEF Semaphores, Lane1Pcs
  <1>4. Lane("empty2", "full2", Lane2Pcs)'
    BY <1>1 DEF Semaphores, Lane2Pcs
  <1>5. Mutex("mutex", Mutex1Pcs)' /\ Mutex("mutex2", Mutex2Pcs)'
    BY <1>1 DEF Semaphores, Mutex1Pcs, Mutex2Pcs
  <1> QED BY <1>2, <1>3, <1>4, <1>5

LEMMA GiveMutex ==
  ASSUME Control, NEW t \in Threads, NEW from, NEW to, NEW s,
         Goto(t, from, to), sem_post(s), Positions',
         \/ from = "ST4" /\ to = "ST5" /\ s = "mutex"
         \/ from = "RA4" /\ to = "RA5" /\ s = "mutex"
         \/ from = "SA4" /\ to = "SA5" /\ s = "mutex2"
         \/ from = "RT4" /\ to = "RT5" /\ s = "mutex2"
  PROVE  Control'
  <1> USE DEF Control, Goto, Lane, Mutex, Nobody, Positions
  <1>1. s \in Semaphores /\ sem[s] = 0 /\ sem' = [sem EXCEPT ![s] = 1]
    <2>1. s \in Semaphores BY DEF Semaphores
    <2>2. sem[s] \in {0, 1} BY <2>1
    <2>3. sem[s] = 0 BY <2>2 DEF Mutex1Pcs, Mutex2Pcs
    <2> QED BY <2>1, <2>3 DEF sem_post
  <1>2. sem' \in [Semaphores -> {0, 1}]
    BY <1>1
  <1>3. Lane("empty", "full", Lane1Pcs)'
    BY <1>1 DEF Semaphores, Lane1Pcs
  <1>4. Lane("empty2", "full2", Lane2Pcs)'
    BY <1>1 DEF Semaphores, Lane2Pcs
  <1>5. Mutex("mutex", Mutex1Pcs)' /\ Mutex("mutex2", Mutex2Pcs)'
    BY <1>1 DEF Semaphores, Lane1Pcs, Lane2Pcs, Mutex1Pcs, Mutex2Pcs
  <1> QED BY <1>2, <1>3, <1>4, <1>5

(* ... and the ones that touch no semaphore. *)
LEMMA NoSemaphore ==
  ASSUME Control, NEW t \in Threads, NEW from, NEW to,
         Goto(t, from, to), sem' = sem, Positions',
         \/ from = "app" /\ to = "ST1"
         \/ from = "ST3" /\ to = "ST4"
         \/ from = "RT3" /\ to = "RT4"
         \/ from = "RA3" /\ to = "RA4"
         \/ from = "exec" /\ to = "SA1"
         \/ from = "SA3" /\ to = "SA4"
  PROVE  Control'
  <1> USE DEF Control, Goto, Lane, Mutex, Nobody, Positions
  <1>1. Lane("empty", "full", Lane1Pcs)'
    BY DEF Semaphores, Lane1Pcs
  <1>2. Lane("empty2", "full2", Lane2Pcs)'
    BY DEF Semaphores, Lane2Pcs
  <1>3. Mutex("mutex", Mutex1Pcs)' /\ Mutex("mutex2", Mutex2Pcs)'
    BY DEF Semaphores, Mutex1Pcs, Mutex2Pcs
  <1> QED BY <1>1, <1>2, <1>3

(* The step of a thread from one position to the next. *)
LEMMA StepKeepsPositions ==
  ASSUME Positions, NEW t \in Threads, NEW from, NEW to, Goto(t, from, to),
         \/ t \in Callers /\ to \in CallerPcs
         \/ t = worker /\ to \in WorkerPcs
  PROVE  Positions'
  BY MoveKeepsPositions, WorkerAssumption DEF Goto

LEMMA ControlInductive == Control /\ [Next]_vars => Control'
  <1> SUFFICES ASSUME Control, [Next]_vars PROVE Control'
    OBVIOUS
  <1> Positions
    BY DEF Control
  <1> \A c \in Callers : c \in Threads
    BY DEF Threads
  <1> worker \in Threads
    BY DEF Threads
  <1>1. CASE \E c \in Callers : Call(c)
    <2> PICK c \in Callers : Call(c)
      BY <1>1
    <2>1. Goto(c, "app", "ST1") /\ sem' = sem
      BY DEF Call
    <2>2. Positions'
      BY <2>1, StepKeepsPositions DEF CallerPcs
    <2> QED BY <2>1, <2>2, NoSemaphore
  <1>2. CASE \E c \in Callers : CPART_send_to_thread(c)
    <2> PICK c \in Callers : CPART_send_to_thread(c)
      BY <1>2
    <2>1. CASE Wait(c, "ST1", "empty", "ST2")
      <3>1. Goto(c, "ST1", "ST2") /\ sem_wait("empty")  BY <2>1 DEF Wait
      <3>2. Positions'  BY <3>1, StepKeepsPositions DEF CallerPcs
      <3> QED BY <3>1, <3>2, TakeToken
    <2>2. CASE Lock(c, "ST2", "mutex", "ST3")
      <3>1. Goto(c, "ST2", "ST3") /\ sem_wait("mutex")  BY <2>2 DEF Lock
      <3>2. Positions'  BY <3>1, StepKeepsPositions DEF CallerPcs
      <3> QED BY <3>1, <3>2, TakeMutex
    <2>3. CASE Goto(c, "ST3", "ST4") /\ CopyIn(c, Request(c))
      <3>1. Goto(c, "ST3", "ST4") /\ sem' = sem  BY <2>3 DEF CopyIn
      <3>2. Positions'  BY <3>1, StepKeepsPositions DEF CallerPcs
      <3> QED BY <3>1, <3>2, NoSemaphore
    <2>4. CASE Post(c, "ST4", "mutex", "ST5")
      <3>1. Goto(c, "ST4", "ST5") /\ sem_post("mutex")  BY <2>4 DEF Post
      <3>2. Positions'  BY <3>1, StepKeepsPositions DEF CallerPcs
      <3> QED BY <3>1, <3>2, GiveMutex
    <2>5. CASE Post(c, "ST5", "full", "RT1")
      <3>1. Goto(c, "ST5", "RT1") /\ sem_post("full")  BY <2>5 DEF Post
      <3>2. Positions'  BY <3>1, StepKeepsPositions DEF CallerPcs
      <3> QED BY <3>1, <3>2, PassToken
    <2> QED BY <2>1, <2>2, <2>3, <2>4, <2>5 DEF CPART_send_to_thread
  <1>3. CASE \E c \in Callers : CPART_recv_from_thread(c)
    <2> PICK c \in Callers : CPART_recv_from_thread(c)
      BY <1>3
    <2>1. CASE Wait(c, "RT1", "full2", "RT2")
      <3>1. Goto(c, "RT1", "RT2") /\ sem_wait("full2")  BY <2>1 DEF Wait
      <3>2. Positions'  BY <3>1, StepKeepsPositions DEF CallerPcs
      <3> QED BY <3>1, <3>2, TakeToken
    <2>2. CASE Lock(c, "RT2", "mutex2", "RT3")
      <3>1. Goto(c, "RT2", "RT3") /\ sem_wait("mutex2")  BY <2>2 DEF Lock
      <3>2. Positions'  BY <3>1, StepKeepsPositions DEF CallerPcs
      <3> QED BY <3>1, <3>2, TakeMutex
    <2>3. CASE Goto(c, "RT3", "RT4") /\ CopyOut(c)
      <3>1. Goto(c, "RT3", "RT4") /\ sem' = sem  BY <2>3 DEF CopyOut
      <3>2. Positions'  BY <3>1, StepKeepsPositions DEF CallerPcs
      <3> QED BY <3>1, <3>2, NoSemaphore
    <2>4. CASE Post(c, "RT4", "mutex2", "RT5")
      <3>1. Goto(c, "RT4", "RT5") /\ sem_post("mutex2")  BY <2>4 DEF Post
      <3>2. Positions'  BY <3>1, StepKeepsPositions DEF CallerPcs
      <3> QED BY <3>1, <3>2, GiveMutex
    <2>5. CASE Post(c, "RT5", "empty2", "app")
      <3>1. Goto(c, "RT5", "app") /\ sem_post("empty2")  BY <2>5 DEF Post
      <3>2. Positions'  BY <3>1, StepKeepsPositions DEF CallerPcs
      <3> QED BY <3>1, <3>2, PassToken
    <2> QED BY <2>1, <2>2, <2>3, <2>4, <2>5 DEF CPART_recv_from_thread
  <1>4. CASE CPART_recv_from_app
    <2>1. CASE Wait(worker, "RA1", "full", "RA2")
      <3>1. Goto(worker, "RA1", "RA2") /\ sem_wait("full")  BY <2>1 DEF Wait
      <3>2. Positions'  BY <3>1, StepKeepsPositions DEF WorkerPcs
      <3> QED BY <3>1, <3>2, TakeToken
    <2>2. CASE Lock(worker, "RA2", "mutex", "RA3")
      <3>1. Goto(worker, "RA2", "RA3") /\ sem_wait("mutex")  BY <2>2 DEF Lock
      <3>2. Positions'  BY <3>1, StepKeepsPositions DEF WorkerPcs
      <3> QED BY <3>1, <3>2, TakeMutex
    <2>3. CASE Goto(worker, "RA3", "RA4") /\ CopyOut(worker)
      <3>1. Goto(worker, "RA3", "RA4") /\ sem' = sem  BY <2>3 DEF CopyOut
      <3>2. Positions'  BY <3>1, StepKeepsPositions DEF WorkerPcs
      <3> QED BY <3>1, <3>2, NoSemaphore
    <2>4. CASE Post(worker, "RA4", "mutex", "RA5")
      <3>1. Goto(worker, "RA4", "RA5") /\ sem_post("mutex")  BY <2>4 DEF Post
      <3>2. Positions'  BY <3>1, StepKeepsPositions DEF WorkerPcs
      <3> QED BY <3>1, <3>2, GiveMutex
    <2>5. CASE Post(worker, "RA5", "empty", "exec")
      <3>1. Goto(worker, "RA5", "exec") /\ sem_post("empty")  BY <2>5 DEF Post
      <3>2. Positions'  BY <3>1, StepKeepsPositions DEF WorkerPcs
      <3> QED BY <3>1, <3>2, PassToken
    <2> QED BY <1>4, <2>1, <2>2, <2>3, <2>4, <2>5 DEF CPART_recv_from_app
  <1>5. CASE Execute
    <2>1. Goto(worker, "exec", "SA1") /\ sem' = sem
      BY <1>5 DEF Execute
    <2>2. Positions'
      BY <2>1, StepKeepsPositions DEF WorkerPcs
    <2> QED BY <2>1, <2>2, NoSemaphore
  <1>6. CASE CPART_send_to_app
    <2>1. CASE Wait(worker, "SA1", "empty2", "SA2")
      <3>1. Goto(worker, "SA1", "SA2") /\ sem_wait("empty2")  BY <2>1 DEF Wait
      <3>2. Positions'  BY <3>1, StepKeepsPositions DEF WorkerPcs
      <3> QED BY <3>1, <3>2, TakeToken
    <2>2. CASE Lock(worker, "SA2", "mutex2", "SA3")
      <3>1. Goto(worker, "SA2", "SA3") /\ sem_wait("mutex2")  BY <2>2 DEF Lock
      <3>2. Positions'  BY <3>1, StepKeepsPositions DEF WorkerPcs
      <3> QED BY <3>1, <3>2, TakeMutex
    <2>3. CASE Goto(worker, "SA3", "SA4") /\ CopyIn(worker, buf[worker])
      <3>1. Goto(worker, "SA3", "SA4") /\ sem' = sem  BY <2>3 DEF CopyIn
      <3>2. Positions'  BY <3>1, StepKeepsPositions DEF WorkerPcs
      <3> QED BY <3>1, <3>2, NoSemaphore
    <2>4. CASE Post(worker, "SA4", "mutex2", "SA5")
      <3>1. Goto(worker, "SA4", "SA5") /\ sem_post("mutex2")  BY <2>4 DEF Post
      <3>2. Positions'  BY <3>1, StepKeepsPositions DEF WorkerPcs
      <3> QED BY <3>1, <3>2, GiveMutex
    <2>5. CASE Post(worker, "SA5", "full2", "RA1")
      <3>1. Goto(worker, "SA5", "RA1") /\ sem_post("full2")  BY <2>5 DEF Post
      <3>2. Positions'  BY <3>1, StepKeepsPositions DEF WorkerPcs
      <3> QED BY <3>1, <3>2, PassToken
    <2> QED BY <1>6, <2>1, <2>2, <2>3, <2>4, <2>5 DEF CPART_send_to_app
  <1>7. CASE UNCHANGED vars
    BY <1>7 DEF vars, Control, Positions, Lane, Mutex, Nobody
  <1> QED BY <1>1, <1>2, <1>3, <1>4, <1>5, <1>6, <1>7
          DEF Next, CallerStep, WorkerStep, Finished
-----------------------------------------------------------------------------
LEMMA MessageTypes ==
  ASSUME Data
  PROVE  /\ Zero \in Messages /\ Torn \in Messages
         /\ \A c \in Callers : Request(c) \in Messages
         /\ \A m \in Messages : Result(m) \in Messages
  <1>1. Zero \in Messages /\ Torn \in Messages
    BY MaxCallsAssumption DEF Zero, Torn, Messages, Kinds, Threads
  <1>2. ASSUME NEW c \in Callers PROVE Request(c) \in Messages
    BY DEF Request, Messages, Kinds, Threads, Data
  <1>3. ASSUME NEW m \in Messages PROVE Result(m) \in Messages
    BY DEF Result, Messages, Kinds
  <1> QED BY <1>1, <1>2, <1>3

LEMMA CopyTypes ==
  ASSUME Data, NEW t \in Threads, NEW d \in Messages,
         CopyIn(t, d) \/ CopyOut(t), UNCHANGED <<calls, executed>>
  PROVE  Data'
  <1>1. CASE CopyIn(t, d)
    <2>1. message' \in {d, message, Torn}
      BY <1>1 DEF CopyIn
    <2> QED BY <1>1, <2>1, MessageTypes DEF CopyIn, Data
  <1>2. CASE CopyOut(t)
    <2>1. PICK m \in {message, Torn} : buf' = [buf EXCEPT ![t] = m]
      BY <1>2 DEF CopyOut
    <2>2. m \in Messages
      BY <2>1, MessageTypes DEF Data
    <2> QED BY <1>2, <2>1, <2>2 DEF CopyOut, Data
  <1> QED BY <1>1, <1>2

LEMMA SemTypes ==
  ASSUME Data, NEW t \in Threads, NEW from, NEW s, NEW to,
         Wait(t, from, s, to) \/ Lock(t, from, s, to) \/ Post(t, from, s, to),
         UNCHANGED <<calls, executed>>
  PROVE  Data'
  <1>1. UNCHANGED <<message, buf, calls, executed>>
    BY DEF Wait, Lock, Post
  <1>2. overlap' \subseteq Threads
    BY DEF Wait, Lock, Post, BeginCopy, Conflicts, Copying, Data
  <1> QED BY <1>1, <1>2 DEF Data

LEMMA DataInductive == Data /\ [Next]_vars => Data'
  <1> SUFFICES ASSUME Data, [Next]_vars PROVE Data'
    OBVIOUS
  <1> \A c \in Callers : c \in Threads
    BY DEF Threads
  <1> worker \in Threads
    BY DEF Threads
  <1>1. CASE \E c \in Callers : Call(c)
    <2> PICK c \in Callers : Call(c)
      BY <1>1
    <2>1. calls[c] + 1 \in 0..MaxCalls
      BY MaxCallsAssumption DEF Call, Data
    <2> QED BY <2>1 DEF Call, Data
  <1>2. CASE \E c \in Callers : CPART_send_to_thread(c)
    <2> PICK c \in Callers : CPART_send_to_thread(c)
      BY <1>2
    <2>1. CASE CopyIn(c, Request(c))
      BY <2>1, CopyTypes, MessageTypes DEF CPART_send_to_thread
    <2> QED BY <2>1, SemTypes DEF CPART_send_to_thread
  <1>3. CASE \E c \in Callers : CPART_recv_from_thread(c)
    <2> PICK c \in Callers : CPART_recv_from_thread(c)
      BY <1>3
    <2>1. CASE CopyOut(c)
      BY <2>1, CopyTypes, MessageTypes DEF CPART_recv_from_thread
    <2> QED BY <2>1, SemTypes DEF CPART_recv_from_thread
  <1>4. CASE CPART_recv_from_app
    <2>1. CASE CopyOut(worker)
      BY <1>4, <2>1, CopyTypes, MessageTypes DEF CPART_recv_from_app
    <2> QED BY <1>4, <2>1, SemTypes DEF CPART_recv_from_app
  <1>5. CASE Execute
    <2>1. Result(buf[worker]) \in Messages
      BY MessageTypes DEF Data
    <2>2. executed' \in [Callers -> Nat]
      <3>1. CASE executed' = executed
        BY <3>1 DEF Data
      <3>2. CASE executed' = [executed EXCEPT ![buf[worker].caller] = @ + 1]
        <4> DEFINE b == buf[worker].caller
        <4>1. executed \in [Callers -> Nat]
          BY DEF Data
        <4>2. \A c \in Callers : executed[c] + 1 \in Nat
          BY <4>1
        <4>3. executed' = [c \in Callers |-> IF c = b THEN executed[c] + 1 ELSE executed[c]]
          BY <3>2, <4>1
        <4> QED BY <4>1, <4>2, <4>3
      <3> QED BY <1>5, <3>1, <3>2 DEF Execute
    <2> QED BY <1>5, <2>1, <2>2 DEF Execute, Data
  <1>6. CASE CPART_send_to_app
    <2>1. CASE CopyIn(worker, buf[worker])
      <3>1. buf[worker] \in Messages
        BY DEF Data
      <3> QED BY <1>6, <2>1, <3>1, CopyTypes DEF CPART_send_to_app
    <2> QED BY <1>6, <2>1, SemTypes DEF CPART_send_to_app
  <1>7. CASE UNCHANGED vars
    BY <1>7 DEF vars, Data
  <1> QED BY <1>1, <1>2, <1>3, <1>4, <1>5, <1>6, <1>7
          DEF Next, CallerStep, WorkerStep, Finished

LEMMA InitControlData == Init => Control /\ Data
  <1> SUFFICES ASSUME Init PROVE Control /\ Data
    OBVIOUS
  <1> USE DEF Init
  <1>1. Positions
    BY WorkerAssumption DEF Positions, CallerPcs, WorkerPcs, Threads
  <1>2. /\ sem \in [Semaphores -> {0, 1}]
        /\ sem["empty"] = 1 /\ sem["empty2"] = 1 /\ sem["full"] = 0 /\ sem["full2"] = 0
    BY DEF InitialSem, Semaphores
  <1>3. \A t \in Threads : pc[t] \in {"app", "RA1"}
    OBVIOUS
  <1>4. Nobody(Lane1Pcs) /\ Nobody(Lane2Pcs) /\ Nobody(Mutex1Pcs) /\ Nobody(Mutex2Pcs)
    BY <1>3 DEF Nobody, Lane1Pcs, Lane2Pcs, Mutex1Pcs, Mutex2Pcs
  <1>5. Control
    BY <1>1, <1>2, <1>4 DEF Control, Lane, Mutex, Nobody
  <1>6. Data
    <2>1. Zero \in Messages
      BY MaxCallsAssumption DEF Zero, Messages, Kinds, Threads
    <2> QED BY <2>1, MaxCallsAssumption DEF Data
  <1> QED BY <1>5, <1>6

(* Control states LaneTokens thread by thread. *)
LEMMA ControlTokens ==
  ASSUME Control, Data
  PROVE  TypeOK /\ LaneTokens
  <1>1. TypeOK
    BY DEF TypeOK, Control, Positions, Data
  <1>2. /\ sem["empty"] \in {0, 1} /\ sem["full"] \in {0, 1}
        /\ sem["empty2"] \in {0, 1} /\ sem["full2"] \in {0, 1}
    BY DEF Control, Semaphores
  <1>3. OneToken(sem["empty"], sem["full"], InLane1)
    <2>1. CASE sem["empty"] = 0 /\ sem["full"] = 0
      <3>1. PICK t \in Threads : pc[t] \in Lane1Pcs
        BY <2>1 DEF Control, Lane
      <3>2. InLane1 = {t}
        BY <3>1 DEF Control, Lane, InLane1, Lane1Pcs
      <3> QED BY <2>1, <3>2 DEF OneToken
    <2>2. CASE sem["empty"] = 1 \/ sem["full"] = 1
      <3>1. InLane1 = {}
        BY <2>2 DEF Control, Lane, Nobody, InLane1, Lane1Pcs
      <3>2. sem["empty"] + sem["full"] = 1
        BY <1>2, <2>2 DEF Control, Lane
      <3> QED BY <3>1, <3>2 DEF OneToken
    <2> QED BY <1>2, <2>1, <2>2
  <1>4. OneToken(sem["empty2"], sem["full2"], InLane2)
    <2>1. CASE sem["empty2"] = 0 /\ sem["full2"] = 0
      <3>1. PICK t \in Threads : pc[t] \in Lane2Pcs
        BY <2>1 DEF Control, Lane
      <3>2. InLane2 = {t}
        BY <3>1 DEF Control, Lane, InLane2, Lane2Pcs
      <3> QED BY <2>1, <3>2 DEF OneToken
    <2>2. CASE sem["empty2"] = 1 \/ sem["full2"] = 1
      <3>1. InLane2 = {}
        BY <2>2 DEF Control, Lane, Nobody, InLane2, Lane2Pcs
      <3>2. sem["empty2"] + sem["full2"] = 1
        BY <1>2, <2>2 DEF Control, Lane
      <3> QED BY <3>1, <3>2 DEF OneToken
    <2> QED BY <1>2, <2>1, <2>2
  <1> QED BY <1>1, <1>3, <1>4 DEF LaneTokens

LEMMA ControlData == Spec => [](Control /\ Data)
  <1>1. Init => Control /\ Data
    BY InitControlData
  <1>2. Control /\ Data /\ [Next]_vars => (Control /\ Data)'
    BY ControlInductive, DataInductive
  <1> QED BY <1>1, <1>2, PTL DEF Spec

(* For any number of callers that use the descriptor at once, every         *)
(* variable keeps its type: ipc.c never posts a semaphore that is already   *)
(* 1, so the semaphores fdtable_add initialises to 0 or 1 stay binary.      *)
THEOREM TypeCorrect == Spec => []TypeOK
  <1>1. Control /\ Data => TypeOK
    BY ControlTokens
  <1> QED BY <1>1, ControlData, PTL

(* For any number of callers, the four functions of ipc.c never lose or     *)
(* duplicate the token of a direction.                                      *)
THEOREM TokensKept == Spec => []LaneTokens
  <1>1. Control /\ Data => LaneTokens
    BY ControlTokens
  <1> QED BY <1>1, ControlData, PTL
-----------------------------------------------------------------------------
(* Requests and results in the channel: one for each caller that has sent a *)
(* request and not yet taken a result, be it its own or another's.          *)
Awaiting == {c \in Callers : pc[c] = "RT1"}
Busy == IF pc[worker] = "RA1" THEN 0 ELSE 1
Balance ==
  /\ IsFiniteSet(Awaiting)
  /\ Cardinality(Awaiting) = sem["full"] + Busy + sem["full2"]

LEMMA SemValues ==
  ASSUME Control
  PROVE  /\ sem["full"] \in {0, 1} /\ sem["full2"] \in {0, 1}
         /\ DOMAIN sem = Semaphores /\ "full" \in Semaphores /\ "full2" \in Semaphores
  BY DEF Control, Semaphores

(* The four steps that move a request or a result: a caller posts full ...  *)
LEMMA SendBalance ==
  ASSUME Control, Balance, NEW c \in Callers, Post(c, "ST5", "full", "RT1")
  PROVE  Balance'
  <1>1. pc[c] = "ST5" /\ pc' = [pc EXCEPT ![c] = "RT1"] /\ sem' = [sem EXCEPT !["full"] = @ + 1]
    BY DEF Post, Goto, sem_post
  <1>2. c \notin Awaiting /\ Awaiting' = Awaiting \cup {c} /\ Busy' = Busy
    BY <1>1, WorkerAssumption DEF Awaiting, Busy, Control, Positions, Threads
  <1>3. sem'["full"] = sem["full"] + 1 /\ sem'["full2"] = sem["full2"]
    BY <1>1, SemValues
  <1>4. /\ IsFiniteSet(Awaiting \cup {c})
        /\ Cardinality(Awaiting \cup {c}) = Cardinality(Awaiting) + 1
    BY <1>2, FS_AddElement DEF Balance
  <1>5. Busy \in {0, 1}
    BY DEF Busy
  <1> QED BY <1>2, <1>3, <1>4, <1>5, SemValues DEF Balance

(* ... and later takes full2, ... *)
LEMMA ReceiveBalance ==
  ASSUME Control, Balance, NEW c \in Callers, Wait(c, "RT1", "full2", "RT2")
  PROVE  Balance'
  <1>1. /\ pc[c] = "RT1" /\ pc' = [pc EXCEPT ![c] = "RT2"]
        /\ sem["full2"] > 0 /\ sem' = [sem EXCEPT !["full2"] = @ - 1]
    BY DEF Wait, Goto, sem_wait
  <1>2. c \in Awaiting /\ Awaiting' = Awaiting \ {c} /\ Busy' = Busy
    BY <1>1, WorkerAssumption DEF Awaiting, Busy, Control, Positions, Threads
  <1>3. sem'["full2"] = sem["full2"] - 1 /\ sem'["full"] = sem["full"]
    BY <1>1, SemValues
  <1>4. /\ IsFiniteSet(Awaiting \ {c})
        /\ Cardinality(Awaiting \ {c}) = Cardinality(Awaiting) - 1
    BY <1>2, FS_RemoveElement DEF Balance
  <1>5. Busy \in {0, 1}
    BY DEF Busy
  <1> QED BY <1>1, <1>2, <1>3, <1>4, <1>5, SemValues DEF Balance

(* ... the worker takes full, and posts full2. *)
LEMMA WorkerBalance ==
  ASSUME Control, Balance,
         Wait(worker, "RA1", "full", "RA2") \/ Post(worker, "SA5", "full2", "RA1")
  PROVE  Balance'
  <1>1. Awaiting' = Awaiting
    BY WorkerAssumption DEF Wait, Post, Goto, Awaiting, Control, Positions, Threads
  <1>2. CASE Wait(worker, "RA1", "full", "RA2")
    <2>1. Busy = 0 /\ Busy' = 1
      BY <1>2 DEF Wait, Goto, Busy, Control, Positions, Threads
    <2>2. sem'["full"] = sem["full"] - 1 /\ sem'["full2"] = sem["full2"]
      BY <1>2, SemValues DEF Wait, sem_wait
    <2> QED BY <1>1, <2>1, <2>2, SemValues DEF Balance
  <1>3. CASE Post(worker, "SA5", "full2", "RA1")
    <2>1. Busy = 1 /\ Busy' = 0
      BY <1>3 DEF Post, Goto, Busy, Control, Positions, Threads
    <2>2. sem'["full2"] = sem["full2"] + 1 /\ sem'["full"] = sem["full"]
      BY <1>3, SemValues DEF Post, sem_post
    <2> QED BY <1>1, <2>1, <2>2, SemValues DEF Balance
  <1> QED BY <1>2, <1>3

(* Every other step leaves the balance as it is. *)
LEMMA OtherBalance ==
  ASSUME Control, Balance, NEW t \in Threads, NEW from, NEW to, Goto(t, from, to),
         from \notin {"RT1", "RA1"}, to \notin {"RT1", "RA1"},
         \/ sem' = sem
         \/ \E s \in Semaphores \ {"full", "full2"} : sem_wait(s) \/ sem_post(s)
  PROVE  Balance'
  <1>1. Awaiting' = Awaiting
    BY DEF Goto, Awaiting, Control, Positions, Threads
  <1>2. Busy' = Busy
    BY DEF Goto, Busy, Control, Positions, Threads
  <1>3. sem'["full"] = sem["full"] /\ sem'["full2"] = sem["full2"]
    BY SemValues DEF sem_wait, sem_post
  <1> QED BY <1>1, <1>2, <1>3 DEF Balance

LEMMA BalanceKept == Control /\ Balance /\ [Next]_vars => Balance'
  <1> SUFFICES ASSUME Control, Balance, [Next]_vars PROVE Balance'
    OBVIOUS
  <1> \A c \in Callers : c \in Threads
    BY DEF Threads
  <1> worker \in Threads
    BY DEF Threads
  <1> /\ "empty" \in Semaphores \ {"full", "full2"} /\ "empty2" \in Semaphores \ {"full", "full2"}
      /\ "mutex" \in Semaphores \ {"full", "full2"} /\ "mutex2" \in Semaphores \ {"full", "full2"}
    BY DEF Semaphores
  <1>2. CASE \E c \in Callers : Call(c)
    <2> PICK c \in Callers : Call(c)
      BY <1>2
    <2>1. Goto(c, "app", "ST1") /\ sem' = sem
      BY DEF Call
    <2> QED BY <2>1, OtherBalance
  <1>3. CASE \E c \in Callers : CPART_send_to_thread(c)
    <2> PICK c \in Callers : CPART_send_to_thread(c)
      BY <1>3
    <2>1. CASE Wait(c, "ST1", "empty", "ST2") \/ Lock(c, "ST2", "mutex", "ST3")
               \/ Post(c, "ST4", "mutex", "ST5")
      BY <2>1, OtherBalance DEF Wait, Lock, Post
    <2>2. CASE Goto(c, "ST3", "ST4") /\ CopyIn(c, Request(c))
      BY <2>2, OtherBalance DEF CopyIn
    <2>3. CASE Post(c, "ST5", "full", "RT1")
      BY <2>3, SendBalance
    <2> QED BY <2>1, <2>2, <2>3 DEF CPART_send_to_thread
  <1>4. CASE \E c \in Callers : CPART_recv_from_thread(c)
    <2> PICK c \in Callers : CPART_recv_from_thread(c)
      BY <1>4
    <2>1. CASE Wait(c, "RT1", "full2", "RT2")
      BY <2>1, ReceiveBalance
    <2>2. CASE Lock(c, "RT2", "mutex2", "RT3") \/ Post(c, "RT4", "mutex2", "RT5")
               \/ Post(c, "RT5", "empty2", "app")
      BY <2>2, OtherBalance DEF Wait, Lock, Post
    <2>3. CASE Goto(c, "RT3", "RT4") /\ CopyOut(c)
      BY <2>3, OtherBalance DEF CopyOut
    <2> QED BY <2>1, <2>2, <2>3 DEF CPART_recv_from_thread
  <1>5. CASE CPART_recv_from_app
    <2>1. CASE Wait(worker, "RA1", "full", "RA2")
      BY <2>1, WorkerBalance
    <2>2. CASE Lock(worker, "RA2", "mutex", "RA3") \/ Post(worker, "RA4", "mutex", "RA5")
               \/ Post(worker, "RA5", "empty", "exec")
      BY <2>2, OtherBalance DEF Wait, Lock, Post
    <2>3. CASE Goto(worker, "RA3", "RA4") /\ CopyOut(worker)
      BY <2>3, OtherBalance DEF CopyOut
    <2> QED BY <1>5, <2>1, <2>2, <2>3 DEF CPART_recv_from_app
  <1>6. CASE Execute
    BY <1>6, OtherBalance DEF Execute
  <1>7. CASE CPART_send_to_app
    <2>1. CASE Wait(worker, "SA1", "empty2", "SA2") \/ Lock(worker, "SA2", "mutex2", "SA3")
               \/ Post(worker, "SA4", "mutex2", "SA5")
      BY <2>1, OtherBalance DEF Wait, Lock, Post
    <2>2. CASE Goto(worker, "SA3", "SA4") /\ CopyIn(worker, buf[worker])
      BY <2>2, OtherBalance DEF CopyIn
    <2>3. CASE Post(worker, "SA5", "full2", "RA1")
      BY <2>3, WorkerBalance
    <2> QED BY <1>7, <2>1, <2>2, <2>3 DEF CPART_send_to_app
  <1>8. CASE UNCHANGED vars
    BY <1>8 DEF vars, Balance, Awaiting, Busy
  <1> QED BY <1>2, <1>3, <1>4, <1>5, <1>6, <1>7, <1>8
          DEF Next, CallerStep, WorkerStep, Finished

(* However many callers use the descriptor at once, the worker produces one *)
(* result for every request and no other: when nobody is inside a call,     *)
(* neither direction has a message left in it.                              *)
THEOREM NothingStays == Spec => []NothingLeftOver
  <1>1. Init => Balance
    <2> SUFFICES ASSUME Init PROVE Balance
      OBVIOUS
    <2>1. Awaiting = {} /\ Busy = 0
      BY WorkerAssumption DEF Init, Awaiting, Busy, Threads
    <2>2. sem["full"] = 0 /\ sem["full2"] = 0
      BY DEF Init, InitialSem, Semaphores
    <2> QED BY <2>1, <2>2, FS_EmptySet DEF Balance
  <1>2. Spec => []Balance
    BY <1>1, BalanceKept, ControlData, PTL DEF Spec
  <1>3. Control /\ Balance => NothingLeftOver
    <2> SUFFICES ASSUME Control, Balance, pc[worker] = "RA1", \A c \in Callers : pc[c] = "app"
                 PROVE  sem["full"] = 0 /\ sem["full2"] = 0
      BY DEF NothingLeftOver
    <2>1. Awaiting = {} /\ Busy = 0
      BY DEF Awaiting, Busy
    <2>2. sem["full"] + 0 + sem["full2"] = 0
      BY <2>1, FS_EmptySet DEF Balance
    <2> QED BY <2>2, SemValues
  <1> QED BY <1>2, <1>3, ControlData, PTL
-----------------------------------------------------------------------------
(* From here on: the application uses the descriptor from one thread at a   *)
(* time.  OneCall is then inductive.                                        *)

(* The caller that is inside a call is the active one. *)
LEMMA InsideIsActive ==
  ASSUME OneCall, NEW c \in Callers, pc[c] # "app"
  PROVE  Active(c)
  BY DEF OneCall, AtRest, Active, Outside

(* When the worker can move, it serves the active caller. *)
LEMMA WorkerServes ==
  ASSUME OneCall, ~WorkerIdle \/ sem["full"] > 0
  PROVE  \E c \in Callers :
            Active(c) /\ IF WorkerIdle THEN Sent(c) ELSE Served(c)
  <1>1. PICK c \in Callers : Active(c)
    BY DEF OneCall, AtRest, NoTokens
  <1>2. IF WorkerIdle THEN Sent(c) ELSE Served(c)
    BY <1>1 DEF Active, Inside, Sending, Sent, Served, Replied, Receiving, Received, NoTokens
  <1> QED BY <1>1, <1>2

LEMMA OthersOutside ==
  ASSUME NEW c \in Callers,
         \A d \in Callers \ {c} : Outside(d),
         \A d \in Callers \ {c} :
            /\ pc'[d] = pc[d] /\ calls'[d] = calls[d]
            /\ buf'[d] = buf[d] /\ executed'[d] = executed[d]
  PROVE  \A d \in Callers \ {c} : Outside(d)'
  BY DEF Outside, Reply

(* A copy that starts while nobody copies meets no other. *)
LEMMA AloneInCopy ==
  ASSUME NEW t \in Threads, NEW at, overlap = {}, BeginCopy(t, at),
         \A u \in Threads \ {t} : pc[u] \notin CopyPcs
  PROVE  overlap' = {}
  BY DEF BeginCopy, Conflicts, Copying

(* While c is inside a call, only c or the worker can copy. *)
LEMMA NobodyElseCopies ==
  ASSUME NEW c \in Callers, Active(c)
  PROVE  /\ \A u \in Threads \ {c, worker} : pc[u] \notin CopyPcs
         /\ WorkerIdle => pc[worker] \notin CopyPcs
         /\ pc[c] = "RT1" => pc[c] \notin CopyPcs
  BY DEF Active, Outside, WorkerIdle, CopyPcs, WritePcs, Threads

LEMMA CallKeepsOneCall ==
  ASSUME Exclusive, Control, Data, OneCall, NEW c \in Callers, Call(c)
  PROVE  OneCall'
  <1>1. AtRest
    BY DEF OneCall, Call, Active, Inside, Sending, Sent, Served, Replied,
           Receiving, Received
  <1>2. /\ pc'[c] = "ST1" /\ calls'[c] = calls[c] + 1
        /\ \A d \in Callers \ {c} : pc'[d] = pc[d] /\ calls'[d] = calls[d]
        /\ pc'[worker] = pc[worker]
        /\ UNCHANGED <<sem, message, overlap, buf, executed>>
    BY WorkerAssumption DEF Call, Goto, Control, Positions, Data, Threads
  <1>3. \A d \in Callers \ {c} : Outside(d)'
    BY <1>1, <1>2, OthersOutside DEF AtRest
  <1>4. Outside(c) /\ calls[c] \in Nat
    BY <1>1, MaxCallsAssumption DEF AtRest, Data
  <1>5. Waiting(c)'
    BY <1>2, <1>4 DEF Outside, Waiting, Reply
  <1>6. Sending(c)'
    BY <1>1, <1>2, <1>4, <1>5 DEF Sending, AtRest, WorkerIdle, NoTokens, Outside
  <1> QED BY <1>2, <1>3, <1>6 DEF OneCall, Active, Inside

(* What a step of caller c that changes neither calls nor executed leaves   *)
(* as it was.                                                               *)
LEMMA CallerFrame ==
  ASSUME Control, Data, NEW c \in Callers, NEW from, NEW to, Goto(c, from, to),
         UNCHANGED <<calls, executed>>,
         buf' = buf \/ \E m \in Messages : buf' = [buf EXCEPT ![c] = m],
         Active(c)
  PROVE  /\ pc[c] = from /\ pc'[c] = to /\ pc'[worker] = pc[worker]
         /\ \A d \in Callers \ {c} : Outside(d)'
  <1>1. /\ pc[c] = from /\ pc'[c] = to /\ pc'[worker] = pc[worker]
        /\ \A d \in Callers \ {c} : pc'[d] = pc[d]
    BY WorkerAssumption DEF Goto, Control, Positions, Threads
  <1>2. \A d \in Callers \ {c} : buf'[d] = buf[d]
    BY DEF Data, Threads
  <1> QED BY <1>1, <1>2, OthersOutside DEF Active

LEMMA SendKeepsOneCall ==
  ASSUME Control, Data, OneCall, NEW c \in Callers, CPART_send_to_thread(c)
  PROVE  OneCall'
  <1> USE DEF Semaphores
  <1>1. pc[c] \in {"ST1", "ST2", "ST3", "ST4", "ST5"} /\ UNCHANGED <<calls, executed>>
    BY DEF CPART_send_to_thread, Wait, Lock, Post, Goto
  <1>2. Active(c) /\ overlap = {}
    BY <1>1, InsideIsActive DEF OneCall
  <1>3. Sending(c)
    BY <1>1, <1>2 DEF Active, Inside, Sent, Served, Replied, Receiving, Received
  <1>4. c \in Threads /\ sem \in [Semaphores -> {0, 1}]
    BY DEF Threads, Control
  <1> SUFFICES overlap' = {} /\ (Sending(c)' \/ Sent(c)')
                 /\ \A d \in Callers \ {c} : Outside(d)'
    BY DEF OneCall, Active, Inside
  <1>5. CASE Wait(c, "ST1", "empty", "ST2")
    <2>1. Goto(c, "ST1", "ST2") /\ UNCHANGED <<message, overlap, buf>>
      BY <1>5 DEF Wait
    <2>2. NoTokens'
      BY <1>3, <1>4, <1>5 DEF Wait, sem_wait, Sending, NoTokens
    <2>3. /\ pc'[c] = "ST2" /\ pc'[worker] = pc[worker]
          /\ \A d \in Callers \ {c} : Outside(d)'
      BY <1>1, <1>2, <2>1, CallerFrame
    <2> QED BY <1>1, <1>2, <1>3, <2>1, <2>2, <2>3
            DEF Sending, Waiting, Reply, WorkerIdle
  <1>6. CASE Lock(c, "ST2", "mutex", "ST3")
    <2>1. Goto(c, "ST2", "ST3") /\ BeginCopy(c, "ST3") /\ UNCHANGED <<message, buf>>
      BY <1>6 DEF Lock
    <2>2. NoTokens'
      BY <1>3, <1>4, <1>6 DEF Lock, sem_wait, Sending, NoTokens
    <2>3. /\ pc'[c] = "ST3" /\ pc'[worker] = pc[worker]
          /\ \A d \in Callers \ {c} : Outside(d)'
      BY <1>1, <1>2, <2>1, CallerFrame
    <2>4. overlap' = {}
      BY <1>2, <1>3, <1>4, <2>1, NobodyElseCopies, AloneInCopy DEF Sending
    <2> QED BY <1>1, <1>3, <2>1, <2>2, <2>3, <2>4
            DEF Sending, Waiting, Reply, WorkerIdle
  <1>7. CASE Goto(c, "ST3", "ST4") /\ CopyIn(c, Request(c))
    <2>1. Goto(c, "ST3", "ST4") /\ UNCHANGED <<sem, buf>>
      BY <1>7 DEF CopyIn
    <2>2. message' = Request(c) /\ overlap' = {}
      BY <1>2, <1>7 DEF CopyIn
    <2>3. /\ pc'[c] = "ST4" /\ pc'[worker] = pc[worker]
          /\ \A d \in Callers \ {c} : Outside(d)'
      BY <1>1, <1>2, <2>1, CallerFrame
    <2> QED BY <1>1, <1>3, <2>1, <2>2, <2>3
            DEF Sending, Waiting, Reply, Request, WorkerIdle, NoTokens
  <1>8. CASE Post(c, "ST4", "mutex", "ST5")
    <2>1. Goto(c, "ST4", "ST5") /\ UNCHANGED <<message, overlap, buf>>
      BY <1>8 DEF Post
    <2>2. NoTokens'
      BY <1>3, <1>4, <1>8 DEF Post, sem_post, Sending, NoTokens
    <2>3. /\ pc[c] = "ST4" /\ pc'[c] = "ST5" /\ pc'[worker] = pc[worker]
          /\ \A d \in Callers \ {c} : Outside(d)'
      BY <1>1, <1>2, <2>1, CallerFrame
    <2> QED BY <1>1, <1>2, <1>3, <2>1, <2>2, <2>3
            DEF Sending, Waiting, Reply, Request, WorkerIdle
  <1>9. CASE Post(c, "ST5", "full", "RT1")
    <2>1. Goto(c, "ST5", "RT1") /\ UNCHANGED <<message, overlap, buf>>
      BY <1>9 DEF Post
    <2>2. sem'["full"] = 1 /\ sem'["full2"] = 0
      BY <1>3, <1>4, <1>9 DEF Post, sem_post, Sending, NoTokens
    <2>3. /\ pc[c] = "ST5" /\ pc'[c] = "RT1" /\ pc'[worker] = pc[worker]
          /\ \A d \in Callers \ {c} : Outside(d)'
      BY <1>1, <1>2, <2>1, CallerFrame
    <2> QED BY <1>1, <1>2, <1>3, <2>1, <2>2, <2>3
            DEF Sending, Sent, Waiting, Reply, Request, WorkerIdle
  <1> QED BY <1>5, <1>6, <1>7, <1>8, <1>9 DEF CPART_send_to_thread

LEMMA RecvKeepsOneCall ==
  ASSUME Control, Data, OneCall, NEW c \in Callers, CPART_recv_from_thread(c)
  PROVE  OneCall'
  <1> USE DEF Semaphores
  <1>1. pc[c] \in {"RT1", "RT2", "RT3", "RT4", "RT5"} /\ UNCHANGED <<calls, executed>>
    BY DEF CPART_recv_from_thread, Wait, Lock, Post, Goto
  <1>2. Active(c) /\ overlap = {}
    BY <1>1, InsideIsActive DEF OneCall
  <1>3. c \in Threads /\ sem \in [Semaphores -> {0, 1}] /\ message \in Messages
    BY DEF Threads, Control, Data
  <1>4. CASE Wait(c, "RT1", "full2", "RT2")
    <2>1. Goto(c, "RT1", "RT2") /\ UNCHANGED <<message, overlap, buf>>
      BY <1>4 DEF Wait
    <2>2. sem["full2"] > 0
      BY <1>4 DEF Wait, sem_wait
    <2>3. /\ pc[c] = "RT1" /\ pc'[c] = "RT2" /\ pc'[worker] = pc[worker]
          /\ \A d \in Callers \ {c} : Outside(d)'
      BY <1>1, <1>2, <2>1, CallerFrame
    <2>4. Replied(c)
      BY <1>2, <2>2, <2>3 DEF Active, Inside, Sending, Sent, Served, Receiving,
                              Received, NoTokens
    <2>5. NoTokens'
      BY <1>3, <1>4, <2>4 DEF Wait, sem_wait, Replied, NoTokens
    <2>6. Receiving(c)'
      BY <1>1, <2>1, <2>3, <2>4, <2>5 DEF Replied, Receiving, Waiting, Reply, WorkerIdle
    <2> QED BY <1>2, <2>1, <2>3, <2>6 DEF OneCall, Active, Inside
  <1>5. CASE Lock(c, "RT2", "mutex2", "RT3")
    <2>1. Goto(c, "RT2", "RT3") /\ BeginCopy(c, "RT3") /\ UNCHANGED <<message, buf>>
      BY <1>5 DEF Lock
    <2>2. /\ pc[c] = "RT2" /\ pc'[c] = "RT3" /\ pc'[worker] = pc[worker]
          /\ \A d \in Callers \ {c} : Outside(d)'
      BY <1>1, <1>2, <2>1, CallerFrame
    <2>3. Receiving(c)
      BY <1>2, <2>2 DEF Active, Inside, Sending, Sent, Served, Replied, Received
    <2>4. NoTokens'
      BY <1>3, <1>5, <2>3 DEF Lock, sem_wait, Receiving, NoTokens
    <2>5. overlap' = {}
      BY <1>2, <1>3, <2>1, <2>3, NobodyElseCopies, AloneInCopy DEF Receiving
    <2>6. Receiving(c)'
      BY <1>1, <2>1, <2>2, <2>3, <2>4 DEF Receiving, Waiting, Reply, WorkerIdle
    <2> QED BY <2>2, <2>5, <2>6 DEF OneCall, Active, Inside
  <1>6. CASE Goto(c, "RT3", "RT4") /\ CopyOut(c)
    <2>1. /\ Goto(c, "RT3", "RT4") /\ UNCHANGED <<sem, message>>
          /\ buf' = [buf EXCEPT ![c] = message] /\ overlap' = {}
      BY <1>2, <1>6 DEF CopyOut
    <2>2. /\ pc[c] = "RT3" /\ pc'[c] = "RT4" /\ pc'[worker] = pc[worker]
          /\ \A d \in Callers \ {c} : Outside(d)'
      BY <1>1, <1>2, <1>3, <2>1, CallerFrame
    <2>3. Receiving(c)
      BY <1>2, <2>2 DEF Active, Inside, Sending, Sent, Served, Replied, Received
    <2>4. buf'[c] = message
      BY <1>3, <2>1 DEF Data
    <2>5. Received(c)'
      BY <1>1, <2>1, <2>2, <2>3, <2>4
         DEF Receiving, Received, Waiting, Reply, WorkerIdle, NoTokens
    <2> QED BY <2>1, <2>2, <2>5 DEF OneCall, Active, Inside
  <1>7. CASE Post(c, "RT4", "mutex2", "RT5")
    <2>1. Goto(c, "RT4", "RT5") /\ UNCHANGED <<message, overlap, buf>>
      BY <1>7 DEF Post
    <2>2. /\ pc[c] = "RT4" /\ pc'[c] = "RT5" /\ pc'[worker] = pc[worker]
          /\ \A d \in Callers \ {c} : Outside(d)'
      BY <1>1, <1>2, <2>1, CallerFrame
    <2>3. Received(c)
      BY <1>2, <2>2 DEF Active, Inside, Sending, Sent, Served, Replied, Receiving
    <2>4. NoTokens'
      BY <1>3, <1>7, <2>3 DEF Post, sem_post, Received, NoTokens
    <2>5. Received(c)'
      BY <1>1, <2>1, <2>2, <2>3, <2>4 DEF Received, Reply, WorkerIdle
    <2> QED BY <1>2, <2>1, <2>2, <2>5 DEF OneCall, Active, Inside
  <1>8. CASE Post(c, "RT5", "empty2", "app")
    <2>1. Goto(c, "RT5", "app") /\ UNCHANGED <<message, overlap, buf>>
      BY <1>8 DEF Post
    <2>2. /\ pc[c] = "RT5" /\ pc'[c] = "app" /\ pc'[worker] = pc[worker]
          /\ \A d \in Callers \ {c} : Outside(d)'
      BY <1>1, <1>2, <2>1, CallerFrame
    <2>3. Received(c)
      BY <1>2, <2>2 DEF Active, Inside, Sending, Sent, Served, Replied, Receiving
    <2>4. NoTokens'
      BY <1>3, <1>8, <2>3 DEF Post, sem_post, Received, NoTokens
    <2>5. Outside(c)'
      BY <1>1, <2>1, <2>2, <2>3 DEF Received, Outside, Reply
    <2>6. AtRest'
      BY <2>2, <2>3, <2>4, <2>5 DEF AtRest, Received, WorkerIdle
    <2> QED BY <1>2, <2>1, <2>6 DEF OneCall
  <1> QED BY <1>4, <1>5, <1>6, <1>7, <1>8 DEF CPART_recv_from_thread

(* A step of the worker while it serves c leaves the callers alone. *)
LEMMA WorkerFrame ==
  ASSUME Control, Data, NEW c \in Callers, NEW from, NEW to, Goto(worker, from, to),
         calls' = calls,
         \A d \in Callers \ {c} : executed'[d] = executed[d],
         buf' = buf \/ \E m \in Messages : buf' = [buf EXCEPT ![worker] = m],
         Active(c)
  PROVE  /\ pc[worker] = from /\ pc'[worker] = to /\ pc'[c] = pc[c]
         /\ buf'[c] = buf[c]
         /\ \A d \in Callers \ {c} : Outside(d)'
  <1>1. /\ pc[worker] = from /\ pc'[worker] = to
        /\ \A d \in Callers : pc'[d] = pc[d]
    BY WorkerAssumption DEF Goto, Control, Positions, Threads
  <1>2. \A d \in Callers : buf'[d] = buf[d]
    BY WorkerAssumption DEF Data, Threads
  <1> QED BY <1>1, <1>2, OthersOutside DEF Active

LEMMA WorkerRecvKeepsOneCall ==
  ASSUME Control, Data, OneCall, CPART_recv_from_app
  PROVE  OneCall'
  <1> USE DEF Semaphores
  <1>1. /\ pc[worker] \in {"RA1", "RA2", "RA3", "RA4", "RA5"}
        /\ pc[worker] = "RA1" => sem["full"] > 0
        /\ UNCHANGED <<calls, executed>>
    BY DEF CPART_recv_from_app, Wait, Lock, Post, Goto, sem_wait
  <1>2. PICK c \in Callers : Active(c) /\ IF WorkerIdle THEN Sent(c) ELSE Served(c)
    BY <1>1, WorkerServes DEF WorkerIdle
  <1>3. /\ worker \in Threads /\ sem \in [Semaphores -> {0, 1}]
        /\ message \in Messages /\ overlap = {}
    BY DEF Threads, Control, Data, OneCall
  <1> SUFFICES overlap' = {} /\ Served(c)' /\ \A d \in Callers \ {c} : Outside(d)'
    BY DEF OneCall, Active, Inside
  <1>4. CASE Wait(worker, "RA1", "full", "RA2")
    <2>1. Goto(worker, "RA1", "RA2") /\ UNCHANGED <<message, overlap, buf>>
      BY <1>4 DEF Wait
    <2>2. /\ pc[worker] = "RA1" /\ pc'[worker] = "RA2" /\ pc'[c] = pc[c]
          /\ \A d \in Callers \ {c} : Outside(d)'
      BY <1>1, <1>2, <2>1, WorkerFrame
    <2>3. Sent(c)
      BY <1>2, <2>2 DEF WorkerIdle
    <2>4. NoTokens'
      BY <1>3, <1>4, <2>3 DEF Wait, sem_wait, Sent, NoTokens
    <2>5. WorkerHas(c)'
      BY <1>1, <2>1, <2>2, <2>3 DEF WorkerHas, Sent, Request
    <2> QED BY <1>1, <1>3, <2>1, <2>2, <2>3, <2>4, <2>5
            DEF Sent, Served, Waiting, Reply, WorkerIdle
  <1>5. CASE Lock(worker, "RA2", "mutex", "RA3")
    <2>1. Goto(worker, "RA2", "RA3") /\ BeginCopy(worker, "RA3") /\ UNCHANGED <<message, buf>>
      BY <1>5 DEF Lock
    <2>2. /\ pc[worker] = "RA2" /\ pc'[worker] = "RA3" /\ pc'[c] = pc[c]
          /\ \A d \in Callers \ {c} : Outside(d)'
      BY <1>1, <1>2, <2>1, WorkerFrame
    <2>3. Served(c)
      BY <1>2, <2>2 DEF WorkerIdle
    <2>4. NoTokens'
      BY <1>3, <1>5, <2>3 DEF Lock, sem_wait, Served, NoTokens
    <2>5. WorkerHas(c)'
      BY <1>1, <2>1, <2>2, <2>3 DEF WorkerHas, Served, Request
    <2>6. overlap' = {}
      BY <1>2, <1>3, <2>1, <2>3, NobodyElseCopies, AloneInCopy DEF Served
    <2> QED BY <1>1, <2>1, <2>2, <2>3, <2>4, <2>5, <2>6
            DEF Served, Waiting, Reply, WorkerIdle
  <1>6. CASE Goto(worker, "RA3", "RA4") /\ CopyOut(worker)
    <2>1. /\ Goto(worker, "RA3", "RA4") /\ UNCHANGED <<sem, message>>
          /\ buf' = [buf EXCEPT ![worker] = message] /\ overlap' = {}
      BY <1>3, <1>6 DEF CopyOut
    <2>2. /\ pc[worker] = "RA3" /\ pc'[worker] = "RA4" /\ pc'[c] = pc[c]
          /\ buf'[c] = buf[c]
          /\ \A d \in Callers \ {c} : Outside(d)'
      BY <1>1, <1>2, <1>3, <2>1, WorkerFrame
    <2>3. Served(c)
      BY <1>2, <2>2 DEF WorkerIdle
    <2>4. buf'[worker] = message
      BY <1>3, <2>1 DEF Data
    <2>5. WorkerHas(c)'
      BY <1>1, <2>1, <2>2, <2>3, <2>4 DEF WorkerHas, Served, Request
    <2> QED BY <1>1, <2>1, <2>2, <2>3, <2>5
            DEF Served, Waiting, Reply, WorkerIdle, NoTokens
  <1>7. CASE Post(worker, "RA4", "mutex", "RA5")
    <2>1. Goto(worker, "RA4", "RA5") /\ UNCHANGED <<message, overlap, buf>>
      BY <1>7 DEF Post
    <2>2. /\ pc[worker] = "RA4" /\ pc'[worker] = "RA5" /\ pc'[c] = pc[c]
          /\ \A d \in Callers \ {c} : Outside(d)'
      BY <1>1, <1>2, <2>1, WorkerFrame
    <2>3. Served(c)
      BY <1>2, <2>2 DEF WorkerIdle
    <2>4. NoTokens'
      BY <1>3, <1>7, <2>3 DEF Post, sem_post, Served, NoTokens
    <2>5. WorkerHas(c)'
      BY <1>1, <2>1, <2>2, <2>3 DEF WorkerHas, Served, Request
    <2> QED BY <1>1, <1>3, <2>1, <2>2, <2>3, <2>4, <2>5
            DEF Served, Waiting, Reply, WorkerIdle
  <1>8. CASE Post(worker, "RA5", "empty", "exec")
    <2>1. Goto(worker, "RA5", "exec") /\ UNCHANGED <<message, overlap, buf>>
      BY <1>8 DEF Post
    <2>2. /\ pc[worker] = "RA5" /\ pc'[worker] = "exec" /\ pc'[c] = pc[c]
          /\ \A d \in Callers \ {c} : Outside(d)'
      BY <1>1, <1>2, <2>1, WorkerFrame
    <2>3. Served(c)
      BY <1>2, <2>2 DEF WorkerIdle
    <2>4. NoTokens'
      BY <1>3, <1>8, <2>3 DEF Post, sem_post, Served, NoTokens
    <2>5. WorkerHas(c)'
      BY <1>1, <2>1, <2>2, <2>3 DEF WorkerHas, Served, Request
    <2> QED BY <1>1, <1>3, <2>1, <2>2, <2>3, <2>4, <2>5
            DEF Served, Waiting, Reply, WorkerIdle
  <1> QED BY <1>4, <1>5, <1>6, <1>7, <1>8 DEF CPART_recv_from_app

(* The worker performs the request of the caller it serves. *)
LEMMA ExecuteServes ==
  ASSUME Control, Data, OneCall, NEW c \in Callers, Active(c), Served(c), Execute
  PROVE  /\ executed' = [executed EXCEPT ![c] = @ + 1]
         /\ executed[c] = calls[c] - 1
         /\ buf' = [buf EXCEPT ![worker] = Reply(c)]
  <1>1. buf[worker] = Request(c) /\ executed[c] = calls[c] - 1
    BY DEF Execute, Goto, Served, WorkerHas
  <1>2. buf[worker].kind = "args_data" /\ buf[worker].caller = c
    BY <1>1 DEF Request
  <1>3. Result(buf[worker]) = Reply(c)
    BY <1>1, <1>2 DEF Result, Request, Reply
  <1> QED BY <1>1, <1>2, <1>3 DEF Execute

LEMMA ExecuteKeepsOneCall ==
  ASSUME Control, Data, OneCall, Execute
  PROVE  OneCall'
  <1>1. /\ Goto(worker, "exec", "SA1") /\ UNCHANGED <<sem, message, overlap, calls>>
        /\ pc[worker] = "exec" /\ ~WorkerIdle /\ worker \in Threads
    BY DEF Execute, Goto, WorkerIdle, Threads
  <1>2. PICK c \in Callers : Active(c) /\ Served(c)
    BY <1>1, WorkerServes
  <1>3. /\ executed' = [executed EXCEPT ![c] = @ + 1]
        /\ executed[c] = calls[c] - 1
        /\ buf' = [buf EXCEPT ![worker] = Reply(c)]
    BY <1>2, ExecuteServes
  <1>4. /\ \A d \in Callers \ {c} : executed'[d] = executed[d]
        /\ executed'[c] = calls[c]
    BY <1>3 DEF Data
  <1>5. Reply(c) \in Messages
    BY DEF Reply, Messages, Kinds, Threads, Data
  <1>6. /\ pc'[worker] = "SA1" /\ pc'[c] = pc[c] /\ buf'[c] = buf[c]
        /\ \A d \in Callers \ {c} : Outside(d)'
    BY <1>1, <1>2, <1>3, <1>4, <1>5, WorkerFrame
  <1>7. buf'[worker] = Reply(c)
    BY <1>1, <1>3 DEF Data
  <1>8. WorkerHas(c)'
    BY <1>1, <1>4, <1>6, <1>7 DEF WorkerHas, Reply
  <1>9. Served(c)'
    BY <1>1, <1>2, <1>6, <1>8 DEF Served, Waiting, Reply, WorkerIdle, NoTokens
  <1> QED BY <1>1, <1>6, <1>9 DEF OneCall, Active, Inside

LEMMA ReplyKeepsOneCall ==
  ASSUME Control, Data, OneCall, CPART_send_to_app
  PROVE  OneCall'
  <1> USE DEF Semaphores
  <1>1. /\ pc[worker] \in {"SA1", "SA2", "SA3", "SA4", "SA5"} /\ ~WorkerIdle
        /\ UNCHANGED <<calls, executed>>
    BY DEF CPART_send_to_app, Wait, Lock, Post, Goto, WorkerIdle
  <1>2. PICK c \in Callers : Active(c) /\ Served(c)
    BY <1>1, WorkerServes
  <1>3. /\ worker \in Threads /\ sem \in [Semaphores -> {0, 1}] /\ overlap = {}
    BY DEF Threads, Control, OneCall
  <1> SUFFICES /\ overlap' = {}
               /\ Served(c)' \/ Replied(c)'
               /\ \A d \in Callers \ {c} : Outside(d)'
    BY DEF OneCall, Active, Inside
  <1>4. CASE Wait(worker, "SA1", "empty2", "SA2")
    <2>1. Goto(worker, "SA1", "SA2") /\ UNCHANGED <<message, overlap, buf>>
      BY <1>4 DEF Wait
    <2>2. /\ pc[worker] = "SA1" /\ pc'[worker] = "SA2" /\ pc'[c] = pc[c]
          /\ \A d \in Callers \ {c} : Outside(d)'
      BY <1>1, <1>2, <2>1, WorkerFrame
    <2>3. NoTokens'
      BY <1>2, <1>3, <1>4 DEF Wait, sem_wait, Served, NoTokens
    <2>4. WorkerHas(c)'
      BY <1>1, <1>2, <2>1, <2>2 DEF WorkerHas, Served, Reply
    <2> QED BY <1>1, <1>2, <1>3, <2>1, <2>2, <2>3, <2>4
            DEF Served, Waiting, Reply, WorkerIdle
  <1>5. CASE Lock(worker, "SA2", "mutex2", "SA3")
    <2>1. Goto(worker, "SA2", "SA3") /\ BeginCopy(worker, "SA3") /\ UNCHANGED <<message, buf>>
      BY <1>5 DEF Lock
    <2>2. /\ pc[worker] = "SA2" /\ pc'[worker] = "SA3" /\ pc'[c] = pc[c]
          /\ \A d \in Callers \ {c} : Outside(d)'
      BY <1>1, <1>2, <2>1, WorkerFrame
    <2>3. NoTokens'
      BY <1>2, <1>3, <1>5 DEF Lock, sem_wait, Served, NoTokens
    <2>4. WorkerHas(c)'
      BY <1>1, <1>2, <2>1, <2>2 DEF WorkerHas, Served, Reply
    <2>5. overlap' = {}
      BY <1>2, <1>3, <2>1, NobodyElseCopies, AloneInCopy DEF Served
    <2> QED BY <1>1, <1>2, <2>1, <2>2, <2>3, <2>4, <2>5
            DEF Served, Waiting, Reply, WorkerIdle
  <1>6. CASE Goto(worker, "SA3", "SA4") /\ CopyIn(worker, buf[worker])
    <2>1. /\ Goto(worker, "SA3", "SA4") /\ UNCHANGED <<sem, buf>>
          /\ message' = buf[worker] /\ overlap' = {}
      BY <1>3, <1>6 DEF CopyIn
    <2>2. /\ pc[worker] = "SA3" /\ pc'[worker] = "SA4" /\ pc'[c] = pc[c]
          /\ \A d \in Callers \ {c} : Outside(d)'
      BY <1>1, <1>2, <2>1, WorkerFrame
    <2>3. WorkerHas(c)'
      BY <1>1, <1>2, <2>1, <2>2 DEF WorkerHas, Served, Reply
    <2> QED BY <1>1, <1>2, <2>1, <2>2, <2>3
            DEF Served, Waiting, Reply, WorkerIdle, NoTokens
  <1>7. CASE Post(worker, "SA4", "mutex2", "SA5")
    <2>1. Goto(worker, "SA4", "SA5") /\ UNCHANGED <<message, overlap, buf>>
      BY <1>7 DEF Post
    <2>2. /\ pc[worker] = "SA4" /\ pc'[worker] = "SA5" /\ pc'[c] = pc[c]
          /\ \A d \in Callers \ {c} : Outside(d)'
      BY <1>1, <1>2, <2>1, WorkerFrame
    <2>3. NoTokens'
      BY <1>2, <1>3, <1>7 DEF Post, sem_post, Served, NoTokens
    <2>4. WorkerHas(c)'
      BY <1>1, <1>2, <2>1, <2>2 DEF WorkerHas, Served, Reply
    <2> QED BY <1>1, <1>2, <1>3, <2>1, <2>2, <2>3, <2>4
            DEF Served, Waiting, Reply, WorkerIdle
  <1>8. CASE Post(worker, "SA5", "full2", "RA1")
    <2>1. Goto(worker, "SA5", "RA1") /\ UNCHANGED <<message, overlap, buf>>
      BY <1>8 DEF Post
    <2>2. /\ pc[worker] = "SA5" /\ pc'[worker] = "RA1" /\ pc'[c] = pc[c]
          /\ \A d \in Callers \ {c} : Outside(d)'
      BY <1>1, <1>2, <2>1, WorkerFrame
    <2>3. sem'["full"] = 0 /\ sem'["full2"] = 1
      BY <1>2, <1>3, <1>8 DEF Post, sem_post, Served, NoTokens
    <2>4. message = Reply(c) /\ executed[c] = calls[c]
      BY <1>2, <2>2 DEF Served, WorkerHas
    <2> QED BY <1>1, <1>2, <1>3, <2>1, <2>2, <2>3, <2>4
            DEF Served, Replied, Waiting, Reply, WorkerIdle
  <1> QED BY <1>4, <1>5, <1>6, <1>7, <1>8 DEF CPART_send_to_app
-----------------------------------------------------------------------------
Inv == Control /\ Data /\ OneCall

LEMMA InitInv == Init => Inv
  <1> SUFFICES ASSUME Init PROVE Inv
    OBVIOUS
  <1>1. Control /\ Data
    BY InitControlData
  <1>2. \A c \in Callers : Outside(c)
    BY WorkerAssumption DEF Init, Outside, Threads
  <1>3. WorkerIdle /\ NoTokens /\ overlap = {}
    BY DEF Init, WorkerIdle, NoTokens, InitialSem, Semaphores, Threads
  <1> QED BY <1>1, <1>2, <1>3 DEF Inv, OneCall, AtRest

LEMMA UnchangedOneCall ==
  ASSUME OneCall, UNCHANGED vars
  PROVE  OneCall'
  <1> USE DEF vars, Waiting, WorkerHas, WorkerIdle, NoTokens, Reply, Request
  <1>1. overlap' = {}
    BY DEF OneCall
  <1>2. ASSUME NEW c \in Callers, Outside(c) PROVE Outside(c)'
    BY <1>2 DEF Outside
  <1>3. CASE AtRest
    BY <1>1, <1>2, <1>3 DEF OneCall, AtRest
  <1>4. ASSUME NEW c \in Callers, Active(c) PROVE OneCall'
    <2>1. ASSUME Sending(c) PROVE Sending(c)'  BY <2>1 DEF Sending
    <2>2. ASSUME Sent(c) PROVE Sent(c)'  BY <2>2 DEF Sent
    <2>3. ASSUME Served(c) PROVE Served(c)'  BY <2>3 DEF Served
    <2>4. ASSUME Replied(c) PROVE Replied(c)'  BY <2>4 DEF Replied
    <2>5. ASSUME Receiving(c) PROVE Receiving(c)'  BY <2>5 DEF Receiving
    <2>6. ASSUME Received(c) PROVE Received(c)'  BY <2>6 DEF Received
    <2>7. Inside(c)'
      BY <1>4, <2>1, <2>2, <2>3, <2>4, <2>5, <2>6 DEF Active, Inside
    <2>8. \A d \in Callers \ {c} : Outside(d)'
      BY <1>2, <1>4 DEF Active
    <2> QED BY <1>1, <2>7, <2>8 DEF OneCall, Active
  <1> QED BY <1>3, <1>4 DEF OneCall

LEMMA InvInductive == Exclusive /\ Inv /\ [Next]_vars => Inv'
  <1> SUFFICES ASSUME Exclusive, Control, Data, OneCall, [Next]_vars PROVE Inv'
    BY DEF Inv
  <1>1. Control' /\ Data'
    BY ControlInductive, DataInductive
  <1>2. OneCall'
    <2>1. CASE \E c \in Callers : Call(c)
      BY <2>1, CallKeepsOneCall
    <2>2. CASE \E c \in Callers : CPART_send_to_thread(c)
      BY <2>2, SendKeepsOneCall
    <2>3. CASE \E c \in Callers : CPART_recv_from_thread(c)
      BY <2>3, RecvKeepsOneCall
    <2>4. CASE CPART_recv_from_app
      BY <2>4, WorkerRecvKeepsOneCall
    <2>5. CASE Execute
      BY <2>5, ExecuteKeepsOneCall
    <2>6. CASE CPART_send_to_app
      BY <2>6, ReplyKeepsOneCall
    <2>7. CASE UNCHANGED vars
      BY <2>7, UnchangedOneCall
    <2> QED BY <2>1, <2>2, <2>3, <2>4, <2>5, <2>6, <2>7
            DEF Next, CallerStep, WorkerStep, Finished
  <1> QED BY <1>1, <1>2 DEF Inv

LEMMA ExclusiveInv == ASSUME Exclusive PROVE Spec => []Inv
  <1>1. Inv /\ [Next]_vars => Inv'
    BY InvInductive
  <1> QED BY <1>1, InitInv, PTL DEF Spec

LEMMA OneCallIsSafe ==
  ASSUME OneCall
  PROVE  NoDataRace /\ OwnResult
  <1>1. CASE AtRest
    <2>1. Copying = {}
      BY <1>1 DEF AtRest, Outside, WorkerIdle, Copying, CopyPcs, WritePcs, Threads
    <2>2. OwnResult
      BY <1>1 DEF AtRest, Outside, OwnResult, Reply
    <2> QED BY <2>1, <2>2 DEF NoDataRace
  <1>2. ASSUME NEW c \in Callers, Active(c) PROVE NoDataRace /\ OwnResult
    <2>1. \A t \in Copying : t = c \/ t = worker
      BY <1>2, NobodyElseCopies DEF Copying
    <2>2. WorkerIdle \/ pc[c] = "RT1"
      BY <1>2 DEF Active, Inside, Sending, Sent, Served, Replied, Receiving, Received
    <2>3. \A t, u \in Copying : t = u
      BY <1>2, <2>1, <2>2, NobodyElseCopies DEF Copying
    <2>4. ASSUME NEW d \in Callers,
                 pc[d] \in {"RT4", "RT5"} \/ (pc[d] = "app" /\ calls[d] > 0)
          PROVE  buf[d] = [kind |-> "retval_data", caller |-> d, seq |-> calls[d]]
      <3>1. CASE d = c
        BY <1>2, <2>4, <3>1 DEF Active, Inside, Sending, Sent, Served, Replied,
                                Receiving, Received, Reply
      <3>2. CASE d # c
        BY <1>2, <2>4, <3>2 DEF Active, Outside, Reply
      <3> QED BY <3>1, <3>2
    <2> QED BY <2>3, <2>4 DEF NoDataRace, OwnResult
  <1> QED BY <1>1, <1>2 DEF OneCall

(* When the application uses a descriptor from one thread at a time, no two *)
(* memcpy calls of ipc.c on its single buffer ever conflict, although the   *)
(* two directions are guarded by different mutexes.                         *)
THEOREM BufferRaceFree == ASSUME Exclusive PROVE Spec => []NoDataRace
  <1>1. Inv => NoDataRace
    BY OneCallIsSafe DEF Inv
  <1> QED BY <1>1, ExclusiveInv, PTL

(* ... and a caller that returns from CPART_recv_from_thread holds the      *)
(* result of its own request.                                               *)
THEOREM CallerGetsOwnResult == ASSUME Exclusive PROVE Spec => []OwnResult
  <1>1. Inv => OwnResult
    BY OneCallIsSafe DEF Inv
  <1> QED BY <1>1, ExclusiveInv, PTL
-----------------------------------------------------------------------------
(* Refinement.  A step of RemoteCall is taken by Call (Ask), by Execute     *)
(* (Execute) and by the memcpy of CPART_recv_from_thread (Answer).          *)
answered == [c \in Callers |-> Answered(c)]

LEMMA AnsweredBy ==
  ASSUME NEW c \in Callers, Data
  PROVE  /\ Outside(c) => Answered(c) = calls[c]
         /\ Waiting(c) => Answered(c) = calls[c] - 1
         /\ buf[c] = Reply(c) => Answered(c) = calls[c]
  <1>1. calls[c] \in Nat
    BY MaxCallsAssumption DEF Data
  <1>2. ASSUME NEW n \in Nat,
               buf[c] = [kind |-> "retval_data", caller |-> c, seq |-> n]
        PROVE  Answered(c) = n
    BY <1>2, WorkerAssumption DEF Answered, Zero
  <1>3. buf[c] = Reply(c) => Answered(c) = calls[c]
    BY <1>1, <1>2 DEF Reply
  <1>4. Outside(c) => Answered(c) = calls[c]
    BY <1>1, <1>3 DEF Outside, Answered
  <1>5. Waiting(c) => Answered(c) = calls[c] - 1
    <2>1. CASE calls[c] = 1 /\ buf[c] = Zero
      BY <2>1 DEF Answered
    <2>2. CASE calls[c] > 1 /\ buf[c] = [Reply(c) EXCEPT !.seq = calls[c] - 1]
      <3>1. calls[c] - 1 \in Nat
        BY <1>1, <2>2
      <3>2. buf[c] = [kind |-> "retval_data", caller |-> c, seq |-> calls[c] - 1]
        BY <2>2 DEF Reply
      <3> QED BY <1>2, <3>1, <3>2
    <2> QED BY <2>1, <2>2 DEF Waiting
  <1> QED BY <1>3, <1>4, <1>5

(* A step that changes no caller's buf changes no answer. *)
LEMMA AnsweredSame ==
  ASSUME \A c \in Callers : buf'[c] = buf[c]
  PROVE  answered' = answered
  BY DEF answered, Answered, Zero

LEMMA SimulatesInit == Init => RC!Init
  <1> SUFFICES ASSUME Init PROVE RC!Init
    OBVIOUS
  <1>1. \A c \in Callers : Answered(c) = 0
    BY DEF Init, Answered, Threads
  <1> QED BY <1>1 DEF Init, RC!Init

LEMMA CallAsks ==
  ASSUME Exclusive, Inv, NEW c \in Callers, Call(c)
  PROVE  RC!Ask(c)
  <1>1. Outside(c)
    BY DEF Inv, OneCall, Call, AtRest, Active, Inside, Sending, Sent, Served,
           Replied, Receiving, Received
  <1>2. answered[c] = calls[c]
    BY <1>1, AnsweredBy DEF Inv, answered
  <1>3. answered' = answered
    BY AnsweredSame DEF Call
  <1> QED BY <1>2, <1>3 DEF RC!Ask, Call, answered

LEMMA ExecuteExecutes ==
  ASSUME Inv, Execute
  PROVE  \E c \in Callers : RC!Execute(c)
  <1>1. ~WorkerIdle /\ calls' = calls
    BY DEF Execute, Goto, WorkerIdle
  <1>2. PICK c \in Callers : Active(c) /\ Served(c)
    BY <1>1, WorkerServes DEF Inv
  <1>3. /\ executed' = [executed EXCEPT ![c] = @ + 1]
        /\ executed[c] = calls[c] - 1
        /\ buf' = [buf EXCEPT ![worker] = Reply(c)]
    BY <1>2, ExecuteServes DEF Inv
  <1>4. \A d \in Callers : buf'[d] = buf[d]
    BY <1>3, WorkerAssumption DEF Inv, Data, Threads
  <1>5. answered' = answered
    BY <1>4, AnsweredSame
  <1>6. executed[c] < calls[c]
    BY <1>3, MaxCallsAssumption DEF Inv, Data
  <1> QED BY <1>1, <1>3, <1>5, <1>6 DEF RC!Execute, answered

LEMMA CopyOutAnswers ==
  ASSUME Inv, Inv', NEW c \in Callers, Goto(c, "RT3", "RT4"), CopyOut(c),
         UNCHANGED <<calls, executed>>
  PROVE  RC!Answer(c)
  <1>1. Active(c) /\ pc[c] = "RT3"
    BY InsideIsActive DEF Inv, Goto
  <1>2. Receiving(c)
    BY <1>1 DEF Active, Inside, Sending, Sent, Served, Replied, Received
  <1>3. answered[c] = calls[c] - 1 /\ executed[c] = calls[c]
    BY <1>2, AnsweredBy DEF Receiving, Inv, answered
  <1>4. calls[c] \in Nat
    BY MaxCallsAssumption DEF Inv, Data
  <1>5. buf' = [buf EXCEPT ![c] = message]
    BY DEF Inv, OneCall, CopyOut
  <1>6. buf'[c] = Reply(c)'
    BY <1>2, <1>5 DEF Receiving, Inv, Data, Threads, Reply
  <1>7. Answered(c)' = calls[c]
    <2>1. buf'[c] = [kind |-> "retval_data", caller |-> c, seq |-> calls[c]]
      BY <1>6 DEF Reply
    <2> QED BY <2>1 DEF Answered, Zero
  <1>8. \A d \in Callers \ {c} : Answered(d)' = Answered(d)
    BY <1>5 DEF Answered, Inv, Data, Threads, Zero
  <1>9. answered' = [answered EXCEPT ![c] = executed[c]]
    BY <1>3, <1>7, <1>8 DEF answered
  <1> QED BY <1>3, <1>4, <1>9 DEF RC!Answer, answered

LEMMA SimulatesStep ==
  ASSUME Exclusive, Inv, Inv', [Next]_vars
  PROVE  [RC!Next]_(RC!vars)
  <1> SUFFICES \/ \E c \in Callers : RC!Ask(c) \/ RC!Execute(c) \/ RC!Answer(c)
               \/ UNCHANGED <<calls, executed>> /\ answered' = answered
    BY DEF RC!Next, RC!vars, answered
  <1>1. CASE \E c \in Callers : Call(c)
    BY <1>1, CallAsks
  <1>2. CASE \E c \in Callers : CPART_send_to_thread(c)
    <2>1. UNCHANGED <<buf, calls, executed>>
      BY <1>2 DEF CPART_send_to_thread, Wait, Lock, Post, CopyIn
    <2> QED BY <2>1, AnsweredSame
  <1>3. CASE \E c \in Callers : CPART_recv_from_thread(c)
    <2> PICK c \in Callers : CPART_recv_from_thread(c)
      BY <1>3
    <2>1. CASE Goto(c, "RT3", "RT4") /\ CopyOut(c)
      BY <2>1, CopyOutAnswers DEF CPART_recv_from_thread
    <2>2. CASE ~(Goto(c, "RT3", "RT4") /\ CopyOut(c))
      <3>1. UNCHANGED <<buf, calls, executed>>
        BY <2>2 DEF CPART_recv_from_thread, Wait, Lock, Post
      <3> QED BY <3>1, AnsweredSame
    <2> QED BY <2>1, <2>2
  <1>4. CASE CPART_recv_from_app
    <2>1. UNCHANGED <<calls, executed>>
      BY <1>4 DEF CPART_recv_from_app
    <2>2. buf' = buf \/ \E m : buf' = [buf EXCEPT ![worker] = m]
      BY <1>4 DEF CPART_recv_from_app, Wait, Lock, Post, CopyOut
    <2>3. \A c \in Callers : buf'[c] = buf[c]
      BY <2>2, WorkerAssumption DEF Inv, Data, Threads
    <2> QED BY <2>1, <2>3, AnsweredSame
  <1>5. CASE Execute
    BY <1>5, ExecuteExecutes
  <1>6. CASE CPART_send_to_app
    <2>1. UNCHANGED <<buf, calls, executed>>
      BY <1>6 DEF CPART_send_to_app, Wait, Lock, Post, CopyIn
    <2> QED BY <2>1, AnsweredSame
  <1>7. CASE UNCHANGED vars
    BY <1>7, AnsweredSame DEF vars
  <1> QED BY <1>1, <1>2, <1>3, <1>4, <1>5, <1>6, <1>7
          DEF Next, CallerStep, WorkerStep, Finished

(* With one thread at a time, the semaphores and the buffer of ipc.c        *)
(* implement RemoteCall: every request of a wrapper is executed exactly     *)
(* once and answered with its own outcome.                                  *)
THEOREM ChannelImplementsRemoteCall ==
  ASSUME Exclusive PROVE Spec => ImplementsRemoteCall
  <1>1. Init => RC!Init
    BY SimulatesInit
  <1>2. Inv /\ Inv' /\ [Next]_vars => [RC!Next]_(RC!vars)
    BY SimulatesStep
  <1> QED BY <1>1, <1>2, ExclusiveInv, PTL DEF Spec, ImplementsRemoteCall, RC!Spec
=============================================================================

----------------------------- MODULE Fork_proof -----------------------------
(***************************************************************************)
(* Proofs about a fork, for any number of callers and of calls, in whatever *)
(* state the fork finds the parent's channel.                               *)
(***************************************************************************)
EXTENDS Fork, Ipc_proof

ChildReply == [kind |-> "retval_data", caller |-> forker, seq |-> ccalls[forker]]
Kept == Exclusive /\ ccalls[forker] > 0 => cbuf[forker] = ChildReply
Tokens(f, f2) == csem["full"] = f /\ csem["full2"] = f2

(* The child's worker waits for a request, or was not created. *)
Idle == cpc[worker] \in {"RA1", "none"}

(* Where the child's call is: what its two threads, the tokens, the buffer  *)
(* and the worker's record are at each stage.                               *)
Rest == cpc[forker] = "app" /\ Idle /\ Tokens(0, 0) /\ Kept
Asking ==
  /\ cpc[forker] \in {"ST1", "ST2", "ST3", "ST4", "ST5"}
  /\ Idle /\ Tokens(0, 0)
  /\ cpc[forker] \in {"ST4", "ST5"} => cmessage = C!Request(forker)
Asked ==
  /\ cpc[forker] = "RT1" /\ Idle /\ Tokens(1, 0)
  /\ cmessage = C!Request(forker)
Serving ==
  /\ cpc[forker] = "RT1" /\ cpc[worker] \in WorkerPcs \ {"RA1"} /\ Tokens(0, 0)
  /\ cpc[worker] \in {"RA2", "RA3"} => cmessage = C!Request(forker)
  /\ cpc[worker] \in {"RA4", "RA5", "exec"} => cbuf[worker] = C!Request(forker)
  /\ cpc[worker] \in {"SA1", "SA2", "SA3"} => cbuf[worker] = ChildReply
  /\ cpc[worker] \in {"SA4", "SA5"} => cmessage = ChildReply
Answering ==
  /\ cpc[forker] = "RT1" /\ Idle /\ Tokens(0, 1)
  /\ cmessage = ChildReply
Taking ==
  /\ cpc[forker] \in {"RT2", "RT3", "RT4", "RT5"}
  /\ Idle /\ Tokens(0, 0)
  /\ cpc[forker] \in {"RT2", "RT3"} => cmessage = ChildReply
  /\ cpc[forker] \in {"RT4", "RT5"} => cbuf[forker] = ChildReply
Stage == Rest \/ Asking \/ Asked \/ Serving \/ Answering \/ Taking

(* The child's channel starts afresh: its worker has not used a semaphore   *)
(* before it was initialised, or has found no request there.                *)
Clean == ~early \/ ~pending

ChildTypes ==
  /\ forker \in Callers
  /\ cpc \in [Threads -> CallerPcs \cup WorkerPcs \cup {"none"}]
  /\ \A d \in Callers \ {forker} : cpc[d] = "app"
  /\ csem \in [Semaphores -> Nat]
  /\ DOMAIN cbuf = Threads

(* fdtable_forked is on its way: the semaphores before `at' are new. *)
Preparing ==
  /\ cpc[forker] = "app" /\ Kept
  /\ Idle
  /\ coverlap = {}
  /\ at > 4 \/ ~pending => csem["full"] = 0
  /\ at > 6 => csem["full2"] = 0
ForkInv ==
  /\ at \in 0..9
  /\ at > 0 => ChildTypes
  /\ at \in 1..8 => cpc[forker] = "app"
  /\ at \in 1..8 /\ Clean => Preparing
  /\ at = 9 /\ Clean => coverlap = {} /\ Stage

LEMMA InitsFacts ==
  /\ Ready = 9
  /\ Inits[1] = "empty" /\ Inits[2] = "full" /\ Inits[3] = "empty2"
  /\ Inits[4] = "full2" /\ Inits[5] = "mutex" /\ Inits[6] = "mutex2"
BY DEF Ready, Inits

LEMMA Names ==
  /\ \A c \in Callers : c \in Threads /\ c # worker
  /\ worker \in Threads
  /\ {"empty", "full", "mutex", "empty2", "full2", "mutex2"} = Semaphores
BY WorkerAssumption DEF Threads, Semaphores

(* Steps of a child's thread t on a semaphore, in terms of its variables.   *)
LEMMA ChildSem ==
  ASSUME NEW t, NEW from, NEW s, NEW to
  PROVE  /\ C!Wait(t, from, s, to) \/ C!Lock(t, from, s, to) =>
              /\ cpc[t] = from /\ cpc' = [cpc EXCEPT ![t] = to]
              /\ csem[s] > 0 /\ csem' = [csem EXCEPT ![s] = csem[s] - 1]
              /\ UNCHANGED <<cmessage, cbuf>>
         /\ C!Post(t, from, s, to) =>
              /\ cpc[t] = from /\ cpc' = [cpc EXCEPT ![t] = to]
              /\ csem' = [csem EXCEPT ![s] = csem[s] + 1]
              /\ UNCHANGED <<cmessage, cbuf, coverlap>>
         /\ C!Wait(t, from, s, to) => UNCHANGED coverlap
BY DEF C!Wait, C!Lock, C!Post, C!Goto, C!sem_wait, C!sem_post

(* A copy that no other thread's copy meets. *)
LEMMA ChildCopy ==
  ASSUME coverlap = {}, NEW t, NEW data
  PROVE  /\ C!CopyIn(t, data) => cmessage' = data /\ coverlap' = {} /\ UNCHANGED <<csem, cbuf>>
         /\ C!CopyOut(t) => /\ cbuf' = [cbuf EXCEPT ![t] = cmessage]
                            /\ coverlap' = {} /\ UNCHANGED <<csem, cmessage>>
BY DEF C!CopyIn, C!CopyOut

LEMMA ChildLock ==
  ASSUME ChildTypes, coverlap = {},
         NEW t \in Threads, NEW from, NEW s, NEW to, C!Lock(t, from, s, to),
         \A u \in {forker, worker} \ {t} : cpc[u] \notin CopyPcs
  PROVE  coverlap' = {}
<1>1. \A u \in Threads \ {t} : cpc[u] \notin C!CopyPcs
  BY DEF ChildTypes, Threads, CopyPcs, WritePcs, C!CopyPcs, C!WritePcs
<1>2. C!Conflicts(t, to) = {}
  BY <1>1 DEF C!Conflicts, C!Copying, C!Threads, Threads
<1> QED
  BY <1>2 DEF C!Lock, C!BeginCopy
-----------------------------------------------------------------------------
(* The shapes of the child's threads: every step is one of these. *)
ChildMove(t, from, to) == cpc[t] = from /\ cpc' = [cpc EXCEPT ![t] = to]

LEMMA WorkerShapes ==
  C!WorkerStep =>
    \/ C!Wait(worker, "RA1", "full", "RA2") \/ C!Lock(worker, "RA2", "mutex", "RA3")
    \/ ChildMove(worker, "RA3", "RA4") /\ C!CopyOut(worker)
    \/ C!Post(worker, "RA4", "mutex", "RA5") \/ C!Post(worker, "RA5", "empty", "exec")
    \/ /\ ChildMove(worker, "exec", "SA1") /\ cbuf' = [cbuf EXCEPT ![worker] = C!Result(@)]
       /\ UNCHANGED <<csem, cmessage, coverlap>>
    \/ C!Wait(worker, "SA1", "empty2", "SA2") \/ C!Lock(worker, "SA2", "mutex2", "SA3")
    \/ ChildMove(worker, "SA3", "SA4") /\ C!CopyIn(worker, cbuf[worker])
    \/ C!Post(worker, "SA4", "mutex2", "SA5") \/ C!Post(worker, "SA5", "full2", "RA1")
BY DEF C!WorkerStep, C!CPART_recv_from_app, C!CPART_send_to_app, C!Execute, C!Goto, ChildMove

LEMMA CallerShapes ==
  C!CallerStep(forker) =>
    \/ C!Wait(forker, "ST1", "empty", "ST2") \/ C!Lock(forker, "ST2", "mutex", "ST3")
    \/ ChildMove(forker, "ST3", "ST4") /\ C!CopyIn(forker, C!Request(forker))
    \/ C!Post(forker, "ST4", "mutex", "ST5") \/ C!Post(forker, "ST5", "full", "RT1")
    \/ C!Wait(forker, "RT1", "full2", "RT2") \/ C!Lock(forker, "RT2", "mutex2", "RT3")
    \/ ChildMove(forker, "RT3", "RT4") /\ C!CopyOut(forker)
    \/ C!Post(forker, "RT4", "mutex2", "RT5") \/ C!Post(forker, "RT5", "empty2", "app")
BY DEF C!CallerStep, C!CPART_send_to_thread, C!CPART_recv_from_thread, C!Goto, ChildMove

(* Whatever they do, the child's threads keep the types of its variables. *)
LEMMA SemKeepsTypes ==
  ASSUME ChildTypes, UNCHANGED forker, NEW t \in {forker, worker}, NEW from,
         NEW s \in Semaphores, NEW to \in CallerPcs \cup WorkerPcs,
         C!Wait(t, from, s, to) \/ C!Lock(t, from, s, to) \/ C!Post(t, from, s, to)
  PROVE  ChildTypes'
<1>1. cpc' = [cpc EXCEPT ![t] = to] /\ UNCHANGED cbuf
  BY ChildSem
<1>2. csem' \in [Semaphores -> Nat]
  <2>1. csem[s] \in Nat
    BY DEF ChildTypes
  <2>2. PICK n \in Nat : csem' = [csem EXCEPT ![s] = n]
    BY <2>1, ChildSem
  <2> QED
    BY <2>2 DEF ChildTypes
<1> QED
  BY <1>1, <1>2, Names DEF ChildTypes

LEMMA CopyKeepsTypes ==
  ASSUME ChildTypes, UNCHANGED forker, NEW t \in {forker, worker}, NEW from,
         NEW to \in CallerPcs \cup WorkerPcs, ChildMove(t, from, to), UNCHANGED csem,
         \E m : cbuf' = [cbuf EXCEPT ![t] = m] \/ cbuf' = cbuf
  PROVE  ChildTypes'
BY Names DEF ChildTypes, ChildMove

LEMMA WorkerKeepsTypes ==
  ASSUME ChildTypes, UNCHANGED forker, C!WorkerStep
  PROVE  ChildTypes'
<1> USE Names DEF WorkerPcs
<1>1. CASE \/ C!Wait(worker, "RA1", "full", "RA2") \/ C!Lock(worker, "RA2", "mutex", "RA3")
           \/ C!Post(worker, "RA4", "mutex", "RA5") \/ C!Post(worker, "RA5", "empty", "exec")
  BY <1>1, SemKeepsTypes
<1>2. CASE \/ C!Wait(worker, "SA1", "empty2", "SA2") \/ C!Lock(worker, "SA2", "mutex2", "SA3")
           \/ C!Post(worker, "SA4", "mutex2", "SA5") \/ C!Post(worker, "SA5", "full2", "RA1")
  BY <1>2, SemKeepsTypes
<1>3. CASE ChildMove(worker, "RA3", "RA4") /\ C!CopyOut(worker)
  BY <1>3, CopyKeepsTypes DEF C!CopyOut
<1>4. CASE ChildMove(worker, "SA3", "SA4") /\ C!CopyIn(worker, cbuf[worker])
  BY <1>4, CopyKeepsTypes DEF C!CopyIn
<1>5. CASE /\ ChildMove(worker, "exec", "SA1")
           /\ cbuf' = [cbuf EXCEPT ![worker] = C!Result(@)] /\ UNCHANGED csem
  BY <1>5, CopyKeepsTypes
<1> QED
  BY <1>1, <1>2, <1>3, <1>4, <1>5, WorkerShapes

LEMMA CallerKeepsTypes ==
  ASSUME ChildTypes, UNCHANGED forker, C!CallerStep(forker)
  PROVE  ChildTypes'
<1> USE Names DEF CallerPcs
<1>1. CASE \/ C!Wait(forker, "ST1", "empty", "ST2") \/ C!Lock(forker, "ST2", "mutex", "ST3")
           \/ C!Post(forker, "ST4", "mutex", "ST5") \/ C!Post(forker, "ST5", "full", "RT1")
  BY <1>1, SemKeepsTypes
<1>2. CASE \/ C!Wait(forker, "RT1", "full2", "RT2") \/ C!Lock(forker, "RT2", "mutex2", "RT3")
           \/ C!Post(forker, "RT4", "mutex2", "RT5") \/ C!Post(forker, "RT5", "empty2", "app")
  BY <1>2, SemKeepsTypes
<1>3. CASE ChildMove(forker, "ST3", "ST4") /\ C!CopyIn(forker, C!Request(forker))
  BY <1>3, CopyKeepsTypes DEF C!CopyIn
<1>4. CASE ChildMove(forker, "RT3", "RT4") /\ C!CopyOut(forker)
  BY <1>4, CopyKeepsTypes DEF C!CopyOut
<1> QED
  BY <1>1, <1>2, <1>3, <1>4, CallerShapes

LEMMA SameRequest ==
  ASSUME UNCHANGED <<forker, ccalls>>
  PROVE  C!Request(forker)' = C!Request(forker) /\ ChildReply' = ChildReply
BY DEF C!Request, ChildReply

LEMMA ResultIsReply == C!Result(C!Request(forker)) = ChildReply
BY DEF C!Result, C!Request, ChildReply

(* The worker's steps take the child's call from one stage to the next. *)
LEMMA WorkerStage ==
  ASSUME ChildTypes, coverlap = {}, Stage, UNCHANGED <<forker, ccalls>>, C!WorkerStep
  PROVE  coverlap' = {} /\ Stage'
<1>0. /\ forker \in Threads /\ forker # worker
      /\ cpc \in [Threads -> CallerPcs \cup WorkerPcs \cup {"none"}]
      /\ csem \in [Semaphores -> Nat] /\ DOMAIN cbuf = Threads
  BY Names DEF ChildTypes
<1> USE Names, SameRequest DEF Tokens
<1>2. CASE C!Wait(worker, "RA1", "full", "RA2")
  <2>1. /\ cpc[worker] = "RA1" /\ cpc' = [cpc EXCEPT ![worker] = "RA2"]
        /\ csem["full"] > 0 /\ csem' = [csem EXCEPT !["full"] = csem["full"] - 1]
        /\ UNCHANGED <<cmessage, cbuf, coverlap>>
    BY <1>2, ChildSem
  <2>2. Asked
    BY <2>1 DEF Stage, Rest, Asking, Asked, Serving, Answering, Taking
  <2>3. Serving'
    BY <1>0, <2>1, <2>2 DEF Asked, Serving, WorkerPcs
  <2> QED
    BY <2>1, <2>3 DEF Stage
<1>3. ASSUME ~Idle PROVE Serving
  BY <1>3 DEF Stage, Rest, Asking, Asked, Serving, Answering, Taking
<1>4. ASSUME NEW s \in Semaphores \ {"full", "full2"}, NEW from \in WorkerPcs \ {"RA1"}, NEW to,
             \/ <<from, to>> \in {<<"RA2", "RA3">>, <<"RA4", "RA5">>, <<"RA5", "exec">>}
             \/ <<from, to>> \in {<<"SA1", "SA2">>, <<"SA2", "SA3">>, <<"SA4", "SA5">>},
             \/ C!Wait(worker, from, s, to) \/ C!Lock(worker, from, s, to)
             \/ C!Post(worker, from, s, to)
      PROVE  coverlap' = {} /\ Stage'
  <2>1. /\ cpc[worker] = from /\ cpc' = [cpc EXCEPT ![worker] = to]
        /\ csem'["full"] = csem["full"] /\ csem'["full2"] = csem["full2"]
        /\ UNCHANGED <<cmessage, cbuf>>
    BY <1>0, <1>4, ChildSem
  <2>2. Serving
    BY <1>3, <1>4, <2>1 DEF Idle
  <2>3. cpc[forker] \notin CopyPcs
    BY <2>2 DEF Serving, CopyPcs, WritePcs
  <2>4. coverlap' = {}
    BY <1>4, <2>3, ChildSem, ChildLock
  <2>5. Serving'
    BY <1>0, <1>4, <2>1, <2>2 DEF Serving, WorkerPcs
  <2> QED
    BY <2>4, <2>5 DEF Stage
<1>5. CASE \/ C!Lock(worker, "RA2", "mutex", "RA3") \/ C!Post(worker, "RA4", "mutex", "RA5")
           \/ C!Post(worker, "RA5", "empty", "exec")
  BY <1>4, <1>5 DEF WorkerPcs
<1>6. CASE \/ C!Wait(worker, "SA1", "empty2", "SA2") \/ C!Lock(worker, "SA2", "mutex2", "SA3")
           \/ C!Post(worker, "SA4", "mutex2", "SA5")
  BY <1>4, <1>6 DEF WorkerPcs
<1>7. CASE ChildMove(worker, "RA3", "RA4") /\ C!CopyOut(worker)
  <2>1. cbuf' = [cbuf EXCEPT ![worker] = cmessage] /\ coverlap' = {} /\ UNCHANGED <<csem, cmessage>>
    BY <1>7, ChildCopy
  <2>2. Serving
    BY <1>3, <1>7 DEF ChildMove, Idle
  <2>3. Serving'
    BY <1>0, <1>7, <2>1, <2>2 DEF ChildMove, Serving, WorkerPcs
  <2> QED
    BY <2>1, <2>3 DEF Stage
<1>8. CASE /\ ChildMove(worker, "exec", "SA1") /\ cbuf' = [cbuf EXCEPT ![worker] = C!Result(@)]
           /\ UNCHANGED <<csem, cmessage, coverlap>>
  <2>1. Serving
    BY <1>3, <1>8 DEF ChildMove, Idle
  <2>2. cbuf'[worker] = ChildReply
    BY <1>0, <1>8, <2>1, ResultIsReply DEF ChildMove, Serving
  <2>3. Serving'
    BY <1>0, <1>8, <2>1, <2>2 DEF ChildMove, Serving, WorkerPcs
  <2> QED
    BY <1>8, <2>3 DEF Stage
<1>9. CASE ChildMove(worker, "SA3", "SA4") /\ C!CopyIn(worker, cbuf[worker])
  <2>1. cmessage' = cbuf[worker] /\ coverlap' = {} /\ UNCHANGED <<csem, cbuf>>
    BY <1>9, ChildCopy
  <2>2. Serving
    BY <1>3, <1>9 DEF ChildMove, Idle
  <2>3. Serving'
    BY <1>0, <1>9, <2>1, <2>2 DEF ChildMove, Serving, WorkerPcs
  <2> QED
    BY <2>1, <2>3 DEF Stage
<1>10. CASE C!Post(worker, "SA5", "full2", "RA1")
  <2>1. /\ cpc[worker] = "SA5" /\ cpc' = [cpc EXCEPT ![worker] = "RA1"]
        /\ csem' = [csem EXCEPT !["full2"] = csem["full2"] + 1]
        /\ UNCHANGED <<cmessage, cbuf, coverlap>>
    BY <1>10, ChildSem
  <2>2. Serving
    BY <1>3, <2>1 DEF Idle
  <2>3. Answering'
    BY <1>0, <2>1, <2>2 DEF Serving, Answering, Idle
  <2> QED
    BY <2>1, <2>3 DEF Stage
<1> QED
  BY <1>2, <1>5, <1>6, <1>7, <1>8, <1>9, <1>10, WorkerShapes

(* So do the caller's. *)
LEMMA CallerStage ==
  ASSUME ChildTypes, coverlap = {}, Stage, UNCHANGED <<forker, ccalls>>, C!CallerStep(forker)
  PROVE  coverlap' = {} /\ Stage'
<1>0. /\ forker \in Threads /\ forker # worker
      /\ cpc \in [Threads -> CallerPcs \cup WorkerPcs \cup {"none"}]
      /\ csem \in [Semaphores -> Nat] /\ DOMAIN cbuf = Threads
  BY Names DEF ChildTypes
<1> USE Names, SameRequest DEF Tokens
<1>1. ASSUME cpc[forker] \in {"ST1", "ST2", "ST3", "ST4", "ST5"} PROVE Asking
  BY <1>1 DEF Stage, Rest, Asking, Asked, Serving, Answering, Taking
<1>2. ASSUME cpc[forker] \in {"RT2", "RT3", "RT4", "RT5"} PROVE Taking
  BY <1>2 DEF Stage, Rest, Asking, Asked, Serving, Answering, Taking
<1>3. ASSUME NEW s \in Semaphores \ {"full", "full2"},
             NEW from \in {"ST1", "ST2", "ST4", "RT2", "RT4"}, NEW to,
             \/ <<from, to>> \in {<<"ST1", "ST2">>, <<"ST2", "ST3">>, <<"ST4", "ST5">>}
             \/ <<from, to>> \in {<<"RT2", "RT3">>, <<"RT4", "RT5">>},
             \/ C!Wait(forker, from, s, to) \/ C!Lock(forker, from, s, to)
             \/ C!Post(forker, from, s, to)
      PROVE  coverlap' = {} /\ Stage'
  <2>1. /\ cpc[forker] = from /\ cpc' = [cpc EXCEPT ![forker] = to]
        /\ csem'["full"] = csem["full"] /\ csem'["full2"] = csem["full2"]
        /\ UNCHANGED <<cmessage, cbuf>>
    BY <1>0, <1>3, ChildSem
  <2>2. Idle
    BY <1>1, <1>2, <1>3, <2>1 DEF Asking, Taking
  <2>3. coverlap' = {}
    BY <1>0, <1>3, <2>2, ChildSem, ChildLock DEF CopyPcs, WritePcs, Idle
  <2>4. CASE from \in {"ST1", "ST2", "ST4"}
    <3>1. Asking
      BY <1>1, <2>1, <2>4
    <3>2. Asking'
      BY <1>0, <1>3, <2>1, <2>4, <3>1 DEF Asking, Idle
    <3> QED
      BY <2>3, <3>2 DEF Stage
  <2>5. CASE from \in {"RT2", "RT4"}
    <3>1. Taking
      BY <1>2, <2>1, <2>5
    <3>2. Taking'
      BY <1>0, <1>3, <2>1, <2>5, <3>1 DEF Taking, Idle
    <3> QED
      BY <2>3, <3>2 DEF Stage
  <2> QED
    BY <1>3, <2>4, <2>5
<1>4. CASE \/ C!Wait(forker, "ST1", "empty", "ST2") \/ C!Lock(forker, "ST2", "mutex", "ST3")
           \/ C!Post(forker, "ST4", "mutex", "ST5")
  BY <1>3, <1>4
<1>5. CASE C!Lock(forker, "RT2", "mutex2", "RT3") \/ C!Post(forker, "RT4", "mutex2", "RT5")
  BY <1>3, <1>5
<1>6. CASE ChildMove(forker, "ST3", "ST4") /\ C!CopyIn(forker, C!Request(forker))
  <2>1. cmessage' = C!Request(forker) /\ coverlap' = {} /\ UNCHANGED <<csem, cbuf>>
    BY <1>6, ChildCopy
  <2>2. Asking
    BY <1>1, <1>6 DEF ChildMove
  <2>3. Asking'
    BY <1>0, <1>6, <2>1, <2>2 DEF ChildMove, Asking, Idle
  <2> QED
    BY <2>1, <2>3 DEF Stage
<1>7. CASE C!Post(forker, "ST5", "full", "RT1")
  <2>1. /\ cpc[forker] = "ST5" /\ cpc' = [cpc EXCEPT ![forker] = "RT1"]
        /\ csem' = [csem EXCEPT !["full"] = csem["full"] + 1]
        /\ UNCHANGED <<cmessage, cbuf, coverlap>>
    BY <1>7, ChildSem
  <2>2. Asking
    BY <1>1, <2>1
  <2>3. Asked'
    BY <1>0, <2>1, <2>2 DEF Asking, Asked, Idle
  <2> QED
    BY <2>1, <2>3 DEF Stage
<1>8. CASE C!Wait(forker, "RT1", "full2", "RT2")
  <2>1. /\ cpc[forker] = "RT1" /\ cpc' = [cpc EXCEPT ![forker] = "RT2"]
        /\ csem["full2"] > 0 /\ csem' = [csem EXCEPT !["full2"] = csem["full2"] - 1]
        /\ UNCHANGED <<cmessage, cbuf, coverlap>>
    BY <1>8, ChildSem
  <2>2. Answering
    BY <2>1 DEF Stage, Rest, Asking, Asked, Serving, Answering, Taking
  <2>3. Taking'
    BY <1>0, <2>1, <2>2 DEF Answering, Taking, Idle
  <2> QED
    BY <2>1, <2>3 DEF Stage
<1>9. CASE ChildMove(forker, "RT3", "RT4") /\ C!CopyOut(forker)
  <2>1. cbuf' = [cbuf EXCEPT ![forker] = cmessage] /\ coverlap' = {} /\ UNCHANGED <<csem, cmessage>>
    BY <1>9, ChildCopy
  <2>2. Taking
    BY <1>2, <1>9 DEF ChildMove
  <2>3. Taking'
    BY <1>0, <1>9, <2>1, <2>2 DEF ChildMove, Taking, Idle
  <2> QED
    BY <2>1, <2>3 DEF Stage
<1>10. CASE C!Post(forker, "RT5", "empty2", "app")
  <2>1. /\ cpc[forker] = "RT5" /\ cpc' = [cpc EXCEPT ![forker] = "app"]
        /\ csem'["full"] = csem["full"] /\ csem'["full2"] = csem["full2"]
        /\ UNCHANGED <<cmessage, cbuf, coverlap>>
    BY <1>0, <1>10, ChildSem
  <2>2. Taking
    BY <1>2, <2>1
  <2>3. Rest'
    BY <1>0, <2>1, <2>2 DEF Taking, Rest, Kept, Idle
  <2> QED
    BY <2>1, <2>3 DEF Stage
<1> QED
  BY <1>4, <1>5, <1>6, <1>7, <1>8, <1>9, <1>10, CallerShapes
-----------------------------------------------------------------------------
(* What the fork finds in the parent.  Only with exclusive use does the     *)
(* thread that forks hold the result of its last call.                      *)
ParentInv == Control /\ Data /\ (Exclusive => Inv)

LEMMA ForkStarts ==
  ASSUME ParentInv, NEW c \in Callers, ForkNow(c)
  PROVE  ForkInv'
<1>1. /\ at' = 1 /\ forker' = c /\ pc[c] = "app"
      /\ cpc' = [t \in Threads |-> IF t = worker THEN "none" ELSE "app"]
      /\ csem' = sem /\ coverlap' = {} /\ cbuf' = [buf EXCEPT ![worker] = Zero]
      /\ ccalls' = calls /\ pending' = (sem["full"] = 1)
  BY DEF ForkNow
<1>2. ChildTypes'
  <2>1. sem \in [Semaphores -> Nat]
    BY DEF ParentInv, Control
  <2>2. DOMAIN buf = Threads
    BY DEF ParentInv, Data
  <2> QED
    BY <1>1, <2>1, <2>2, Names DEF ChildTypes, CallerPcs
<1>3. Kept'
  <2>1. ASSUME Exclusive, calls[c] > 0 PROVE buf[c] = Reply(c)
    <3>1. OwnResult
      BY <2>1, OneCallIsSafe DEF ParentInv, Inv
    <3> QED
      BY <1>1, <2>1, <3>1 DEF OwnResult, Reply
  <2>2. cbuf'[c] = buf[c]
    BY <1>1, Names DEF ParentInv, Data
  <2> QED
    BY <1>1, <2>1, <2>2 DEF Kept, ChildReply, Reply
<1>4. Preparing'
  <2>1. sem["full"] \in {0, 1}
    BY SemValues DEF ParentInv
  <2>2. ~pending' => csem'["full"] = 0
    BY <1>1, <2>1
  <2>3. cpc'[forker'] = "app" /\ cpc'[worker] = "none"
    BY <1>1, Names
  <2> QED
    BY <1>1, <1>3, <2>2, <2>3 DEF Preparing, Idle
<1> QED
  BY <1>1, <1>2, <1>4 DEF ForkInv, Preparing

(* The statements of fdtable_forked. *)
LEMMA CreateInv == ForkInv /\ CreateWorker => ForkInv'
<1> SUFFICES ASSUME ForkInv, CreateWorker PROVE ForkInv'
  OBVIOUS
<1>1. /\ at = 1 /\ at' = 2
      /\ \E p \in {"RA1", "none"} : cpc' = [cpc EXCEPT ![worker] = p]
      /\ UNCHANGED <<forker, csem, coverlap, cbuf, ccalls, early, pending>>
  BY DEF CreateWorker
<1>2. ChildTypes /\ cpc[forker] = "app"
  BY <1>1 DEF ForkInv
<1>3. ChildTypes' /\ cpc'[forker] = "app" /\ Idle'
  BY <1>1, <1>2, Names DEF ChildTypes, WorkerPcs, Idle
<1>4. ASSUME Clean PROVE Preparing'
  <2>1. Preparing
    BY <1>1, <1>4 DEF ForkInv
  <2> QED
    BY <1>1, <1>3, <2>1 DEF Preparing, Kept, ChildReply
<1> QED
  BY <1>1, <1>3, <1>4 DEF ForkInv, Clean

LEMMA NewMessageInv == ForkInv /\ NewMessage => ForkInv'
<1> SUFFICES ASSUME ForkInv, NewMessage PROVE ForkInv'
  OBVIOUS
<1>1. /\ at = 2 /\ at' = 3 /\ coverlap' = coverlap \cup (C!Copying \cap {worker})
      /\ UNCHANGED <<forker, cpc, csem, cbuf, ccalls, early, pending>>
  BY DEF NewMessage
<1>2. ChildTypes' /\ cpc'[forker] = "app"
  BY <1>1 DEF ForkInv, ChildTypes
<1>3. ASSUME Clean PROVE Preparing'
  <2>1. Preparing
    BY <1>1, <1>3 DEF ForkInv
  <2>2. worker \notin C!Copying
    BY <1>1, <2>1 DEF Preparing, C!Copying, C!CopyPcs, C!WritePcs, Idle
  <2> QED
    BY <1>1, <2>1, <2>2 DEF Preparing, Kept, ChildReply, Idle
<1> QED
  BY <1>1, <1>2, <1>3 DEF ForkInv, Clean

(* The last sem_init completes the fresh channel, on which the child's      *)
(* calls start at Rest.                                                     *)
LEMMA SemInitInv == ForkInv /\ SemInit => ForkInv'
<1> SUFFICES ASSUME ForkInv, SemInit PROVE ForkInv'
  OBVIOUS
<1> DEFINE s == Inits[at - 2]
<1>1. /\ at \in 3..8 /\ at' = at + 1 /\ csem' = [csem EXCEPT ![s] = InitialSem[s]]
      /\ UNCHANGED <<forker, cpc, coverlap, cbuf, ccalls, early, pending>>
  BY InitsFacts DEF SemInit, NewValue
<1>2. /\ s \in Semaphores
      /\ at = 4 => s = "full"
      /\ at = 6 => s = "full2"
  <2>1. at = 3 \/ at = 4 \/ at = 5 \/ at = 6 \/ at = 7 \/ at = 8
    BY <1>1
  <2> QED
    BY <2>1, InitsFacts, Names
<1> HIDE DEF s
<1>4. /\ InitialSem[s] \in Nat
      /\ InitialSem["full"] = 0 /\ InitialSem["full2"] = 0
  BY <1>2 DEF InitialSem, Semaphores
<1>5. ChildTypes /\ cpc[forker] = "app"
  BY <1>1 DEF ForkInv
<1>6. ChildTypes' /\ cpc'[forker] = "app"
  BY <1>1, <1>2, <1>4, <1>5 DEF ChildTypes
<1>7. ASSUME Clean
      PROVE  /\ at' \in 4..8 => Preparing'
             /\ at' = 9 => coverlap' = {} /\ Rest'
  <2>1. Preparing
    BY <1>1, <1>7 DEF ForkInv
  <2>2. at' > 4 \/ ~pending => csem'["full"] = 0
    <3>1. CASE s = "full"
      BY <1>1, <1>2, <1>4, <1>5, <3>1 DEF ChildTypes
    <3>2. CASE s # "full"
      <4>1. csem'["full"] = csem["full"] /\ at # 4
        BY <1>1, <1>2, <1>5, <3>2, Names DEF ChildTypes
      <4> QED
        BY <1>1, <2>1, <4>1 DEF Preparing
    <3> QED
      BY <3>1, <3>2
  <2>3. at' > 6 => csem'["full2"] = 0
    <3>1. CASE s = "full2"
      BY <1>1, <1>2, <1>4, <1>5, <3>1 DEF ChildTypes
    <3>2. CASE s # "full2"
      <4>1. csem'["full2"] = csem["full2"] /\ at # 6
        BY <1>1, <1>2, <1>5, <3>2, Names DEF ChildTypes
      <4> QED
        BY <1>1, <2>1, <4>1 DEF Preparing
    <3> QED
      BY <3>1, <3>2
  <2>4. Kept'
    BY <1>1, <2>1 DEF Preparing, Kept, ChildReply
  <2> QED
    BY <1>1, <2>1, <2>2, <2>3, <2>4 DEF Preparing, Rest, Tokens, Idle
<1>8. at' \in 4..9
  BY <1>1
<1> QED
  BY <1>1, <1>6, <1>7, <1>8 DEF ForkInv, Clean, Stage

(* A worker that is early finds no request, unless one was pending. *)
LEMMA WorkerInv == ForkInv /\ ChildWorker => ForkInv'
<1> SUFFICES ASSUME ForkInv, ChildWorker PROVE ForkInv'
  OBVIOUS
<1>1. /\ at > 1 /\ C!WorkerStep /\ early' = (early \/ at < 9)
      /\ UNCHANGED <<at, forker, pending>>
  BY InitsFacts DEF ChildWorker
<1>2. at \in 2..9 /\ ChildTypes
  BY <1>1 DEF ForkInv
<1>3. ChildTypes' /\ cpc'[forker] = cpc[forker]
  <2>1. ChildTypes'
    BY <1>1, <1>2, WorkerKeepsTypes
  <2>2. cpc'[forker] = cpc[forker]
    BY <1>1, <1>2, WorkerShapes, ChildSem, Names DEF ChildMove, ChildTypes
  <2> QED
    BY <2>1, <2>2
<1>4. CASE at < 9
  <2>1. SUFFICES ASSUME ~pending PROVE FALSE
    BY <1>1, <1>2, <1>3, <1>4 DEF ForkInv, Clean
  <2>2. Preparing
    BY <1>2, <1>4, <2>1 DEF ForkInv, Clean
  <2>3. cpc[worker] \in {"RA1", "none"} /\ csem["full"] = 0
    BY <1>2, <2>1, <2>2 DEF Preparing, Idle
  <2> QED
    BY <1>1, <2>3, WorkerShapes, ChildSem DEF ChildMove
<1>5. CASE at = 9
  <2>1. UNCHANGED ccalls
    BY <1>1 DEF C!WorkerStep, C!CPART_recv_from_app, C!CPART_send_to_app, C!Execute
  <2>2. ASSUME Clean' PROVE coverlap' = {} /\ Stage'
    <3>1. Clean
      BY <1>1, <1>5, <2>2 DEF Clean
    <3>2. coverlap = {} /\ Stage
      BY <1>5, <3>1 DEF ForkInv
    <3> QED
      BY <1>1, <1>2, <2>1, <3>2, WorkerStage
  <2> QED
    BY <1>1, <1>3, <1>5, <2>2 DEF ForkInv
<1> QED
  BY <1>2, <1>4, <1>5

LEMMA SleepInv == ForkInv /\ WorkerSleeps => ForkInv'
<1> SUFFICES ASSUME ForkInv, WorkerSleeps PROVE ForkInv'
  OBVIOUS
<1>1. /\ early' = (early \/ at < Ready)
      /\ UNCHANGED <<at, forker, cpc, csem, cmessage, coverlap, cbuf, ccalls, pending>>
  BY DEF WorkerSleeps, channel
<1>2. Clean' => Clean
  BY <1>1 DEF Clean
<1>3. ChildTypes' = ChildTypes /\ Kept' = Kept /\ C!Request(forker)' = C!Request(forker)
      /\ ChildReply' = ChildReply
  BY <1>1 DEF ChildTypes, Kept, ChildReply, C!Request
<1>4. Preparing' = Preparing /\ Stage' = Stage
  BY <1>1, <1>3 DEF Preparing, Stage, Rest, Asking, Asked, Serving, Answering, Taking, Tokens, Idle
<1> QED
  BY <1>1, <1>2, <1>3, <1>4 DEF ForkInv

LEMMA CallerInv == ForkInv /\ (ChildCall \/ ChildCaller) => ForkInv'
<1> SUFFICES ASSUME ForkInv, ChildCall \/ ChildCaller PROVE ForkInv'
  OBVIOUS
<1>1. at = 9 /\ UNCHANGED <<at, forker, early, pending>>
  BY InitsFacts DEF ChildCall, ChildCaller
<1>2. ChildTypes
  BY <1>1 DEF ForkInv
<1>3. CASE ChildCall
  <2>1. /\ cpc[forker] = "app" /\ cpc' = [cpc EXCEPT ![forker] = "ST1"]
        /\ UNCHANGED <<csem, cmessage, coverlap, cbuf>>
    BY <1>3 DEF ChildCall, C!Call, C!Goto
  <2>2. ChildTypes'
    BY <1>1, <1>2, <2>1, Names DEF ChildTypes, CallerPcs
  <2>3. ASSUME Clean PROVE coverlap' = {} /\ Stage'
    <3>1. coverlap = {} /\ Rest
      BY <1>1, <2>1, <2>3 DEF ForkInv, Stage, Rest, Asking, Asked, Serving, Answering, Taking
    <3>2. Asking'
      BY <1>1, <1>2, <2>1, <3>1, Names DEF Rest, Asking, Tokens, ChildTypes, Idle
    <3> QED
      BY <2>1, <3>1, <3>2 DEF Stage
  <2> QED
    BY <1>1, <2>2, <2>3 DEF ForkInv, Clean
<1>4. CASE ChildCaller
  <2>1. C!CallerStep(forker)
    BY <1>4 DEF ChildCaller
  <2>2. UNCHANGED ccalls
    BY <2>1 DEF C!CallerStep, C!CPART_send_to_thread, C!CPART_recv_from_thread
  <2>3. ChildTypes'
    BY <1>1, <1>2, <2>1, CallerKeepsTypes
  <2>4. ASSUME Clean PROVE coverlap' = {} /\ Stage'
    <3>1. coverlap = {} /\ Stage
      BY <1>1, <2>4 DEF ForkInv
    <3> QED
      BY <1>1, <1>2, <2>1, <2>2, <3>1, CallerStage
  <2> QED
    BY <1>1, <2>3, <2>4 DEF ForkInv, Clean
<1> QED
  BY <1>3, <1>4

LEMMA ForkInductive == ParentInv /\ ForkInv /\ [FNext]_fvars => ForkInv'
<1> SUFFICES ASSUME ParentInv, ForkInv, [FNext]_fvars PROVE ForkInv'
  OBVIOUS
<1>1. CASE at = 0 /\ UNCHANGED childVars
  BY <1>1 DEF childVars, ForkInv
<1>2. CASE UNCHANGED fvars
  <2>1. UNCHANGED <<at, forker, cpc, csem, cmessage, coverlap, cbuf, ccalls, early, pending>>
    BY <1>2 DEF fvars, childVars
  <2>2. /\ ChildTypes' = ChildTypes /\ Kept' = Kept /\ C!Request(forker)' = C!Request(forker)
        /\ ChildReply' = ChildReply /\ Clean' = Clean
    BY <2>1 DEF ChildTypes, Kept, ChildReply, C!Request, Clean
  <2>3. Preparing' = Preparing /\ Stage' = Stage
    BY <2>1, <2>2 DEF Preparing, Stage, Rest, Asking, Asked, Serving, Answering, Taking, Tokens, Idle
  <2> QED
    BY <2>1, <2>2, <2>3 DEF ForkInv
<1>3. CASE \E c \in Callers : ForkNow(c)
  BY <1>3, ForkStarts
<1>4. CASE Forked
  BY <1>4, CreateInv, NewMessageInv, SemInitInv DEF Forked
<1>5. CASE WorkerSleeps \/ ChildWorker \/ ChildCall \/ ChildCaller
  BY <1>5, SleepInv, WorkerInv, CallerInv
<1> QED
  BY <1>1, <1>2, <1>3, <1>4, <1>5 DEF FNext

LEMMA ParentKept == ParentInv /\ [FNext]_fvars => ParentInv'
<1> SUFFICES ASSUME ParentInv, [FNext]_fvars PROVE ParentInv'
  OBVIOUS
<1>1. [Next]_vars
  BY DEF FNext, fvars, ForkNow, Forked, CreateWorker, NewMessage, SemInit, WorkerSleeps,
         ChildWorker, ChildCall, ChildCaller
<1> QED
  BY <1>1, ControlInductive, DataInductive, InvInductive DEF ParentInv

LEMMA Forking == FSpec => [](ParentInv /\ ForkInv)
<1>1. FInit => ParentInv /\ ForkInv
  BY InitInv, InitControlData DEF FInit, ParentInv, ForkInv
<1>2. ParentInv /\ ForkInv /\ [FNext]_fvars => (ParentInv /\ ForkInv)'
  BY ParentKept, ForkInductive
<1> QED
  BY <1>1, <1>2, PTL DEF FSpec

(* Whatever call of another thread the fork cut off, and however threads    *)
(* shared the descriptor in the parent: what the child's worker performs    *)
(* was asked for in the child, unless a request was in the channel at the   *)
(* fork and the worker was faster than fdtable_forked.                      *)
THEOREM ChildServesChild == FSpec => []ServesChildOnly
<1>1. ForkInv => ServesChildOnly
  <2> SUFFICES ASSUME ForkInv, at > 1, cpc[worker] = "exec", ~(early /\ pending)
               PROVE  cbuf[worker] = C!Request(forker)
    BY DEF ServesChildOnly
  <2>1. Clean /\ at \in 2..9
    BY DEF Clean, ForkInv
  <2>2. at = 9
    BY <2>1 DEF ForkInv, Preparing, Idle
  <2>3. Stage
    BY <2>1, <2>2 DEF ForkInv
  <2> QED
    BY <2>3 DEF Stage, Rest, Asking, Asked, Serving, Answering, Taking, Idle
<1> QED
  BY <1>1, Forking, PTL

(* When the parent's threads used the descriptor one at a time, a caller in *)
(* the child obtains the result of its own request, unless its worker was   *)
(* faster than fdtable_forked.                                              *)
THEOREM ChildGetsOwnResult == ASSUME Exclusive PROVE FSpec => []ChildOwnResult
<1>1. ForkInv => ChildOwnResult
  <2> SUFFICES ASSUME ForkInv, at = Ready, ~early, ccalls[forker] > 0,
                      cpc[forker] \in {"RT4", "RT5", "app"}
               PROVE  cbuf[forker] = ChildReply
    BY DEF ChildOwnResult, ChildReply
  <2>1. Stage
    BY InitsFacts DEF ForkInv, Clean
  <2> QED
    BY <2>1 DEF Stage, Rest, Asking, Asked, Serving, Answering, Taking, Kept
<1> QED
  BY <1>1, Forking, PTL
=============================================================================

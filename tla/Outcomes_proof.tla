--------------------------- MODULE Outcomes_proof ---------------------------
(***************************************************************************)
(* What an application sees of its calls and its descriptors: proofs about  *)
(* results and errors, when no two of its threads use one descriptor at     *)
(* once, about the agreement of table and kernel, and type correctness.     *)
(***************************************************************************)
EXTENDS LdPreload_proof

(* An int can hold every result. *)
Small == \A v \in Results \cup Fds : v <= INT_MAX

(* Threads that hold an entry hold different ones. *)
Holding(t) == pc[t] \in {"send", "recv", "accepted", "unlock", "join"}
Waiting(t, e) == pc[t] = "recv" /\ frame[t].tmp = e
Apart ==
  /\ \A t, u \in Threads : t # u /\ frame[t].fd # -1 => frame[t].fd # frame[u].fd
  /\ \A t \in Threads :
       /\ pc[t] # "app" /\ call(t).kind # "create" => frame[t].fd # -1
       /\ Holding(t) => entry[frame[t].tmp].thr_fd = frame[t].fd

(* Where the call of a waiting thread is: in the message to the worker, in  *)
(* the worker's record, in the message back.                                *)
Tokens(e, f, f2) == entry[e].full = f /\ entry[e].full2 = f2
Busy(e) == worker[e].pc \in {"exec", "reply"}
Answered(t, r) ==
  call(t).kind = "forward" =>
    /\ r.err = outcome[t].err
    /\ Small => (IF call(t).field = "size" THEN r.size ELSE r.value) = outcome[t].val
Asked(t, e) ==
  /\ Tokens(e, 1, 0) /\ ~Busy(e)
  /\ entry[e].message.type = call(t).type /\ entry[e].message.from = t
Executing(t, e) ==
  /\ Tokens(e, 0, 0) /\ worker[e].pc = "exec"
  /\ worker[e].args.type = call(t).type /\ worker[e].args.from = t
Replying(t, e) == Tokens(e, 0, 0) /\ worker[e].pc = "reply" /\ Answered(t, worker[e])
Replied(t, e) == Tokens(e, 0, 1) /\ ~Busy(e) /\ Answered(t, entry[e].message)
Stage(t, e) == Asked(t, e) \/ Executing(t, e) \/ Replying(t, e) \/ Replied(t, e)
Lane(e) ==
  /\ (\A t \in Threads : ~Waiting(t, e)) => Tokens(e, 0, 0) /\ ~Busy(e)
  /\ \A t \in Threads : Waiting(t, e) => Stage(t, e)
Channels == \A e \in Entries : Lane(e)

(* What a wrapper has of the kernel's answer once it has it. *)
OutcomeOf(t) ==
  /\ call(t).kind = "create" /\ pc[t] \in {"lock", "link", "done"} =>
       /\ frame[t].ret = outcome[t].val
       /\ outcome[t].err # 0 => frame[t].func_errno = outcome[t].err
  /\ call(t).kind = "forward" /\ pc[t] \in {"accepted", "link", "unlock"} =>
       /\ Small => frame[t].ret = outcome[t].val
       /\ frame[t].thr_errno = outcome[t].err
  /\ pc[t] = "done" =>
       /\ Small => frame[t].ret = outcome[t].val
       /\ outcome[t].err # 0 /\ call(t) # write => errno[t] = outcome[t].err
Outcomes == \A t \in Threads : OutcomeOf(t)
Orderly == Apart /\ Channels /\ Outcomes
-----------------------------------------------------------------------------
LEMMA HoldersApart ==
  ASSUME Account, Apart, NEW t \in Threads, NEW u \in Threads,
         Holding(t), Holding(u), frame[t].tmp = frame[u].tmp
  PROVE  t = u
<1>1. frame[t].fd = frame[u].fd
  BY DEF Apart
<1>2. frame[t].fd # -1
  <2>1. pc[t] # "app" /\ call(t).kind # "create"
    <3>1. call(t).kind # "create"
      BY KindOf DEF Account, Places, Holding
    <3> QED
      BY <3>1 DEF Holding
  <2> QED
    BY <2>1 DEF Apart
<1> QED
  BY <1>1, <1>2 DEF Apart

LEMMA FdKept ==
  ASSUME Account, NEW t \in Threads, ThreadStep(t), ~Return(t)
  PROVE  frame'[t].fd = frame[t].fd /\ frame'[t].call = frame[t].call
<1>1. CASE Quiet(t)
  BY <1>1, QuietFields DEF Account
<1>2. CASE Send(t)
  BY <1>2 DEF Send
<1>3. CASE Recv(t) \/ Link(t) \/ Join(t)
  BY <1>3, RecvShape, LinkFields, JoinFields
<1> QED
  BY <1>1, <1>2, <1>3 DEF ThreadStep, Quiet

LEMMA EnterShape ==
  ASSUME Account, NEW t \in Threads, Enter(t)
  PROVE  /\ pc[t] = "app" /\ pc'[t] = IF frame'[t].call.kind = "create" THEN "original" ELSE "lock"
         /\ frame'[t].call \in Calls[t]
         /\ frame'[t].fd \in known \cup {-1}
         /\ frame'[t].call.kind = "create" <=> frame'[t].fd = -1
         /\ Exclusive /\ frame'[t].fd # -1 => \A u \in Threads : frame[u].fd # frame'[t].fd
         /\ known' = IF frame'[t].call.type = "CLOSE" THEN known \ {frame'[t].fd} ELSE known
         /\ frame'[t].next = <<>>
<1>1. PICK c \in Calls[t], fd \in known \cup {-1} :
        /\ pc[t] = "app"
        /\ (c.kind = "create") <=> (fd = -1)
        /\ (Exclusive /\ fd # -1) => \A u \in Threads : frame[u].fd # fd
        /\ frame' = [frame EXCEPT ![t] =
             [Idle EXCEPT !.call = c, !.fd = fd,
                          !.func_errno = IF c = accept THEN 0 ELSE errno[t]]]
        /\ known' = IF c.type = "CLOSE" THEN known \ {fd} ELSE known
        /\ Goto(t, IF c.kind = "create" THEN "original" ELSE "lock")
  BY DEF Enter
<1>2. frame'[t].call = c /\ frame'[t].fd = fd /\ frame'[t].next = Idle.next
  BY <1>1, InitialRecords DEF Account, Types, ThreadTypes, FrameType
<1>3. pc'[t] = IF c.kind = "create" THEN "original" ELSE "lock"
  BY <1>1 DEF Goto, Account, Types, ThreadTypes
<1>4. Idle.next = <<>>
  BY DEF Idle
<1>5. /\ pc[t] = "app" /\ pc'[t] = IF frame'[t].call.kind = "create" THEN "original" ELSE "lock"
      /\ frame'[t].call \in Calls[t] /\ frame'[t].fd \in known \cup {-1}
      /\ frame'[t].next = <<>>
  BY <1>1, <1>2, <1>3, <1>4
<1>6. frame'[t].call.kind = "create" <=> frame'[t].fd = -1
  BY <1>1, <1>2
<1>7. Exclusive /\ frame'[t].fd # -1 => \A u \in Threads : frame[u].fd # frame'[t].fd
  BY <1>1, <1>2
<1>8. known' = IF frame'[t].call.type = "CLOSE" THEN known \ {frame'[t].fd} ELSE known
  BY <1>1, <1>2
<1> QED
  BY <1>5, <1>6, <1>7, <1>8

LEMMA FreshFd ==
  ASSUME Account, Apart, Exclusive, NEW t \in Threads, Enter(t) \/ ThreadStep(t)
  PROVE  \A x, y \in Threads : x # y /\ frame'[x].fd # -1 => frame'[x].fd # frame'[y].fd
<1>1. \A u \in Threads \ {t} : frame'[u] = frame[u]
  BY StepAlone DEF Alone, Account
<1>2. \A x, y \in Threads : x # y /\ frame[x].fd # -1 => frame[x].fd # frame[y].fd
  BY DEF Apart
<1>3. CASE Enter(t)
  BY <1>1, <1>2, <1>3, EnterShape
<1>4. CASE Return(t)
  <2>1. frame'[t].fd = -1
    BY <1>4 DEF Return, Idle, Account, Types, ThreadTypes
  <2> QED
    BY <1>1, <1>2, <2>1
<1>5. CASE ThreadStep(t) /\ ~Return(t)
  <2>1. frame'[t].fd = frame[t].fd
    BY <1>5, FdKept
  <2> QED
    BY <1>1, <1>2, <2>1
<1> QED
  BY <1>3, <1>4, <1>5 DEF ThreadStep

LEMMA HeldFd ==
  ASSUME Account, Account', Apart, NEW t \in Threads, Enter(t) \/ ThreadStep(t)
  PROVE  \A u \in Threads : Holding(u)' => entry'[frame'[u].tmp].thr_fd = frame'[u].fd
<1>1. Alone(t)
  BY StepAlone DEF Account
<1>2. \A u \in Threads : Holding(u) => /\ entry[frame[u].tmp].thr_fd = frame[u].fd
                                       /\ frame[u].tmp \in allocated /\ frame[u].tmp \in Entries
  BY DEF Apart, Account, Memory, Holding, Types, TableTypes
<1>3. CASE Enter(t) \/ Return(t)
  <2>1. ~Holding(t)' /\ entry' = entry
    <3>1. pc'[t] \in {"app", "original", "lock"}
      BY <1>3, EnterShape DEF Return, Goto, Account, Types, ThreadTypes
    <3> QED
      BY <1>3, <3>1 DEF Holding, Enter, Return, tableVars
  <2> QED
    BY <1>1, <1>2, <2>1 DEF Alone, Holding
<1>4. ASSUME UNCHANGED entry, frame'[t].tmp = frame[t].tmp, frame'[t].fd = frame[t].fd,
             Holding(t)' => Holding(t)
      PROVE  \A u \in Threads : Holding(u)' => entry'[frame'[u].tmp].thr_fd = frame'[u].fd
  BY <1>1, <1>2, <1>4 DEF Alone, Holding
<1>5. CASE ForwardLock(t) \/ CloseLock(t)
  <2>1. entry[frame'[t].tmp].thr_fd = frame[t].fd
    <3>1. \E class : frame'[t].tmp \in {fdtable_get_by_fd(frame[t].fd, class), fdtable_get_by_fd_all(frame[t].fd)}
                     /\ frame'[t].tmp # NULL
      BY <1>5 DEF ForwardLock, CloseLock, Account, Types, ThreadTypes, FrameType
    <3> QED
      BY <3>1, LookupFacts DEF Account, Types, TableTypes
  <2>2. Quiet(t) /\ ~Return(t)
    BY <1>5 DEF Quiet, ForwardLock, CloseLock, Return, Is
  <2>3. frame'[t].fd = frame[t].fd /\ entry' = entry
    BY <2>2, QuietFields, QuietKeeps DEF Account
  <2> QED
    BY <1>1, <1>2, <2>1, <2>3 DEF Alone, Holding
<1>6. CASE Quiet(t) /\ ~Return(t) /\ ~ForwardLock(t) /\ ~CloseLock(t)
  <2>1. frame'[t].tmp = frame[t].tmp /\ frame'[t].fd = frame[t].fd /\ entry' = entry
    BY <1>6, QuietFields, QuietKeeps DEF Account
  <2>2. Holding(t)' => Holding(t)
    BY <1>6 DEF Account, Types, ThreadTypes, Quiet, CreateOriginal, CreateRefused, CreateAdd,
       CreateWithoutEntry, ForwardMiss, ForwardOriginal, Accepted, ForwardReturn, CloseMiss,
       CloseOriginal, Is, Goto, Holding
  <2> QED
    BY <1>4, <2>1, <2>2
<1>7. CASE Send(t) \/ Recv(t)
  <2>1. /\ SameFds /\ Holding(t)
        /\ frame'[t].tmp = frame[t].tmp /\ frame'[t].fd = frame[t].fd
    BY <1>7, SendShape, RecvShape DEF Send, Recv, Holding
  <2> QED
    BY <1>1, <1>2, <2>1 DEF Alone, Holding, SameFds
<1>8. CASE Link(t)
  <2>1. PICK e \in Entries \ allocated :
          pc' = [pc EXCEPT ![t] = "done"] /\ \A d \in Entries \ {e} : entry'[d] = entry[d]
    BY <1>8, LinkShape DEF Goto
  <2>2. ~Holding(t)'
    BY <2>1 DEF Holding, Account, Types, ThreadTypes
  <2> QED
    BY <1>1, <1>2, <2>1, <2>2 DEF Alone, Holding
<1>9. CASE Join(t)
  <2>1. Closing(t) /\ pc' = [pc EXCEPT ![t] = "original"]
    BY <1>9, JoinShape DEF Goto
  <2>2. ASSUME NEW u \in Threads PROVE ~Holding(u)'
    <3>1. CASE u = t
      BY <2>1, <3>1 DEF Holding, Account, Types, ThreadTypes
    <3>2. CASE u # t
      <4>1. writer' = NULL
        BY <1>9, <2>1, Held, JoinShape DEF Unlock, Writing
      <4>2. ~Reading(u)
        BY <2>1, Held DEF Writing
      <4>3. ~Closing(u)
        BY <2>1, <3>2, Held DEF Writing
      <4> QED
        BY <1>1, <3>2, <4>2, <4>3, KindOf DEF Alone, Holding, Reading, Closing, Account, Places
    <3> QED
      BY <3>1, <3>2
  <2> QED
    BY <2>2
<1> QED
  BY <1>3, <1>5, <1>6, <1>7, <1>8, <1>9 DEF ThreadStep, Quiet

LEMMA ApartStep ==
  ASSUME Account, Account', Apart, Exclusive, NEW t \in Threads, Enter(t) \/ ThreadStep(t)
  PROVE  Apart'
<1>1. \A x, y \in Threads : x # y /\ frame'[x].fd # -1 => frame'[x].fd # frame'[y].fd
  BY FreshFd
<1>2. \A u \in Threads : Holding(u)' => entry'[frame'[u].tmp].thr_fd = frame'[u].fd
  BY HeldFd
<1>3. ASSUME NEW u \in Threads, pc'[u] # "app", frame'[u].call.kind # "create"
      PROVE  frame'[u].fd # -1
  <2>1. CASE u # t
    <3>1. pc[u] = pc'[u] /\ frame[u] = frame'[u]
      BY <2>1, StepAlone DEF Alone, Account
    <3> QED
      BY <1>3, <3>1 DEF Apart, call
  <2>2. CASE u = t /\ Enter(t)
    BY <1>3, <2>2, EnterShape
  <2>3. CASE u = t /\ Return(t)
    <3>1. pc'[t] = "app"
      BY <2>3 DEF Return, Goto, Account, Types, ThreadTypes
    <3> QED
      BY <1>3, <2>3, <3>1
  <2>4. CASE u = t /\ ThreadStep(t) /\ ~Return(t)
    <3>1. frame'[t].fd = frame[t].fd /\ frame'[t].call = frame[t].call
      BY <2>4, FdKept
    <3>2. pc[t] # "app"
      BY <2>4 DEF ThreadStep, CreateOriginal, CreateRefused, CreateAdd,
         CreateWithoutEntry, ForwardLock, ForwardMiss, ForwardOriginal, Accepted,
         ForwardReturn, CloseLock, CloseMiss, CloseOriginal, Send, Recv, Link, Join, Is
    <3> QED
      BY <1>3, <2>4, <3>1, <3>2 DEF Apart, call
  <2> QED
    BY <2>1, <2>2, <2>3, <2>4
<1> QED
  BY <1>1, <1>2, <1>3 DEF Apart, call, Holding

LEMMA ApartWorker ==
  ASSUME Account, Apart, NEW e \in Entries, WorkerOnly(e)
  PROVE  Apart'
<1>1. \A u \in Threads : Holding(u) => frame[u].tmp \in Entries
  BY DEF Account, Memory, Holding, Types, TableTypes
<1> QED
  BY <1>1 DEF Apart, WorkerOnly, SameFds, Holding, call
-----------------------------------------------------------------------------
(* A channel none of whose parts changes, and whose waiting threads stay.   *)
LEMMA LaneKept ==
  ASSUME NEW e \in Entries, Lane(e), entry'[e] = entry[e], worker'[e] = worker[e],
         \A u \in Threads :
           /\ Waiting(u, e)' <=> Waiting(u, e)
           /\ Waiting(u, e) => frame'[u].call = frame[u].call /\ outcome'[u] = outcome[u]
  PROVE  Lane(e)'
<1>1. ASSUME NEW u \in Threads, Waiting(u, e) PROVE Stage(u, e)'
  <2>1. Stage(u, e) /\ frame'[u].call = frame[u].call /\ outcome'[u] = outcome[u]
    BY <1>1 DEF Lane
  <2> QED
    BY <2>1 DEF Stage, Asked, Executing, Replying, Replied, Answered, Tokens, Busy, call
<1> QED
  BY <1>1 DEF Lane, Tokens, Busy

(* A step of one thread leaves what the kernel answered to the others. *)
LEMMA OutcomeAlone ==
  ASSUME Account, NEW t \in Threads, Enter(t) \/ ThreadStep(t)
  PROVE  /\ \A u \in Threads \ {t} : outcome'[u] = outcome[u] /\ errno'[u] = errno[u]
         /\ pc'[t] = "recv" => Send(t)
         /\ pc[t] = "recv" => Recv(t)
<1>1. pc \in [Threads -> Pcs] /\ outcome \in [Threads -> OutcomeType] /\ errno \in [Threads -> Int]
  BY DEF Account, Types, ThreadTypes
<1>2. pc'[t] = "recv" => Send(t)
  BY <1>1 DEF Enter, ThreadStep, Return, CreateOriginal, CreateRefused, CreateAdd,
         CreateWithoutEntry, ForwardLock, ForwardMiss, ForwardOriginal, Accepted,
         ForwardReturn, CloseLock, CloseMiss, CloseOriginal, Recv, Link, Join, Goto
<1>3. pc[t] = "recv" => Recv(t)
  BY DEF Enter, ThreadStep, Return, CreateOriginal, CreateRefused, CreateAdd,
         CreateWithoutEntry, ForwardLock, ForwardMiss, ForwardOriginal, Accepted,
         ForwardReturn, CloseLock, CloseMiss, CloseOriginal, Send, Link, Join, Is
<1>4. \A u \in Threads \ {t} : outcome'[u] = outcome[u]
  BY <1>1 DEF Enter, ThreadStep, Return, CreateOriginal, CreateRefused, CreateAdd,
         CreateWithoutEntry, ForwardLock, ForwardMiss, ForwardOriginal, Accepted,
         ForwardReturn, CloseLock, CloseMiss, CloseOriginal, Send, Recv, Link, Join
<1>5. \A u \in Threads \ {t} : errno'[u] = errno[u]
  BY <1>1 DEF Enter, ThreadStep, Return, CreateOriginal, CreateRefused, CreateAdd,
         CreateWithoutEntry, ForwardLock, ForwardMiss, ForwardOriginal, Accepted,
         ForwardReturn, CloseLock, CloseMiss, CloseOriginal, Send, Recv, Link, Join
<1> QED
  BY <1>2, <1>3, <1>4, <1>5

(* A thread's step that is not on a channel leaves every channel but d's,   *)
(* and d's when it changes neither the entry nor its worker.                *)
LEMMA LanesElsewhere ==
  ASSUME Account, Channels, NEW t \in Threads, Enter(t) \/ ThreadStep(t), NEW d,
         \A e \in Entries \ {d} : entry'[e] = entry[e] /\ worker'[e] = worker[e],
         pc[t] = "recv" \/ pc'[t] = "recv" => frame[t].tmp = d /\ frame'[t].tmp = d
  PROVE  \A e \in Entries \ {d} : Lane(e)'
<1> SUFFICES ASSUME NEW e \in Entries \ {d} PROVE Lane(e)'
  OBVIOUS
<1>1. Alone(t) /\ \A u \in Threads \ {t} : outcome'[u] = outcome[u]
  BY StepAlone, OutcomeAlone DEF Account
<1>2. ~Waiting(t, e) /\ ~Waiting(t, e)'
  BY DEF Waiting
<1>3. \A u \in Threads :
        /\ Waiting(u, e)' <=> Waiting(u, e)
        /\ Waiting(u, e) => frame'[u].call = frame[u].call /\ outcome'[u] = outcome[u]
  BY <1>1, <1>2 DEF Alone, Waiting
<1>4. Lane(e)
  BY DEF Channels
<1> QED
  BY <1>3, <1>4, LaneKept

LEMMA QuietChannels ==
  ASSUME Account, Channels, NEW t \in Threads, Enter(t) \/ Quiet(t)
  PROVE  Channels'
<1>1. entry' = entry /\ worker' = worker /\ (Enter(t) \/ ThreadStep(t))
  BY QuietKeeps DEF Enter, tableVars, ThreadStep, Quiet
<1>2. pc[t] # "recv"
  BY DEF Enter, Quiet, Return, CreateOriginal, CreateRefused, CreateAdd,
         CreateWithoutEntry, ForwardLock, ForwardMiss, ForwardOriginal, Accepted,
         ForwardReturn, CloseLock, CloseMiss, CloseOriginal, Is
<1>3. pc'[t] # "recv"
  BY DEF Account, Types, ThreadTypes, Enter, Quiet, Return, CreateOriginal, CreateRefused,
         CreateAdd, CreateWithoutEntry, ForwardLock, ForwardMiss, ForwardOriginal, Accepted,
         ForwardReturn, CloseLock, CloseMiss, CloseOriginal, Goto
<1>4. \A e \in Entries \ {NULL} : Lane(e)'
  BY <1>1, <1>2, <1>3, LanesElsewhere
<1> QED
  BY <1>4, NullAssumption DEF Channels

LEMMA SendChannels ==
  ASSUME Account, Apart, Channels, NEW t \in Threads, Send(t)
  PROVE  Channels'
<1>0. PICK d \in Entries : d = frame[t].tmp
  BY SendShape
<1>1. /\ pc[t] = "send" /\ pc'[t] = "recv" /\ frame' = frame /\ worker' = worker
      /\ d \in Entries /\ ThreadStep(t)
  BY <1>0, SendShape DEF Send, Goto, ThreadStep, Account, Types, ThreadTypes
<1>2. Alone(t)
  BY <1>0, <1>1, StepAlone DEF Account
<1>3. ASSUME NEW u \in Threads \ {t} PROVE ~Waiting(u, d) /\ ~Waiting(u, d)'
  <2>1. ~Waiting(u, d)
    BY <1>0, <1>1, HoldersApart DEF Waiting, Holding
  <2> QED
    BY <1>2, <2>1 DEF Alone, Waiting
<1>4. Tokens(d, 0, 0) /\ ~Busy(d)
  <2>1. ~Waiting(t, d)
    BY <1>0, <1>1 DEF Waiting
  <2> QED
    BY <1>0, <1>1, <1>3, <2>1 DEF Channels, Lane
<1>5. Asked(t, d)'
  <2>1. /\ entry'[d].full = 1 /\ entry'[d].full2 = 0
        /\ entry'[d].message = [NoMessage EXCEPT !.type = call(t).type, !.from = t]
    BY <1>0, <1>4, SendShape DEF Tokens
  <2>2. entry'[d].message.type = call(t).type /\ entry'[d].message.from = t
    BY <2>1 DEF NoMessage
  <2> QED
    BY <1>0, <1>1, <1>4, <2>1, <2>2 DEF Asked, Tokens, Busy, call
<1>6. Lane(d)'
  BY <1>0, <1>1, <1>3, <1>5 DEF Lane, Waiting, Stage
<1>7. \A e \in Entries \ {d} : Lane(e)'
  BY <1>0, <1>1, SendShape, LanesElsewhere
<1> QED
  BY <1>0, <1>1, <1>6, <1>7 DEF Channels

(* The one waiting thread has the answer when full2 is up. *)
LEMMA WaitersAnswer ==
  ASSUME Account, Channels, NEW t \in Threads, Recv(t)
  PROVE  Replied(t, frame[t].tmp)
<1>1. Waiting(t, frame[t].tmp) /\ frame[t].tmp \in Entries /\ entry[frame[t].tmp].full2 = 1
  BY RecvShape DEF Recv, Waiting
<1>2. Stage(t, frame[t].tmp)
  BY <1>1 DEF Channels, Lane
<1> QED
  BY <1>1, <1>2 DEF Stage, Asked, Executing, Replying, Tokens

LEMMA RecvChannels ==
  ASSUME Account, Apart, Channels, NEW t \in Threads, Recv(t)
  PROVE  Channels'
<1>0. PICK d \in Entries : d = frame[t].tmp
  BY RecvShape
<1>1. /\ pc[t] = "recv" /\ pc'[t] # "recv" /\ frame'[t].tmp = d /\ worker' = worker
      /\ d \in Entries /\ ThreadStep(t)
  BY <1>0, RecvShape DEF Recv, Goto, ThreadStep, Account, Types, ThreadTypes
<1>2. Alone(t)
  BY <1>0, <1>1, StepAlone DEF Account
<1>3. ASSUME NEW u \in Threads PROVE ~Waiting(u, d)'
  <2>1. u # t => ~Waiting(u, d)
    BY <1>0, <1>1, HoldersApart DEF Waiting, Holding
  <2> QED
    BY <1>0, <1>1, <1>2, <2>1 DEF Alone, Waiting
<1>4. Tokens(d, 0, 0)' /\ ~Busy(d)'
  <2>1. Tokens(d, 0, 1) /\ ~Busy(d)
    BY <1>0, WaitersAnswer DEF Replied
  <2> QED
    BY <1>0, <1>1, <2>1, RecvShape DEF Tokens, Busy
<1>5. Lane(d)'
  BY <1>3, <1>4 DEF Lane
<1>6. \A e \in Entries \ {d} : Lane(e)'
  BY <1>0, <1>1, RecvShape, LanesElsewhere
<1> QED
  BY <1>0, <1>1, <1>5, <1>6 DEF Channels

LEMMA LinkChannels ==
  ASSUME Account, Channels, NEW t \in Threads, Link(t)
  PROVE  Channels'
<1>1. PICK d \in Entries \ allocated :
        /\ pc[t] = "link" /\ Goto(t, "done")
        /\ entry'[d].full = 0 /\ entry'[d].full2 = 0
        /\ worker'[d].pc \in IF CreateMayFail THEN {"none", "start", "recv"} ELSE {"start", "recv"}
        /\ \A e \in Entries \ {d} : entry'[e] = entry[e] /\ worker'[e] = worker[e]
  BY LinkShape
<1>2. pc[t] # "recv" /\ pc'[t] = "done" /\ ThreadStep(t) /\ Alone(t)
  BY <1>1, StepAlone DEF Goto, ThreadStep, Account, Types, ThreadTypes
<1>3. \A e \in Entries \ {d} : Lane(e)'
  BY <1>1, <1>2, LanesElsewhere
<1>4. ASSUME NEW u \in Threads PROVE ~Waiting(u, d)'
  <2>1. ~Waiting(u, d)
    BY DEF Account, Memory, Waiting
  <2> QED
    BY <1>2, <2>1 DEF Alone, Waiting
<1>5. Tokens(d, 0, 0)' /\ ~Busy(d)'
  BY <1>1 DEF Tokens, Busy
<1> QED
  BY <1>3, <1>4, <1>5 DEF Channels, Lane

LEMMA JoinChannels ==
  ASSUME Account, Channels, NEW t \in Threads, Join(t)
  PROVE  Channels'
<1>0. PICK d \in Entries : d = frame[t].tmp
  BY JoinShape
<1>1. /\ pc[t] = "join" /\ pc'[t] = "original" /\ Closing(t) /\ d \in Entries
      /\ entry'[d] = NewEntry /\ worker'[d].pc = "none" /\ ThreadStep(t)
      /\ \A e \in Entries \ {d} : entry'[e] = entry[e] /\ worker'[e] = worker[e]
  BY <1>0, JoinShape DEF Goto, ThreadStep, Account, Types, ThreadTypes
<1>2. \A e \in Entries \ {d} : Lane(e)'
  BY <1>0, <1>1, LanesElsewhere
<1>3. ASSUME NEW u \in Threads PROVE ~Waiting(u, d)'
  <2>1. u # t => ~Reading(u) /\ ~Closing(u)
    BY <1>0, <1>1, Held DEF Writing
  <2>2. u # t => pc[u] # "recv"
    BY <2>1 DEF Reading, Closing, Account, Places
  <2> QED
    BY <1>0, <1>1, <2>2, StepAlone DEF Alone, Waiting, Account
<1>4. Tokens(d, 0, 0)' /\ ~Busy(d)'
  <2>1. NewEntry.full = 0 /\ NewEntry.full2 = 0
    BY DEF NewEntry
  <2> QED
    BY <1>1, <2>1 DEF Tokens, Busy
<1> QED
  BY <1>0, <1>1, <1>2, <1>3, <1>4 DEF Channels, Lane

(* A worker's step concerns its own channel. *)
LEMMA WorkerLanes ==
  ASSUME Channels, NEW e \in Entries, WorkerOnly(e), Lane(e)',
         \A u \in Threads : outcome'[u] = outcome[u] \/ Waiting(u, e)
  PROVE  Channels'
<1>1. ASSUME NEW d \in Entries \ {e} PROVE Lane(d)'
  <2>1. \A u \in Threads :
          /\ Waiting(u, d)' <=> Waiting(u, d)
          /\ Waiting(u, d) => frame'[u].call = frame[u].call /\ outcome'[u] = outcome[u]
    BY DEF WorkerOnly, Waiting
  <2>2. Lane(d) /\ entry'[d] = entry[d] /\ worker'[d] = worker[d]
    BY DEF Channels, WorkerOnly
  <2> QED
    BY <2>1, <2>2, LaneKept
<1> QED
  BY <1>1 DEF Channels

(* A busy worker, or one that finds a request, works for a waiting thread.  *)
LEMMA WorksFor ==
  ASSUME Account, Channels, NEW e \in Entries, Busy(e) \/ entry[e].full = 1
  PROVE  \E t \in Threads : Waiting(t, e) /\ Stage(t, e)
<1>1. ~(Tokens(e, 0, 0) /\ ~Busy(e))
  BY DEF Tokens
<1> QED
  BY <1>1 DEF Channels, Lane

(* Two threads do not wait at one entry. *)
LEMMA OneWaits ==
  ASSUME Account, Apart, NEW e, NEW t \in Threads, NEW u \in Threads,
         Waiting(t, e), Waiting(u, e)
  PROVE  t = u
BY HoldersApart DEF Waiting, Holding

LEMMA IdleWorkerChannels ==
  ASSUME Account, Channels, NEW e \in Entries,
         WorkerStart(e) \/ WorkerWalk(e) \/ WorkerLoop(e)
  PROVE  Channels'
<1>1. /\ WorkerOnly(e) /\ entry' = entry /\ outcome' = outcome
      /\ worker[e].pc \in {"start", "walk", "loop"}
      /\ worker'[e].pc \in {"walk", "recv", "exit", "fault"}
  BY WorkerStartShape, WorkerWalkShape, WorkerLoopShape DEF Account
<1>2. ~Busy(e) /\ ~Busy(e)'
  BY <1>1 DEF Busy
<1>3. ASSUME NEW u \in Threads, Waiting(u, e)' PROVE Stage(u, e)'
  <2>1. Waiting(u, e) /\ frame' = frame
    BY <1>1, <1>3 DEF WorkerOnly, Waiting
  <2>2. Stage(u, e)
    BY <2>1 DEF Channels, Lane
  <2>3. Asked(u, e) \/ Replied(u, e)
    BY <1>2, <2>2 DEF Stage, Executing, Replying, Busy
  <2> QED
    BY <1>1, <1>2, <2>1, <2>3 DEF Stage, Asked, Replied, Answered, Tokens, call
<1>4. (\A u \in Threads : ~Waiting(u, e)') => Tokens(e, 0, 0)'
  BY <1>1 DEF WorkerOnly, Waiting, Channels, Lane, Tokens
<1>5. Lane(e)'
  BY <1>2, <1>3, <1>4 DEF Lane
<1> QED
  BY <1>1, <1>5, WorkerLanes

LEMMA WorkerRecvChannels ==
  ASSUME Account, Apart, Channels, NEW e \in Entries, WorkerRecv(e)
  PROVE  Channels'
<1>1. /\ WorkerOnly(e) /\ outcome' = outcome /\ worker[e].pc = "recv" /\ worker'[e].pc = "exec"
      /\ worker'[e].args = entry[e].message
      /\ entry[e].full = 1 /\ entry'[e].full = 0 /\ entry'[e].full2 = entry[e].full2
  BY WorkerRecvShape DEF Account
<1>2. PICK t \in Threads : Waiting(t, e) /\ Stage(t, e)
  BY <1>1, WorksFor
<1>3. Asked(t, e)
  BY <1>1, <1>2 DEF Stage, Executing, Replying, Replied, Tokens
<1>4. Executing(t, e)'
  BY <1>1, <1>3 DEF Asked, Executing, Tokens, WorkerOnly, call
<1>5. \A u \in Threads : Waiting(u, e)' <=> u = t
  BY <1>1, <1>2, OneWaits DEF WorkerOnly, Waiting
<1>6. Lane(e)'
  BY <1>4, <1>5 DEF Lane, Stage
<1> QED
  BY <1>1, <1>6, WorkerLanes

LEMMA WorkerReplyChannels ==
  ASSUME Account, Apart, Channels, NEW e \in Entries, WorkerReply(e)
  PROVE  Channels'
<1>1. /\ WorkerOnly(e) /\ outcome' = outcome /\ worker[e].pc = "reply" /\ worker'[e].pc = "loop"
      /\ entry[e].full2 = 0 /\ entry'[e].full2 = 1 /\ entry'[e].full = entry[e].full
      /\ entry'[e].message =
              [type |-> worker[e].args.type, from |-> NULL, value |-> worker[e].value,
               size |-> worker[e].size, err |-> worker[e].err]
  BY WorkerReplyShape DEF Account
<1>2. PICK t \in Threads : Waiting(t, e) /\ Stage(t, e)
  BY <1>1, WorksFor DEF Busy
<1>3. Replying(t, e)
  BY <1>1, <1>2 DEF Stage, Asked, Executing, Replied, Busy
<1>4. Replied(t, e)'
  <2>1. /\ entry'[e].message.err = worker[e].err /\ entry'[e].message.value = worker[e].value
        /\ entry'[e].message.size = worker[e].size
    BY <1>1
  <2>2. frame' = frame
    BY <1>1 DEF WorkerOnly
  <2>3. Answered(t, entry[e].message)'
    BY <1>1, <1>3, <2>1, <2>2 DEF Replying, Answered, call
  <2> QED
    BY <1>1, <1>3, <2>3 DEF Replying, Replied, Tokens, Busy
<1>5. \A u \in Threads : Waiting(u, e)' <=> u = t
  BY <1>1, <1>2, OneWaits DEF WorkerOnly, Waiting
<1>6. Lane(e)'
  BY <1>4, <1>5 DEF Lane, Stage
<1> QED
  BY <1>1, <1>6, WorkerLanes

LEMMA WorkerExecChannels ==
  ASSUME Account, Apart, Channels, NEW e \in Entries, WorkerExec(e)
  PROVE  /\ Channels'
         /\ \E t \in Threads : Waiting(t, e) /\ \A u \in Threads \ {t} : outcome'[u] = outcome[u]
<1> DEFINE type == worker[e].args.type
           from == worker[e].args.from
<1>1. /\ WorkerOnly(e) /\ entry' = entry
      /\ worker[e].pc = "exec" /\ worker'[e].pc = "reply"
  BY WorkerExecShape DEF Account
<1>2. PICK o \in ExecAnswers(type) :
        /\ worker'[e].err = o.err
        /\ ~Stops(type) => IF StoredField(type) = "size" THEN worker'[e].size = o.val
                           ELSE worker'[e].value = ToInt(o.val)
        /\ outcome' = IF from = NULL THEN outcome ELSE [outcome EXCEPT ![from] = o]
  BY WorkerExecShape DEF Account
<1>3. PICK t \in Threads : Waiting(t, e) /\ Stage(t, e)
  BY <1>1, WorksFor DEF Busy
<1>4. Executing(t, e)
  BY <1>1, <1>3 DEF Stage, Asked, Replying, Replied, Busy
<1>5. type = call(t).type /\ from = t /\ t # NULL
  BY <1>4, ThreadAssumption DEF Executing
<1>6. outcome'[t] = o /\ \A u \in Threads \ {t} : outcome'[u] = outcome[u]
  BY <1>2, <1>5 DEF Account, Types, ThreadTypes
<1>7. ASSUME call(t).kind = "forward"
      PROVE  (IF call(t).field = "size" THEN worker'[e].size ELSE worker'[e].value) = o.val \/ ~Small
  <2>1. call(t) \in Interposed
    BY <1>3, CallIn DEF Waiting, Account, Places
  <2>2. ~Stops(type) /\ call(t).field = StoredField(type)
    BY <1>5, <1>7, <2>1, WrapperFacts DEF Stops
  <2>3. o.val \in Int /\ o.val \in Results \cup Fds \cup {-1}
    BY <2>2, ExecAnswersFacts DEF Account
  <2>4. Small => o.val <= INT_MAX
    BY <2>3, LimitAssumption DEF Small
  <2>5. Small => ToInt(o.val) = o.val
    BY <2>3, <2>4, ToIntFacts
  <2> QED
    BY <1>2, <2>2, <2>5
<1>8. Replying(t, e)'
  <2>1. frame' = frame
    BY <1>1 DEF WorkerOnly
  <2>2. Answered(t, worker[e])'
    BY <1>2, <1>6, <1>7, <2>1 DEF Answered, call, Small
  <2> QED
    BY <1>1, <1>4, <2>2 DEF Executing, Replying, Tokens
<1>9. \A u \in Threads : Waiting(u, e)' <=> u = t
  BY <1>1, <1>3, OneWaits DEF WorkerOnly, Waiting
<1>10. Lane(e)'
  BY <1>8, <1>9 DEF Lane, Stage
<1> QED
  BY <1>1, <1>3, <1>6, <1>10, WorkerLanes

-----------------------------------------------------------------------------
(* What is known of a thread's answer stays while the thread does nothing.  *)
LEMMA OutcomeKept ==
  ASSUME NEW u \in Threads, OutcomeOf(u), pc'[u] = pc[u], frame'[u] = frame[u],
         errno'[u] = errno[u], outcome'[u] = outcome[u]
  PROVE  OutcomeOf(u)'
BY DEF OutcomeOf, call, Small

LEMMA CreateOutcome ==
  ASSUME Account, Outcomes, NEW t \in Threads,
         CreateOriginal(t) \/ CreateRefused(t) \/ CreateAdd(t) \/ CreateWithoutEntry(t)
  PROVE  OutcomeOf(t)'
<1>0. /\ errno \in [Threads -> Int] /\ outcome \in [Threads -> OutcomeType] /\ pc \in [Threads -> Pcs]
      /\ frame \in [Threads -> FrameType] /\ OutcomeOf(t)
  BY DEF Account, Types, ThreadTypes, Outcomes
<1>1. frame'[t].call = frame[t].call /\ call(t).kind = "create"
  BY QuietFields DEF Account, Quiet, CreateOriginal, CreateRefused, CreateAdd, CreateWithoutEntry,
                     Is, Return
<1>2. CASE CreateOriginal(t)
  <2>1. PICK o :
          /\ outcome' = [outcome EXCEPT ![t] = o]
          /\ frame' = [frame EXCEPT ![t].ret = o.val,
                                    ![t].func_errno = AfterCall(o, errno[t])]
          /\ errno' = [errno EXCEPT ![t] = AfterCall(o, @)]
    BY <1>2 DEF CreateOriginal
  <2>2. /\ frame'[t].ret = o.val /\ frame'[t].func_errno = AfterCall(o, errno[t])
        /\ outcome'[t] = o /\ errno'[t] = AfterCall(o, errno[t])
    BY <1>0, <2>1 DEF FrameType
  <2> QED
    BY <1>1, <2>2 DEF OutcomeOf, call, AfterCall
<1>3. CASE CreateRefused(t) \/ CreateWithoutEntry(t)
  <2>1. /\ pc[t] = "lock" /\ frame' = frame /\ outcome' = outcome
        /\ errno'[t] = frame[t].func_errno /\ pc'[t] = "done"
    BY <1>0, <1>3 DEF CreateRefused, CreateWithoutEntry, Is, Goto
  <2> QED
    BY <1>0, <1>1, <2>1 DEF OutcomeOf, call
<1>4. CASE CreateAdd(t)
  <2>1. /\ pc[t] = "lock" /\ outcome' = outcome /\ pc'[t] = "link"
        /\ frame' = [frame EXCEPT ![t].next = table]
    BY <1>0, <1>4 DEF CreateAdd, Is, Goto
  <2>2. frame'[t].ret = frame[t].ret /\ frame'[t].func_errno = frame[t].func_errno
    BY <1>0, <2>1 DEF FrameType
  <2> QED
    BY <1>0, <1>1, <2>1, <2>2 DEF OutcomeOf, call
<1> QED
  BY <1>2, <1>3, <1>4

LEMMA ForwardOutcome ==
  ASSUME Account, Outcomes, NEW t \in Threads,
         ForwardOriginal(t) \/ CloseOriginal(t) \/ Accepted(t) \/ ForwardReturn(t)
  PROVE  OutcomeOf(t)'
<1>0. /\ errno \in [Threads -> Int] /\ outcome \in [Threads -> OutcomeType] /\ pc \in [Threads -> Pcs]
      /\ frame \in [Threads -> FrameType] /\ OutcomeOf(t)
  BY DEF Account, Types, ThreadTypes, Outcomes
<1>1. frame'[t].call = frame[t].call /\ call(t).kind # "create"
  <2>1. frame'[t].call = frame[t].call
    BY QuietFields DEF Account, Quiet, ForwardOriginal, CloseOriginal, Accepted, ForwardReturn,
                       Is, Return
  <2>2. call(t).kind # "create"
    BY KindOf DEF Account, Places, ForwardOriginal, CloseOriginal, Accepted, ForwardReturn, Is
  <2> QED
    BY <2>1, <2>2
<1>2. CASE ForwardOriginal(t)
  <2>1. PICK o :
          /\ outcome' = [outcome EXCEPT ![t] = o]
          /\ frame' = [frame EXCEPT ![t].ret = o.val]
          /\ errno' = [errno EXCEPT ![t] = AfterCall(o, @)]
          /\ Goto(t, "done")
    BY <1>2 DEF ForwardOriginal
  <2>2. /\ frame'[t].ret = o.val /\ pc'[t] = "done"
        /\ outcome'[t] = o /\ errno'[t] = AfterCall(o, errno[t])
    BY <1>0, <2>1 DEF FrameType, Goto
  <2> QED
    BY <1>1, <2>2 DEF OutcomeOf, call, AfterCall
<1>3. CASE CloseOriginal(t)
  <2>1. PICK o :
          /\ outcome' = [outcome EXCEPT ![t] = o]
          /\ frame' = [frame EXCEPT ![t].ret = o.val]
          /\ errno' = [errno EXCEPT ![t] = AfterCall(o, @)]
          /\ Goto(t, "done")
    BY <1>3 DEF CloseOriginal
  <2>2. /\ frame'[t].ret = o.val /\ pc'[t] = "done"
        /\ outcome'[t] = o /\ errno'[t] = AfterCall(o, errno[t])
    BY <1>0, <2>1 DEF FrameType, Goto
  <2> QED
    BY <1>1, <2>2 DEF OutcomeOf, call, AfterCall
<1>4. CASE Accepted(t)
  <2>1. pc[t] = "accepted" /\ outcome' = outcome /\ pc'[t] \in {"link", "unlock"}
    BY <1>0, <1>4 DEF Accepted, Goto
  <2>2. frame'[t].ret = frame[t].ret /\ frame'[t].thr_errno = frame[t].thr_errno
    BY <1>0, <1>4 DEF FrameType, Accepted
  <2> QED
    BY <1>0, <1>1, <2>1, <2>2 DEF OutcomeOf, call
<1>5. CASE ForwardReturn(t)
  <2>1. pc[t] = "unlock" /\ outcome' = outcome /\ pc'[t] = "done" /\ frame' = frame
    BY <1>0, <1>5 DEF ForwardReturn, Goto
  <2>2. call(t).kind = "forward" /\ call(t) \in Interposed
    BY <2>1, CallIn DEF Account, Places
  <2>3. /\ Small => frame[t].ret = outcome[t].val
        /\ frame[t].thr_errno = outcome[t].err
    BY <1>0, <2>1, <2>2 DEF OutcomeOf
  <2>4. call(t) # write => call(t).errno \in {"assign", "if_set"}
    BY <2>2, WrapperFacts
  <2>5. call(t).errno \in {"assign", "if_set"} /\ frame[t].thr_errno # 0
          => errno'[t] = frame[t].thr_errno
    BY <1>0, <1>5 DEF ForwardReturn
  <2> QED
    BY <1>1, <2>1, <2>3, <2>4, <2>5 DEF OutcomeOf, call
<1> QED
  BY <1>2, <1>3, <1>4, <1>5

(* The steps after which nothing is claimed of the answer yet. *)
LEMMA EarlyOutcome ==
  ASSUME Account, NEW t \in Threads,
         Enter(t) \/ Return(t) \/ ForwardLock(t) \/ ForwardMiss(t) \/ CloseLock(t)
           \/ CloseMiss(t) \/ Send(t) \/ Join(t)
  PROVE  OutcomeOf(t)'
<1>1. pc \in [Threads -> Pcs]
  BY DEF Account, Types, ThreadTypes
<1>2. CASE Enter(t)
  BY <1>2, EnterShape DEF OutcomeOf, call
<1>3. CASE ~Enter(t)
  <2>1. pc'[t] \in {"app", "send", "original", "recv"}
    BY <1>1, <1>3 DEF Return, ForwardLock, ForwardMiss, CloseLock, CloseMiss, Send, Join, Goto
  <2> QED
    BY <2>1 DEF OutcomeOf
<1> QED
  BY <1>2, <1>3

LEMMA RecvOutcome ==
  ASSUME Account, Channels, NEW t \in Threads, Recv(t)
  PROVE  OutcomeOf(t)'
<1>1. /\ pc[t] = "recv" /\ outcome' = outcome
      /\ pc'[t] = IF call(t).kind = "close" THEN "join"
                  ELSE IF call(t) = accept THEN "accepted" ELSE "unlock"
  BY DEF Recv, Goto, Account, Types, ThreadTypes
<1>2. call(t).kind \in {"forward", "close"}
  BY <1>1 DEF Account, Places
<1>3. Answered(t, entry[frame[t].tmp].message)
  BY WaitersAnswer DEF Replied
<1>4. CASE call(t).kind = "close"
  BY <1>1, <1>4, RecvShape DEF OutcomeOf
<1>5. CASE call(t).kind = "forward"
  <2>1. /\ frame'[t].thr_errno = outcome[t].err
        /\ Small => frame'[t].ret = outcome[t].val
    BY <1>3, <1>5, RecvShape DEF Answered
  <2> QED
    BY <1>1, <1>5, <2>1, RecvShape DEF OutcomeOf, call
<1> QED
  BY <1>2, <1>4, <1>5

LEMMA LinkOutcome ==
  ASSUME Account, Outcomes, NEW t \in Threads, Link(t)
  PROVE  OutcomeOf(t)'
<1>1. /\ pc[t] = "link" /\ outcome' = outcome /\ pc'[t] = "done"
      /\ errno'[t] = IF call(t) = accept THEN frame[t].thr_errno ELSE frame[t].func_errno
  <2>1. /\ pc[t] = "link" /\ outcome' = outcome /\ Goto(t, "done")
        /\ errno' = [errno EXCEPT ![t] = IF call(t) = accept THEN frame[t].thr_errno
                                         ELSE frame[t].func_errno]
    BY LinkShape
  <2> QED
    BY <2>1 DEF Goto, Account, Types, ThreadTypes
<1>2. call(t) = accept \/ call(t).kind = "create"
  BY <1>1 DEF Account, Places
<1>3. /\ frame'[t].call = frame[t].call /\ frame'[t].ret = frame[t].ret
      /\ frame'[t].func_errno = frame[t].func_errno
  BY LinkFields
<1>4. OutcomeOf(t)
  BY DEF Outcomes
<1>5. CASE call(t) = accept
  BY <1>1, <1>3, <1>4, <1>5, KindOf DEF OutcomeOf, call
<1>6. CASE call(t).kind = "create" /\ call(t) # accept
  BY <1>1, <1>3, <1>4, <1>6 DEF OutcomeOf, call
<1> QED
  BY <1>2, <1>5, <1>6

LEMMA InitOrderly == Init => Orderly
<1> SUFFICES ASSUME Init PROVE Orderly
  OBVIOUS
<1>1. /\ pc = [t \in Threads |-> "app"] /\ frame = [t \in Threads |-> Idle]
      /\ entry = [e \in Entries |-> NewEntry] /\ worker = [e \in Entries |-> NoWorker]
  BY DEF Init, fdtable_init
<1>2. Idle.fd = -1 /\ NewEntry.full = 0 /\ NewEntry.full2 = 0 /\ NoWorker.pc = "none"
  BY DEF Idle, NewEntry, NoWorker
<1>3. Apart
  BY <1>1, <1>2 DEF Apart, Holding
<1>4. Channels
  BY <1>1, <1>2 DEF Channels, Lane, Waiting, Tokens, Busy
<1>5. Outcomes
  BY <1>1 DEF Outcomes, OutcomeOf
<1> QED
  BY <1>3, <1>4, <1>5 DEF Orderly

LEMMA OrderlyStep ==
  ASSUME Exclusive PROVE Account /\ Orderly /\ [Next]_vars => Orderly'
<1> SUFFICES ASSUME Account, Orderly, [Next]_vars PROVE Orderly'
  OBVIOUS
<1>1. Account' /\ Apart /\ Channels /\ Outcomes
  BY AccountStep DEF Orderly
<1>2. ASSUME NEW t \in Threads, Enter(t) \/ ThreadStep(t) PROVE Orderly'
  <2>1. Apart'
    BY <1>1, <1>2, ApartStep
  <2>2. Channels'
    BY <1>1, <1>2, QuietChannels, SendChannels, RecvChannels, LinkChannels, JoinChannels
       DEF ThreadStep, Quiet
  <2>3. OutcomeOf(t)'
    BY <1>1, <1>2, CreateOutcome, ForwardOutcome, EarlyOutcome, RecvOutcome, LinkOutcome
       DEF ThreadStep
  <2>4. ASSUME NEW u \in Threads \ {t} PROVE OutcomeOf(u)'
    <3>1. OutcomeOf(u)
      BY <1>1 DEF Outcomes
    <3>2. pc'[u] = pc[u] /\ frame'[u] = frame[u] /\ errno'[u] = errno[u] /\ outcome'[u] = outcome[u]
      BY <1>2, StepAlone, OutcomeAlone DEF Alone, Account
    <3> QED
      BY <3>1, <3>2, OutcomeKept
  <2> QED
    BY <2>1, <2>2, <2>3, <2>4 DEF Orderly, Outcomes
<1>3. ASSUME NEW e \in Entries, WorkerStep(e) PROVE Orderly'
  <2>1. WorkerOnly(e)
    BY <1>3, WorkerStartShape, WorkerWalkShape, WorkerRecvShape, WorkerExecShape, WorkerReplyShape,
       WorkerLoopShape DEF WorkerStep, Account
  <2>2. Apart'
    BY <1>1, <2>1, ApartWorker
  <2>3. Channels'
    BY <1>1, <1>3, IdleWorkerChannels, WorkerRecvChannels, WorkerReplyChannels,
       WorkerExecChannels DEF WorkerStep
  <2>4. \A u \in Threads : outcome'[u] = outcome[u] \/ pc[u] = "recv"
    <3>1. CASE WorkerExec(e)
      BY <1>1, <3>1, WorkerExecChannels DEF Waiting
    <3>2. CASE ~WorkerExec(e)
      BY <1>3, <3>2, WorkerStartShape, WorkerWalkShape, WorkerRecvShape, WorkerReplyShape, WorkerLoopShape
         DEF WorkerStep, Account
    <3> QED
      BY <3>1, <3>2
  <2>5. ASSUME NEW u \in Threads PROVE OutcomeOf(u)'
    <3>1. pc'[u] = pc[u] /\ frame'[u] = frame[u] /\ errno'[u] = errno[u] /\ OutcomeOf(u)
      BY <1>1, <2>1 DEF WorkerOnly, Outcomes
    <3>2. CASE pc[u] = "recv"
      BY <3>1, <3>2 DEF OutcomeOf
    <3>3. CASE outcome'[u] = outcome[u]
      BY <3>1, <3>3, OutcomeKept
    <3> QED
      BY <2>4, <3>2, <3>3
  <2> QED
    BY <2>2, <2>3, <2>5 DEF Orderly, Outcomes
<1>4. CASE UNCHANGED vars
  <2>1. UNCHANGED <<entry, pc, frame, errno, outcome, worker>>
    BY <1>4 DEF vars, tableVars
  <2>2. Apart'
    BY <1>1, <2>1 DEF Apart, Holding, call
  <2>3. \A e \in Entries : Lane(e)'
    BY <1>1, <2>1, LaneKept DEF Channels, Waiting
  <2>4. \A u \in Threads : OutcomeOf(u)'
    BY <1>1, <2>1, OutcomeKept DEF Outcomes
  <2> QED
    BY <2>2, <2>3, <2>4 DEF Orderly, Channels, Outcomes
<1> QED
  BY <1>2, <1>3, <1>4 DEF Next, Finished

(* A wrapper returns what the kernel answered to its own call (l.1399), in a *)
(* program that does not use one descriptor from two threads at once, when   *)
(* the int of retval_data holds every result.  Without the one two threads   *)
(* may get each other's results, without the other a result is cut off.      *)
THEOREM OwnAnswer == ASSUME Exclusive, Small PROVE Spec => []ReturnsOutcome
<1>1. Orderly => ReturnsOutcome
  BY DEF Orderly, Outcomes, OutcomeOf, ReturnsOutcome
<1> QED
  BY InitAccount, AccountStep, InitOrderly, OrderlyStep, <1>1, PTL DEF Spec

(* The error of a failed call reaches errno, whoever performed the call and  *)
(* whichever way the wrapper saves and restores it (l.1398), except for      *)
(* write; no bound on the results is needed.                                 *)
THEOREM OwnError == ASSUME Exclusive PROVE Spec => []ErrnoDelivered
<1>1. Orderly => ErrnoDelivered
  BY DEF Orderly, Outcomes, OutcomeOf, ErrnoDelivered
<1> QED
  BY InitAccount, AccountStep, InitOrderly, OrderlyStep, <1>1, PTL DEF Spec

-----------------------------------------------------------------------------
(* Who may use a descriptor: the application, once a call has returned it    *)
(* and until it calls close, and before and after that the wrapper that      *)
(* makes or closes it.  A wrapper's descriptor is bare while the table has   *)
(* no entry for it.                                                          *)
NoAccept == \A t \in Threads : accept \notin Calls[t]
Mine(t) ==
  Fds \cap (IF call(t).kind = "create"
            THEN IF pc[t] \in {"lock", "link", "done"} THEN {frame[t].ret} ELSE {}
            ELSE IF call(t) = accept THEN {outcome[t].val}
            ELSE IF call(t) = close /\ pc[t] # "done" THEN {frame[t].fd} ELSE {})
Bare(t) == pc[t] # "done" /\ (call(t) = close => pc[t] = "original")
(* The entries that are in the list, or that a thread is about to link. *)
Named(e) == e \in Linked \/ \E t \in Threads : pc[t] = "link" /\ e \in RangeOf(frame[t].next)

Rights ==
  /\ known \subseteq openFds
  /\ \A t \in Threads : /\ Mine(t) \subseteq openFds \ known
                        /\ \A u \in Threads \ {t} : Mine(t) \cap Mine(u) = {}
Names ==
  \A e \in Entries : Named(e) =>
    /\ entry[e].thr_fd \in openFds
    /\ \A d \in Entries : Named(d) /\ entry[d].thr_fd = entry[e].thr_fd => d = e
    /\ \A t \in Threads : Bare(t) => entry[e].thr_fd \notin Mine(t)
Accepts ==
  \A t \in Threads : accept \in Calls[t] =>
    /\ pc[t] = "app" => outcome[t].val = 0
    /\ call(t) = accept => outcome[t].val \in Fds \cup {-1, 0}
Ownership == Rights /\ Names /\ Accepts

(* The accepts of different threads do not mix, or there are none. *)
Sole == NoAccept \/ (Exclusive /\ Small)
Order == Exclusive => Orderly

LEMMA AcceptRet ==
  ASSUME Sole, Account, Order, NEW t \in Threads, call(t) = accept,
         pc[t] \in {"accepted", "link", "done"}
  PROVE  frame[t].ret = outcome[t].val
<1>1. accept \in Calls[t]
  BY DEF Account, Places
<1>2. Orderly /\ Small
  BY <1>1 DEF Sole, NoAccept, Order
<1>3. OutcomeOf(t)
  BY <1>2 DEF Orderly, Outcomes
<1> QED
  BY <1>2, <1>3, KindOf DEF OutcomeOf

LEMMA MineKept ==
  ASSUME NEW u, pc'[u] = pc[u], frame'[u] = frame[u],
         call(u) = accept => outcome'[u] = outcome[u]
  PROVE  Mine(u)' = Mine(u) /\ (Bare(u)' <=> Bare(u))
BY DEF Mine, Bare, call

(* What a step of t may do with descriptors. *)
Rightful(t) ==
  /\ known' \subseteq known \cup Mine(t) /\ known' \subseteq openFds'
  /\ openFds \ openFds' \subseteq IF Bare(t) THEN Mine(t) ELSE {}
  /\ Mine(t)' \subseteq Mine(t) \cup known \cup (Fds \ openFds)
  /\ Mine(t)' \subseteq openFds' \ known'

LEMMA RightsFrom ==
  ASSUME Rights, NEW t \in Threads, Rightful(t), \A u \in Threads \ {t} : Mine(u)' = Mine(u)
  PROVE  Rights'
<1>1. ASSUME NEW u \in Threads \ {t}
      PROVE  Mine(u) \subseteq openFds' \ known' /\ Mine(t)' \cap Mine(u) = {}
  <2>1. Mine(u) \subseteq openFds \ known /\ Mine(u) \cap Mine(t) = {}
    BY DEF Rights
  <2> QED
    BY <2>1 DEF Rightful
<1>2. \A u, v \in Threads : u # v => Mine(u) \cap Mine(v) = {}
  BY DEF Rights
<1> QED
  BY <1>1, <1>2 DEF Rights, Rightful

LEMMA NamesFrom ==
  ASSUME Names, NEW t \in Threads, Rightful(t),
         \A u \in Threads \ {t} : Mine(u)' = Mine(u) /\ (Bare(u)' <=> Bare(u)),
         \A e \in Entries : Named(e)' => Named(e) /\ entry'[e].thr_fd = entry[e].thr_fd,
         Bare(t)' => \A e \in Entries : Named(e)' => entry[e].thr_fd \notin Mine(t)'
  PROVE  Names'
<1> SUFFICES ASSUME NEW e \in Entries, Named(e)'
             PROVE  /\ entry'[e].thr_fd \in openFds'
                    /\ \A d \in Entries : Named(d)' /\ entry'[d].thr_fd = entry'[e].thr_fd => d = e
                    /\ \A u \in Threads : Bare(u)' => entry'[e].thr_fd \notin Mine(u)'
  BY DEF Names
<1>1. /\ entry'[e].thr_fd = entry[e].thr_fd /\ entry[e].thr_fd \in openFds
      /\ \A d \in Entries : Named(d) /\ entry[d].thr_fd = entry[e].thr_fd => d = e
      /\ \A u \in Threads : Bare(u) => entry[e].thr_fd \notin Mine(u)
  BY DEF Names
<1>2. entry[e].thr_fd \in openFds'
  BY <1>1 DEF Rightful
<1>3. \A d \in Entries : Named(d)' /\ entry'[d].thr_fd = entry'[e].thr_fd => d = e
  BY <1>1
<1>4. \A u \in Threads : Bare(u)' => entry'[e].thr_fd \notin Mine(u)'
  BY <1>1
<1> QED
  BY <1>1, <1>2, <1>3, <1>4

LEMMA FdSign == \A f \in Fds : f \in Nat /\ f >= 0 /\ f # -1
<1> SUFFICES ASSUME NEW f \in Fds PROVE f \in Nat /\ f >= 0 /\ f # -1
  OBVIOUS
<1>1. f \in Nat
  BY FdsAssumption
<1> QED
  BY <1>1

(* The calls other than accept and close own nothing unless they create. *)
LEMMA OwnKinds ==
  /\ close # accept /\ -1 \notin Fds
  /\ \A c : c.kind = "create" => c # accept /\ c # close
  /\ \A c : c.kind = "forward" => c # close
  /\ \A c : c.kind = "close" => c # accept
  /\ \A c : c.kind = "none" => c # accept /\ c # close
BY KindOf, FdsAssumption

LEMMA EnterRights ==
  ASSUME 0 \notin Fds, Account, Ownership, NEW t \in Threads, Enter(t)
  PROVE  /\ Rightful(t)
         /\ Bare(t)' => Mine(t)' = {}
         /\ accept \in Calls[t] => /\ pc'[t] = "app" => outcome'[t].val = 0
                                   /\ frame'[t].call = accept => outcome'[t].val = 0
<1> DEFINE c == frame'[t].call
           fd == frame'[t].fd
<1>1. /\ pc[t] = "app" /\ pc'[t] = IF c.kind = "create" THEN "original" ELSE "lock"
      /\ c \in Calls[t] /\ fd \in known \cup {-1} /\ (c.kind = "create" <=> fd = -1)
      /\ known' = IF c.type = "CLOSE" THEN known \ {fd} ELSE known
  BY EnterShape
<1>2. openFds' = openFds /\ outcome' = outcome /\ known \subseteq openFds
  BY DEF Enter, Ownership, Rights
<1>3. c = accept => outcome[t].val = 0
  BY <1>1 DEF Ownership, Accepts
<1>4. c.type = "CLOSE" <=> c = close
  BY <1>1, CallIn, WrapperFacts
<1>5. CASE c = close
  <2>1. fd \in known /\ known' = known \ {fd} /\ pc'[t] = "lock"
    BY <1>1, <1>4, <1>5, KindOf
  <2>2. Mine(t)' \subseteq {fd} /\ ~Bare(t)'
    BY <1>5, <2>1, OwnKinds, KindOf DEF Mine, Bare, call
  <2> QED
    BY <1>1, <1>2, <1>5, <2>1, <2>2, OwnKinds DEF Rightful
<1>6. CASE c # close
  <2>1. Mine(t)' = {}
    BY <1>1, <1>2, <1>3, <1>6 DEF Mine, call
  <2> QED
    BY <1>1, <1>2, <1>3, <1>4, <1>6, <2>1 DEF Rightful
<1> QED
  BY <1>5, <1>6

LEMMA ReturnRights ==
  ASSUME Sole, Account, Order, Ownership, NEW t \in Threads, Return(t)
  PROVE  /\ Rightful(t) /\ Mine(t)' = {}
         /\ pc'[t] = "app" /\ outcome'[t].val = 0 /\ frame'[t].call # accept
<1>1. /\ pc[t] = "done" /\ pc'[t] = "app" /\ frame'[t] = Idle /\ outcome'[t] = NoOutcome
      /\ openFds' = openFds
      /\ known' = IF (call(t).kind = "create" \/ call(t) = accept) /\ frame[t].ret \in openFds
                  THEN known \cup {frame[t].ret} ELSE known
  BY DEF Return, Goto, Account, Types, ThreadTypes
<1>2. Idle.call.kind = "none"
  BY DEF Idle
<1>3. Mine(t)' = {} /\ frame'[t].call # accept
  BY <1>1, <1>2, OwnKinds DEF Mine, call
<1>4. known' \subseteq known \cup Mine(t) /\ known' \subseteq openFds
  <2>1. known \subseteq openFds /\ openFds \subseteq Fds
    BY DEF Ownership, Rights, Account, Types, EnvTypes
  <2>2. CASE call(t).kind = "create"
    BY <1>1, <2>1, <2>2 DEF Mine
  <2>3. CASE call(t) = accept
    <3>1. frame[t].ret = outcome[t].val
      BY <1>1, <2>3, AcceptRet
    <3> QED
      BY <1>1, <2>1, <2>3, <3>1, KindOf DEF Mine
  <2> QED
    BY <1>1, <2>1, <2>2, <2>3
<1> QED
  BY <1>1, <1>3, <1>4, NoOutcomeFacts DEF Rightful

(* A new descriptor is nobody's. *)
LEMMA MakeRights ==
  ASSUME Account, Ownership, NEW t \in Threads, CreateOriginal(t) \/ ForwardOriginal(t)
  PROVE  /\ Rightful(t) /\ Mine(t)' \subseteq Fds \ openFds
         /\ pc'[t] # "app" /\ frame'[t].call = frame[t].call
         /\ call(t) = accept => outcome'[t].val \in Fds \cup {-1, 0}
<1>1. known' = known /\ known \subseteq openFds
  BY DEF CreateOriginal, ForwardOriginal, Ownership, Rights
<1>2. CASE CreateOriginal(t)
  <2>1. pc'[t] # "app" /\ call(t).kind = "create"
    BY <1>2 DEF CreateOriginal, Is, Goto, Account, Types, ThreadTypes
  <2>2. /\ frame'[t].ret \in (Fds \ openFds) \cup {-1} /\ frame'[t].call = frame[t].call
        /\ openFds' = IF frame'[t].ret >= 0 THEN openFds \cup {frame'[t].ret} ELSE openFds
    BY <1>2, CreatedFd
  <2>3. Mine(t)' \subseteq Fds \cap {frame'[t].ret}
    BY <2>1, <2>2 DEF Mine, call
  <2>4. frame'[t].ret \in Fds => frame'[t].ret >= 0 /\ frame'[t].ret \notin openFds
    BY <2>2, FdSign
  <2> QED
    BY <1>1, <2>1, <2>2, <2>3, <2>4, OwnKinds DEF Rightful
<1>3. CASE ForwardOriginal(t)
  <2>1. PICK o \in (IF call(t) = accept THEN NewFd(Errors) ELSE Answers) :
          /\ Is(t, "forward", "original") /\ Goto(t, "done")
          /\ openFds' = IF call(t) = accept /\ o.val >= 0 THEN openFds \cup {o.val} ELSE openFds
          /\ outcome' = [outcome EXCEPT ![t] = o]
          /\ frame' = [frame EXCEPT ![t].ret = o.val]
    BY <1>3 DEF ForwardOriginal
  <2>2. /\ pc'[t] # "app" /\ call(t).kind = "forward" /\ outcome'[t] = o
        /\ frame'[t].call = frame[t].call
    BY <2>1 DEF Is, Goto, Account, Types, ThreadTypes, FrameType
  <2>3. CASE call(t) = accept
    <3>1. o.val \in (Fds \ openFds) \cup {-1}
      BY <2>1, <2>3, NewFdFacts, ValueAssumption DEF Account, Types, EnvTypes
    <3>2. Mine(t)' \subseteq Fds \cap {o.val}
      BY <2>2, <2>3 DEF Mine, call
    <3>3. o.val \in Fds => o.val >= 0 /\ o.val \notin openFds
      BY <3>1, FdSign
    <3> QED
      BY <1>1, <2>1, <2>2, <2>3, <3>1, <3>2, <3>3, OwnKinds DEF Rightful
  <2>4. CASE call(t) # accept
    <3>1. Mine(t)' = {}
      BY <2>2, <2>4, OwnKinds DEF Mine, call
    <3> QED
      BY <1>1, <2>1, <2>2, <2>4, <3>1 DEF Rightful
  <2> QED
    BY <2>3, <2>4
<1> QED
  BY <1>2, <1>3

(* A descriptor is given back when the table has no entry for it. *)
LEMMA CloseRights ==
  ASSUME Account, Ownership, NEW t \in Threads, CloseOriginal(t)
  PROVE  Rightful(t) /\ Mine(t)' = {} /\ pc'[t] = "done" /\ frame'[t].call # accept
<1>1. /\ pc[t] = "original" /\ pc'[t] = "done" /\ call(t).kind = "close" /\ known' = known
      /\ openFds' = IF call(t) = close THEN openFds \ {frame[t].fd} ELSE openFds
      /\ \E o \in {NoOutcome} \cup Failures(Errors) : frame' = [frame EXCEPT ![t].ret = o.val]
  BY DEF CloseOriginal, Is, Goto, Account, Types, ThreadTypes
<1>2. frame'[t].call = frame[t].call
  BY <1>1 DEF Account, Types, ThreadTypes, FrameType
<1>3. Mine(t)' = {}
  BY <1>1, <1>2, OwnKinds DEF Mine, call
<1>4. /\ known \subseteq openFds /\ openFds \subseteq Fds
      /\ Mine(t) \subseteq openFds \ known
  BY DEF Ownership, Rights, Account, Types, EnvTypes
<1>5. Bare(t)
  BY <1>1 DEF Bare
<1>6. call(t) = close => Mine(t) = Fds \cap {frame[t].fd}
  BY <1>1, OwnKinds DEF Mine
<1>7. call(t) = close => frame[t].fd \notin known
  BY <1>4, <1>6
<1>8. openFds \ openFds' \subseteq Mine(t) /\ known \subseteq openFds'
  BY <1>1, <1>4, <1>6, <1>7
<1>9. frame'[t].call # accept
  BY <1>1, <1>2, OwnKinds DEF call
<1> QED
  BY <1>1, <1>3, <1>5, <1>8, <1>9 DEF Rightful

Rest(t) ==
  \/ CreateRefused(t) \/ CreateAdd(t) \/ CreateWithoutEntry(t) \/ Link(t) \/ ForwardLock(t)
  \/ ForwardMiss(t) \/ Send(t) \/ Recv(t) \/ Accepted(t) \/ ForwardReturn(t)
  \/ CloseLock(t) \/ CloseMiss(t) \/ Join(t)

LEMMA RestRights ==
  ASSUME Account, Ownership, NEW t \in Threads, Rest(t)
  PROVE  /\ Rightful(t) /\ Mine(t)' \subseteq Mine(t)
         /\ outcome'[t] = outcome[t] /\ pc'[t] # "app" /\ frame'[t].call = frame[t].call
         /\ openFds' = openFds /\ known' = known
<1>1. openFds' = openFds /\ known' = known /\ outcome' = outcome /\ pc'[t] # "app"
  BY DEF Rest, CreateRefused, CreateAdd, CreateWithoutEntry, Link, ForwardLock, ForwardMiss,
     Send, Recv, Accepted, ForwardReturn, CloseLock, CloseMiss, Join, kernelVars, Goto,
     Account, Types, ThreadTypes
<1>2. ThreadStep(t) /\ ~Return(t) /\ ~CreateOriginal(t) /\ ~ForwardOriginal(t) /\ ~CloseOriginal(t)
  BY DEF Rest, CreateRefused, CreateAdd, CreateWithoutEntry, Link, ForwardLock, ForwardMiss,
     Send, Recv, Accepted, ForwardReturn, CloseLock, CloseMiss, Join, ThreadStep, Return,
     CreateOriginal, ForwardOriginal, CloseOriginal, Is
<1>3. frame'[t].fd = frame[t].fd /\ frame'[t].call = frame[t].call
  BY <1>2, FdKept
<1>4. CASE call(t).kind = "create"
  <2>1. pc[t] \in {"lock", "link"} /\ ~Recv(t)
    BY <1>4, KindOf DEF Rest, CreateRefused, CreateAdd, CreateWithoutEntry, Link, ForwardLock,
       ForwardMiss, Send, Recv, Accepted, ForwardReturn, CloseLock, CloseMiss, Join, Is,
       Account, Places
  <2>2. frame'[t].ret = frame[t].ret
    <3>1. CASE Quiet(t)
      BY <1>2, <3>1, QuietFields DEF Account
    <3>2. CASE Send(t)
      BY <3>2 DEF Send
    <3>3. CASE Link(t) \/ Join(t)
      BY <3>3, LinkFields, JoinFields
    <3> QED
      BY <2>1, <3>1, <3>2, <3>3 DEF Rest, Quiet
  <2>3. Mine(t) = Fds \cap {frame[t].ret}
    BY <1>4, <2>1 DEF Mine
  <2>4. Mine(t)' \subseteq Fds \cap {frame'[t].ret}
    BY <1>3, <1>4 DEF Mine, call
  <2> QED
    BY <1>1, <1>3, <2>2, <2>3, <2>4 DEF Rightful, Ownership, Rights
<1>5. CASE call(t).kind # "create"
  <2>1. pc[t] # "done"
    BY DEF Rest, CreateRefused, CreateAdd, CreateWithoutEntry, Link, ForwardLock,
       ForwardMiss, Send, Recv, Accepted, ForwardReturn, CloseLock, CloseMiss, Join, Is
  <2>2. Mine(t)' \subseteq Mine(t)
    BY <1>1, <1>3, <1>5, <2>1 DEF Mine, call
  <2> QED
    BY <1>1, <1>3, <2>2 DEF Rightful, Ownership, Rights
<1> QED
  BY <1>4, <1>5

LEMMA DeleteAlone ==
  ASSUME Account, NEW t \in Threads,
         Closing(t) \/ (writer = NULL /\ \A u \in Threads : readers[u] = 0)
  PROVE  \A u \in Threads : pc[u] # "link"
<1> SUFFICES ASSUME NEW u \in Threads, pc[u] = "link" PROVE FALSE
  OBVIOUS
<1>1. Reading(u) \/ Writing(u)
  BY LinkLocked
<1>2. CASE Closing(t)
  <2>1. Writing(t)
    BY <1>2 DEF Writing
  <2>2. u = t
    BY <1>1, <2>1, Held
  <2> QED
    BY <1>2, <2>2 DEF Closing
<1>3. CASE writer = NULL /\ \A v \in Threads : readers[v] = 0
  BY <1>1, <1>3, Held, ThreadAssumption
<1> QED
  BY <1>2, <1>3

LEMMA NamedKept ==
  ASSUME Account, NEW t \in Threads, Enter(t) \/ ThreadStep(t), ~Link(t)
  PROVE  \A e \in Entries : Named(e)' => Named(e) /\ entry'[e].thr_fd = entry[e].thr_fd
<1> SUFFICES ASSUME NEW e \in Entries, Named(e)'
             PROVE  Named(e) /\ entry'[e].thr_fd = entry[e].thr_fd
  OBVIOUS
<1>1. Alone(t)
  BY StepAlone DEF Account
<1>2. CASE ~Join(t)
  <2>1. table' = table /\ SameFds
    BY <1>2, QuietKeeps, SendShape, RecvShape DEF SameFds, Enter, ThreadStep, Quiet, tableVars,
       Send, Recv
  <2>2. ASSUME NEW u \in Threads, pc'[u] = "link", e \in RangeOf(frame'[u].next) PROVE Named(e)
    <3>1. CASE u = t
      BY <2>2, <3>1, LinkEntered DEF Named, RangeOf, Linked
    <3>2. CASE u # t
      BY <1>1, <2>2, <3>2 DEF Named, Alone
    <3> QED
      BY <3>1, <3>2
  <2>3. Named(e)
    BY <2>1, <2>2 DEF Named, Linked
  <2> QED
    BY <2>1, <2>3 DEF SameFds
<1>3. CASE Join(t)
  <2>1. Linked' = Linked \ {frame[t].tmp} /\ pc'[t] = "original" /\ Closing(t)
    BY <1>3, JoinList
  <2>2. \A u \in Threads : pc'[u] # "link"
    BY <1>1, <2>1, DeleteAlone DEF Alone
  <2>3. e \in Linked /\ e # frame[t].tmp
    BY <2>1, <2>2 DEF Named
  <2> QED
    BY <1>3, <2>3, JoinShape DEF Named
<1> QED
  BY <1>2, <1>3

LEMMA RestBare ==
  ASSUME 0 \notin Fds, Account, Ownership, NEW t \in Threads, Rest(t), ~Link(t), Bare(t)',
         NEW e \in Entries, Named(e)'
  PROVE  entry[e].thr_fd \notin Mine(t)'
<1>0. ThreadStep(t)
  BY DEF Rest, ThreadStep
<1>1. Named(e) /\ Mine(t)' \subseteq Mine(t) /\ frame'[t].call = frame[t].call
  BY <1>0, NamedKept, RestRights
<1>2. CASE Bare(t)
  BY <1>1, <1>2 DEF Ownership, Names
<1>3. CASE ~Bare(t)
  <2>1. pc[t] # "done"
    BY DEF Rest, CreateRefused, CreateAdd, CreateWithoutEntry, Link, ForwardLock,
       ForwardMiss, Send, Recv, Accepted, ForwardReturn, CloseLock, CloseMiss, Join, Is
  <2>2. call(t) = close /\ pc[t] # "original" /\ pc'[t] = "original"
    BY <1>1, <1>3, <2>1 DEF Bare, call
  <2>3. Mine(t) = Fds \cap {frame[t].fd}
    BY <2>1, <2>2, OwnKinds, KindOf DEF Mine
  <2>4. CloseMiss(t) \/ Join(t)
    BY <2>2, KindOf DEF Rest, CreateRefused, CreateAdd, CreateWithoutEntry, Link, ForwardLock,
       ForwardMiss, Send, Recv, Accepted, ForwardReturn, CloseLock, Is, Goto,
       Account, Types, ThreadTypes
  <2>5. CASE CloseMiss(t)
    <3>1. CanWrLock /\ fdtable_get_by_fd_all(frame[t].fd) = NULL
      BY <2>5 DEF CloseMiss
    <3>2. e \in Linked
      BY <1>1, <3>1, DeleteAlone DEF Named, CanWrLock
    <3>3. table \in Seq(Entries) /\ Linked \subseteq Entries
      BY LinkedIn DEF Account, Types, TableTypes
    <3>4. \A d \in Linked : entry[d].thr_fd # 0
      BY <3>3 DEF Ownership, Names, Named, Account, Types, EnvTypes
    <3>5. entry[e].thr_fd # frame[t].fd
      <4> SUFFICES ASSUME entry[e].thr_fd = frame[t].fd PROVE FALSE
        OBVIOUS
      <4>1. Walk({d \in Linked : entry[d].thr_fd = frame[t].fd}) \in Linked
        BY <3>2, <3>3, <3>4, NoZeroWalk
      <4> QED
        BY <3>1, <3>3, <4>1, NullAssumption DEF fdtable_get_by_fd_all
    <3> QED
      BY <1>1, <2>3, <3>5
  <2>6. CASE Join(t)
    <3>1. Linked' = Linked \ {frame[t].tmp} /\ pc'[t] = "original" /\ Closing(t)
      BY <2>6, JoinList
    <3>2. frame[t].tmp \in Linked /\ frame[t].tmp \in Entries /\ entry[frame[t].tmp].thr_fd = frame[t].fd
      BY <2>6, JoinShape
    <3>3. \A u \in Threads : pc'[u] # "link"
      BY <1>0, <3>1, DeleteAlone, StepAlone DEF Alone, Account
    <3>4. e # frame[t].tmp
      BY <3>1, <3>3 DEF Named
    <3>5. entry[e].thr_fd # frame[t].fd
      BY <1>1, <3>2, <3>4 DEF Ownership, Names, Named
    <3> QED
      BY <1>1, <2>3, <3>5
  <2> QED
    BY <2>4, <2>5, <2>6
<1> QED
  BY <1>2, <1>3

(* What a thread links is its own, and has no entry yet. *)
LEMMA LinkFd ==
  ASSUME 0 \notin Fds, Sole, Account, Order, NonZero, Ownership, NEW t \in Threads, Link(t)
  PROVE  frame[t].ret \in Mine(t) /\ Bare(t)
<1>0. pc[t] = "link"
  BY DEF Link
<1>1. call(t) = accept \/ call(t).kind = "create"
  BY <1>0 DEF Account, Places
<1>2. frame[t].ret > 0 /\ frame[t].ret # -1 /\ frame[t].ret # 0
  BY <1>0, FrameFields DEF NonZero, Account, Types, ThreadTypes
<1>3. CASE call(t).kind = "create"
  <2>1. frame[t].ret \in Fds
    BY <1>0, <1>2, <1>3 DEF NonZero
  <2> QED
    BY <1>0, <1>3, <2>1, OwnKinds DEF Mine, Bare
<1>4. CASE call(t) = accept
  <2>1. frame[t].ret = outcome[t].val /\ accept \in Calls[t]
    BY <1>0, <1>4, AcceptRet DEF Account, Places
  <2>2. frame[t].ret \in Fds
    BY <1>0, <1>2, <1>4, <2>1 DEF Ownership, Accepts
  <2> QED
    BY <1>0, <1>4, <2>1, <2>2, OwnKinds, KindOf DEF Mine, Bare
<1> QED
  BY <1>0, <1>1, <1>3, <1>4

LEMMA LinkNames ==
  ASSUME 0 \notin Fds, Sole, Account, Order, NonZero, Ownership, NEW t \in Threads, Link(t)
  PROVE  Names'
<1>1. PICK x \in Entries \ allocated :
        /\ pc[t] = "link" /\ pc'[t] = "done"
        /\ Linked' = {x} \cup RangeOf(frame[t].next)
        /\ entry'[x].thr_fd = frame[t].ret
        /\ \A d \in Entries \ {x} : entry'[d] = entry[d] /\ worker'[d] = worker[d]
  BY LinkList
<1>2. /\ Alone(t) /\ openFds' = openFds
      /\ \A u \in Threads \ {t} : Mine(u)' = Mine(u) /\ (Bare(u)' <=> Bare(u))
  <2>1. Alone(t) /\ \A u \in Threads \ {t} : outcome'[u] = outcome[u]
    BY StepAlone, OutcomeAlone DEF ThreadStep, Account
  <2>2. openFds' = openFds
    BY RestRights DEF Rest
  <2> QED
    BY <2>1, <2>2, MineKept DEF Alone
<1>3. frame[t].ret \in Mine(t) /\ Bare(t)
  BY LinkFd
<1>4. ASSUME NEW d \in Entries, Named(d)', d # x PROVE Named(d)
  <2>1. CASE d \in Linked'
    BY <1>1, <1>4, <2>1 DEF Named
  <2>2. CASE d \notin Linked'
    BY <1>1, <1>2, <1>4, <2>2 DEF Named, Alone
  <2> QED
    BY <2>1, <2>2
<1>5. /\ Mine(t) \subseteq openFds /\ \A u \in Threads \ {t} : Mine(t) \cap Mine(u) = {}
  BY DEF Ownership, Rights
<1>6. ASSUME NEW d \in Entries, Named(d)', d # x
      PROVE  /\ entry'[d].thr_fd = entry[d].thr_fd /\ entry[d].thr_fd \in openFds
             /\ entry[d].thr_fd # frame[t].ret
             /\ \A c \in Entries : Named(c) /\ entry[c].thr_fd = entry[d].thr_fd => c = d
             /\ \A u \in Threads : Bare(u) => entry[d].thr_fd \notin Mine(u)
  BY <1>1, <1>3, <1>4, <1>6 DEF Ownership, Names
<1>7. ~Bare(t)'
  BY <1>1 DEF Bare
<1>8. ASSUME NEW e \in Entries, Named(e)'
      PROVE  /\ entry'[e].thr_fd \in openFds'
             /\ \A u \in Threads : Bare(u)' => entry'[e].thr_fd \notin Mine(u)'
  BY <1>1, <1>2, <1>3, <1>5, <1>6, <1>7, <1>8
<1>9. ASSUME NEW e \in Entries, NEW d \in Entries, Named(e)', Named(d)',
             entry'[d].thr_fd = entry'[e].thr_fd
      PROVE  d = e
  BY <1>1, <1>4, <1>6, <1>9
<1> QED
  BY <1>8, <1>9 DEF Names

LEMMA OwnershipThread ==
  ASSUME 0 \notin Fds, Sole, Account, Order, NonZero, Ownership,
         NEW t \in Threads, Enter(t) \/ ThreadStep(t)
  PROVE  Ownership'
<1>1. /\ Alone(t) /\ \A u \in Threads \ {t} : outcome'[u] = outcome[u]
  BY StepAlone, OutcomeAlone DEF Account
<1>2. \A u \in Threads \ {t} : Mine(u)' = Mine(u) /\ (Bare(u)' <=> Bare(u))
  BY <1>1, MineKept DEF Alone
<1>3. Enter(t) \/ Return(t) \/ CreateOriginal(t) \/ ForwardOriginal(t) \/ CloseOriginal(t) \/ Rest(t)
  BY DEF ThreadStep, Rest
<1>4. Rightful(t)
  BY <1>3, EnterRights, ReturnRights, MakeRights, CloseRights, RestRights
<1>5. Rights'
  BY <1>2, <1>4, RightsFrom DEF Ownership
<1>6. Names'
  <2>1. CASE Link(t)
    BY <2>1, LinkNames
  <2>2. CASE ~Link(t)
    <3>1. \A e \in Entries : Named(e)' => Named(e) /\ entry'[e].thr_fd = entry[e].thr_fd
      BY <2>2, NamedKept
    <3>2. ASSUME NEW e \in Entries, Named(e)', Bare(t)' PROVE entry[e].thr_fd \notin Mine(t)'
      <4>1. CASE Enter(t) \/ Return(t) \/ CloseOriginal(t)
        BY <3>2, <4>1, EnterRights, ReturnRights, CloseRights
      <4>2. CASE CreateOriginal(t) \/ ForwardOriginal(t)
        BY <3>1, <3>2, <4>2, MakeRights DEF Ownership, Names
      <4>3. CASE Rest(t)
        BY <2>2, <3>2, <4>3, RestBare
      <4> QED
        BY <1>3, <4>1, <4>2, <4>3
    <3>3. Names
      BY DEF Ownership
    <3> QED
      BY <1>2, <1>4, <3>1, <3>2, <3>3, NamesFrom
  <2> QED
    BY <2>1, <2>2
<1>7. Accepts'
  <2>1. ASSUME NEW u \in Threads, accept \in Calls[u]
        PROVE  /\ pc'[u] = "app" => outcome'[u].val = 0
               /\ frame'[u].call = accept => outcome'[u].val \in Fds \cup {-1, 0}
    <3>1. /\ pc[u] = "app" => outcome[u].val = 0
          /\ frame[u].call = accept => outcome[u].val \in Fds \cup {-1, 0}
      BY <2>1 DEF Ownership, Accepts, call
    <3>2. CASE u # t
      BY <1>1, <3>1, <3>2 DEF Alone
    <3>3. CASE u = t /\ (Enter(t) \/ Return(t) \/ CloseOriginal(t))
      BY <2>1, <3>3, EnterRights, ReturnRights, CloseRights
    <3>4. CASE u = t /\ (CreateOriginal(t) \/ ForwardOriginal(t))
      BY <3>4, MakeRights DEF call
    <3>5. CASE u = t /\ Rest(t)
      BY <3>1, <3>5, RestRights
    <3> QED
      BY <1>3, <3>2, <3>3, <3>4, <3>5
  <2> QED
    BY <2>1 DEF Accepts, call
<1> QED
  BY <1>5, <1>6, <1>7 DEF Ownership

(* The worker's accept answers the thread that waits, with a new descriptor. *)
LEMMA AcceptExec ==
  ASSUME Exclusive, Account, Orderly, NEW e \in Entries, WorkerExec(e)
  PROVE  \E t \in Threads :
           /\ pc[t] = "recv" /\ \A u \in Threads \ {t} : outcome'[u] = outcome[u]
           /\ call(t) = accept =>
                /\ outcome'[t].val \in (Fds \ openFds) \cup {-1}
                /\ outcome'[t].val \in Fds => openFds' = openFds \cup {outcome'[t].val}
<1> DEFINE type == worker[e].args.type
           from == worker[e].args.from
<1>1. worker[e].pc = "exec"
  BY DEF WorkerExec
<1>2. PICK o \in ExecAnswers(type) :
        /\ openFds' = IF type = "ACCEPT" /\ o.val >= 0 THEN openFds \cup {o.val} ELSE openFds
        /\ outcome' = IF from = NULL THEN outcome ELSE [outcome EXCEPT ![from] = o]
  BY WorkerExecShape DEF Account
<1>3. PICK t \in Threads : Waiting(t, e) /\ Stage(t, e)
  BY <1>1, WorksFor DEF Busy, Orderly
<1>4. Executing(t, e)
  BY <1>1, <1>3 DEF Stage, Asked, Replying, Replied, Busy
<1>5. type = call(t).type /\ from = t /\ t # NULL /\ pc[t] = "recv"
  BY <1>3, <1>4, ThreadAssumption DEF Executing, Waiting
<1>6. outcome'[t] = o /\ \A u \in Threads \ {t} : outcome'[u] = outcome[u]
  BY <1>2, <1>5 DEF Account, Types, ThreadTypes
<1>7. call(t) = accept => type = "ACCEPT"
  BY <1>5 DEF accept, Forward
<1>8. type = "ACCEPT" => o.val \in (Fds \ openFds) \cup {-1}
  BY <1>2, ExecAnswersFacts DEF Account
<1>9. type = "ACCEPT" /\ o.val \in Fds => openFds' = openFds \cup {o.val}
  BY <1>2, FdSign
<1> QED
  BY <1>5, <1>6, <1>7, <1>8, <1>9

LEMMA WorkerOpens ==
  ASSUME Account, NEW e \in Entries, WorkerStep(e)
  PROVE  WorkerOnly(e) /\ openFds \subseteq openFds' /\ (~WorkerExec(e) => outcome' = outcome)
<1>1. WorkerOnly(e) /\ (~WorkerExec(e) => outcome' = outcome /\ openFds' = openFds)
  BY WorkerStartShape, WorkerWalkShape, WorkerRecvShape, WorkerExecShape, WorkerReplyShape,
     WorkerLoopShape DEF WorkerStep, Account
<1>2. WorkerExec(e) => openFds \subseteq openFds'
  BY DEF WorkerExec
<1> QED
  BY <1>1, <1>2

LEMMA OwnershipWorker ==
  ASSUME Sole, Account, Order, Ownership, NEW e \in Entries, WorkerStep(e)
  PROVE  Ownership'
<1>1. WorkerOnly(e) /\ openFds \subseteq openFds' /\ (~WorkerExec(e) => outcome' = outcome)
  BY WorkerOpens
<1>2. /\ UNCHANGED <<table, pc, frame, known>> /\ SameFds
  BY <1>1 DEF WorkerOnly
<1>3. \A d \in Entries : (Named(d)' <=> Named(d)) /\ entry'[d].thr_fd = entry[d].thr_fd
  BY <1>2 DEF Named, Linked, SameFds
<1>4. \A u \in Threads : call(u) = accept => accept \in Calls[u]
  <2>1. Idle.call.kind = "none"
    BY DEF Idle
  <2> QED
    BY <2>1, OwnKinds DEF Account, Places, call
<1>5. CASE \A u \in Threads : accept \in Calls[u] => outcome'[u] = outcome[u]
  <2>1. \A u \in Threads : Mine(u)' = Mine(u) /\ (Bare(u)' <=> Bare(u))
    BY <1>2, <1>4, <1>5, MineKept
  <2>2. Rights'
    BY <1>1, <1>2, <2>1 DEF Ownership, Rights
  <2>3. Names'
    BY <1>1, <1>3, <2>1 DEF Ownership, Names
  <2>4. Accepts'
    BY <1>2, <1>5 DEF Ownership, Accepts, call
  <2> QED
    BY <2>2, <2>3, <2>4 DEF Ownership
<1>6. CASE Exclusive /\ WorkerExec(e)
  <2>1. PICK t \in Threads :
           /\ pc[t] = "recv" /\ \A u \in Threads \ {t} : outcome'[u] = outcome[u]
           /\ call(t) = accept =>
                /\ outcome'[t].val \in (Fds \ openFds) \cup {-1}
                /\ outcome'[t].val \in Fds => openFds' = openFds \cup {outcome'[t].val}
    BY <1>6, AcceptExec DEF Order
  <2>2. \A u \in Threads \ {t} : Mine(u)' = Mine(u) /\ (Bare(u)' <=> Bare(u))
    BY <1>2, <2>1, MineKept
  <2>3. call(t).kind # "create"
    BY <2>1, KindOf DEF Account, Places
  <2>4. Rights /\ Names /\ known \subseteq openFds /\ Mine(t) \subseteq openFds \ known
    BY DEF Ownership, Rights
  <2>5. CASE call(t) = accept
    <3>1. Mine(t)' = Fds \cap {outcome'[t].val}
      BY <1>2, <2>3, <2>5 DEF Mine, call
    <3>2. Mine(t)' \subseteq Fds \ openFds /\ Mine(t)' \subseteq openFds'
      BY <2>1, <2>5, <3>1, OwnKinds
    <3>3. Rightful(t)
      BY <1>1, <1>2, <2>4, <3>2 DEF Rightful
    <3>4. \A d \in Entries : Named(d) => entry[d].thr_fd \notin Mine(t)'
      BY <2>4, <3>2 DEF Names
    <3>5. Rights' /\ Names'
      BY <1>3, <2>2, <2>4, <3>3, <3>4, RightsFrom, NamesFrom
    <3>6. Accepts'
      BY <1>2, <2>1, <2>5 DEF Ownership, Accepts, call
    <3> QED
      BY <3>5, <3>6 DEF Ownership
  <2>6. CASE call(t) # accept
    <3>1. Mine(t)' = Mine(t) /\ (Bare(t)' <=> Bare(t))
      BY <1>2, <2>6, MineKept
    <3>2. Rights'
      BY <1>1, <1>2, <2>2, <3>1 DEF Ownership, Rights
    <3>3. Names'
      BY <1>1, <1>3, <2>2, <3>1 DEF Ownership, Names
    <3>4. Accepts'
      BY <1>2, <2>1, <2>6 DEF Ownership, Accepts, call
    <3> QED
      BY <3>2, <3>3, <3>4 DEF Ownership
  <2> QED
    BY <2>5, <2>6
<1> QED
  BY <1>1, <1>5, <1>6 DEF Sole, NoAccept

LEMMA InitOwnership == Init => Ownership
<1> SUFFICES ASSUME Init PROVE Ownership
  OBVIOUS
<1>1. /\ pc = [t \in Threads |-> "app"] /\ frame = [t \in Threads |-> Idle]
      /\ outcome = [t \in Threads |-> NoOutcome] /\ table = <<>> /\ known = {}
  BY DEF Init, fdtable_init
<1>2. Idle.call.kind = "none"
  BY DEF Idle
<1>3. \A t \in Threads : Mine(t) = {}
  BY <1>1, <1>2, OwnKinds DEF Mine, call
<1>4. \A e \in Entries : ~Named(e)
  BY <1>1 DEF Named, Linked
<1>5. Accepts
  BY <1>1, NoOutcomeFacts DEF Accepts
<1> QED
  BY <1>1, <1>3, <1>4, <1>5 DEF Ownership, Rights, Names

LEMMA OwnershipStep ==
  ASSUME 0 \notin Fds, Sole
  PROVE  Account /\ Order /\ NonZero /\ Ownership /\ [Next]_vars => Ownership'
<1> SUFFICES ASSUME Account, Order, NonZero, Ownership, [Next]_vars PROVE Ownership'
  OBVIOUS
<1>1. CASE UNCHANGED vars
  <2>1. UNCHANGED <<table, entry, pc, frame, outcome, openFds, known>>
    BY <1>1 DEF vars, tableVars, kernelVars
  <2>2. \A u \in Threads : Mine(u)' = Mine(u) /\ (Bare(u)' <=> Bare(u))
    BY <2>1, MineKept
  <2>3. \A d \in Entries : Named(d)' <=> Named(d)
    BY <2>1 DEF Named, Linked
  <2> QED
    BY <2>1, <2>2, <2>3 DEF Ownership, Rights, Names, Accepts, call
<1> QED
  BY <1>1, OwnershipThread, OwnershipWorker DEF Next, Finished

LEMMA OrderStep == Account /\ Order /\ [Next]_vars => Order'
BY OrderlyStep DEF Order

LEMMA InitOrder == Init => Order
BY InitOrderly DEF Order

LEMMA OwnershipHolds ==
  ASSUME 0 \notin Fds, Sole PROVE Spec => [](Account /\ Ownership)
BY InitAccount, AccountStep, InitOrder, OrderStep, InitNonZero, NonZeroStep, InitOwnership,
   OwnershipStep, PTL DEF Spec

(* The table and the kernel agree: an entry is for a descriptor that is      *)
(* open, and for one no other entry has, because close deletes the entry     *)
(* before the kernel can reuse the number (l.623) and the number it hands    *)
(* out next is bare.  Descriptor 0 is not handed out; when the program uses  *)
(* accept, no two threads use a descriptor at once and descriptors fit an    *)
(* int, since accept adds the number it is sent.                             *)
THEOREM TableAgrees == ASSUME 0 \notin Fds, Sole PROVE Spec => []TableMatchesKernel
<1>1. Account /\ Ownership => TableMatchesKernel
  BY LinkedIn DEF Account, Types, TableTypes, Ownership, Names, Named, TableMatchesKernel
<1> QED
  BY OwnershipHolds, <1>1, PTL

(* The lookup finds the entry of a descriptor that has one (fdtable.c l.102), *)
(* under the same conditions: with descriptor 0 in the list the walk stops    *)
(* short.                                                                     *)
THEOREM EntriesFound == ASSUME 0 \notin Fds, Sole PROVE Spec => []LookupFinds
<1>1. Account /\ Ownership => LookupFinds
  <2> SUFFICES ASSUME Account, Ownership, NEW e \in Linked
               PROVE  fdtable_get_by_fd_all(entry[e].thr_fd) = e
    BY DEF LookupFinds
  <2>1. table \in Seq(Entries) /\ Linked \subseteq Entries
    BY LinkedIn DEF Account, Types, TableTypes
  <2>2. \A d \in Linked : entry[d].thr_fd # 0
    BY <2>1 DEF Ownership, Names, Named, Account, Types, EnvTypes
  <2>3. PICK d \in Linked : /\ d = fdtable_get_by_fd_all(entry[e].thr_fd)
                            /\ entry[d].thr_fd = entry[e].thr_fd
    <3> DEFINE M == {d \in Linked : entry[d].thr_fd = entry[e].thr_fd}
    <3>1. e \in Linked \cap M
      OBVIOUS
    <3>2. Walk(M) \in M /\ Walk(M) \in Linked
      BY <2>1, <2>2, <3>1, NoZeroWalk
    <3> QED
      BY <3>2 DEF fdtable_get_by_fd_all
  <2> QED
    BY <2>1, <2>3 DEF Ownership, Names, Named
<1> QED
  BY OwnershipHolds, <1>1, PTL

-----------------------------------------------------------------------------
(* Only descriptors get into a frame and into the table. *)
FdFields ==
  /\ \A t \in Threads : frame[t].fd \in Fds \cup {-1}
  /\ \A e \in Entries : entry[e].thr_fd \in Fds \cup {-12}

LEMMA FdFieldsStep ==
  ASSUME 0 \notin Fds, Sole
  PROVE  Account /\ Order /\ NonZero /\ Ownership /\ FdFields /\ [Next]_vars => FdFields'
<1> SUFFICES ASSUME Account, Order, NonZero, Ownership, FdFields, [Next]_vars PROVE FdFields'
  OBVIOUS
<1>1. ASSUME NEW t \in Threads, Enter(t) \/ ThreadStep(t) PROVE FdFields'
  <2>1. frame'[t].fd \in Fds \cup {-1}
    <3>1. CASE Enter(t)
      BY <3>1, EnterShape DEF Account, Types, EnvTypes
    <3>2. CASE Return(t)
      BY <3>2 DEF Return, Idle, Account, Types, ThreadTypes
    <3>3. CASE ThreadStep(t) /\ ~Return(t)
      BY <3>3, FdKept DEF FdFields
    <3> QED
      BY <1>1, <3>1, <3>2, <3>3
  <2>2. \A e \in Entries : entry'[e].thr_fd \in Fds \cup {-12}
    <3>1. CASE Link(t)
      <4>1. PICK e \in Entries \ allocated :
              /\ entry'[e].thr_fd = frame[t].ret
              /\ \A d \in Entries \ {e} : entry'[d] = entry[d] /\ worker'[d] = worker[d]
        BY <3>1, LinkList
      <4>2. frame[t].ret \in Fds
        BY <3>1, LinkFd DEF Mine
      <4> QED
        BY <4>1, <4>2 DEF FdFields
    <3>2. CASE Join(t)
      <4>1. NewEntry.thr_fd = -12
        BY DEF NewEntry
      <4> QED
        BY <3>2, <4>1, JoinShape DEF FdFields
    <3>3. CASE ~Link(t) /\ ~Join(t)
      <4>1. SameFds
        BY <1>1, <3>3, QuietKeeps, SendShape, RecvShape DEF SameFds, Enter, ThreadStep, Quiet, tableVars
      <4> QED
        BY <4>1 DEF SameFds, FdFields
    <3> QED
      BY <3>1, <3>2, <3>3
  <2> QED
    BY <1>1, <2>1, <2>2, StepAlone DEF Alone, Account, FdFields
<1>2. ASSUME NEW e \in Entries, WorkerStep(e) PROVE FdFields'
  BY <1>2, WorkerOpens DEF WorkerOnly, SameFds, FdFields
<1>3. CASE UNCHANGED vars
  BY <1>3 DEF vars, tableVars, FdFields
<1> QED
  BY <1>1, <1>2, <1>3 DEF Next, Finished

LEMMA InitFdFields == Init => FdFields
<1>1. Idle.fd = -1 /\ NewEntry.thr_fd = -12
  BY DEF Idle, NewEntry
<1> QED
  BY <1>1 DEF Init, fdtable_init, FdFields

(* Every variable keeps its type; in particular thr_num counts at most the   *)
(* entries there are, and the application holds only open descriptors.  The  *)
(* conditions are those under which the list is intact and agrees with the   *)
(* kernel.                                                                   *)
THEOREM TypeCorrect ==
  ASSUME OneAdder, 0 \notin Fds, Sole, IsFiniteSet(Entries)
  PROVE  Spec => []TypeOK
<1>1. Account /\ Chain /\ Ownership /\ FdFields => TypeOK
  <2> SUFFICES ASSUME Account, Chain, Ownership, FdFields PROVE TypeOK
    OBVIOUS
  <2>1. /\ table \in Seq(Entries) /\ allocated \subseteq Entries
        /\ writer \in Threads \cup {NULL} /\ openFds \subseteq Fds /\ known \subseteq openFds
    BY DEF Account, Types, TableTypes, EnvTypes, Ownership, Rights
  <2>2. thr_num \in 0..Cardinality(Entries)
    <3>1. Distinct(table) /\ Linked = RangeOf(table) /\ thr_num = Len(table)
      BY MemoryParts DEF Account, Chain, Linked, RangeOf
    <3>2. Cardinality(Linked) = Len(table) /\ Linked \in SUBSET Entries /\ Len(table) \in Nat
      BY <2>1, <3>1, DistinctCount, LinkedIn
    <3>3. Cardinality(Linked) <= Cardinality(Entries) /\ Cardinality(Entries) \in Nat
      BY <3>2, FS_Subset, FS_CardinalityType
    <3> QED
      BY <3>1, <3>2, <3>3
  <2>3. ASSUME NEW e \in Entries
        PROVE  /\ entry[e].thr_fd \in Fds \cup {-12}
               /\ entry[e].NetorFile \in {net, file}
               /\ entry[e].full \in 0..1 /\ entry[e].full2 \in 0..1
               /\ worker[e].pc \in {"none", "start", "walk", "fault", "recv", "exec", "reply",
                                    "loop", "exit"}
               /\ worker[e].at \in Entries \cup {NULL}
    BY WorkerFields DEF FdFields, Account, Types, TableTypes, EntryType, WorkerPcs
  <2>4. ASSUME NEW t \in Threads
        PROVE  /\ pc[t] \in {"app", "original", "lock", "send", "recv", "accepted",
                             "link", "unlock", "join", "done"}
               /\ frame[t].call \in CallRecords
               /\ frame[t].fd \in Fds \cup {-1}
               /\ frame[t].tmp \in Entries \cup {NULL}
               /\ readers[t] \in Nat /\ made[t] \in 0..MaxCalls
    BY FrameFields DEF FdFields, Account, Types, ThreadTypes, Locks, Pcs
  <2> QED
    BY <2>1, <2>2, <2>3, <2>4 DEF TypeOK
<1> QED
  BY InitAccount, AccountStep, InitChain, ChainStep, InitOrder, OrderStep, InitNonZero,
     NonZeroStep, InitOwnership, OwnershipStep, InitFdFields, FdFieldsStep, <1>1, PTL DEF Spec
=============================================================================

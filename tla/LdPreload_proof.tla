--------------------------- MODULE LdPreload_proof ---------------------------
(***************************************************************************)
(* Proofs about the interposition layer, for any number of threads, of      *)
(* descriptors, of entries and of calls.                                    *)
(***************************************************************************)
EXTENDS LdPreload, SequenceTheorems, FiniteSetTheorems, TLAPS

Pcs == {"app", "original", "lock", "send", "recv", "accepted", "link",
        "unlock", "join", "done"}
WorkerPcs == {"none", "start", "walk", "fault", "recv", "exec", "reply", "loop",
              "exit"}
CallTypes == {"NONE"} \cup {c.type : c \in Interposed}
OutcomeType == [val : Int, err : Int]
MessageType == [type : CallTypes, from : Threads \cup {NULL}, value : Int,
                size : Int, err : Int]
EntryType == [thr_fd : Int, NetorFile : {net, file}, full : 0..1,
              full2 : 0..1, message : MessageType]
FrameType == [call : CallRecords, fd : Int, tmp : Entries \cup {NULL},
              next : Seq(Entries), ret : Int, thr_errno : Int, func_errno : Int]
WorkerType == [pc : WorkerPcs, at : Entries \cup {NULL}, args : MessageType,
               value : Int, size : Int, err : Int]

TableTypes ==
  /\ table \in Seq(Entries) /\ allocated \subseteq Entries
  /\ entry \in [Entries -> EntryType] /\ thr_num \in Int
ThreadTypes ==
  /\ pc \in [Threads -> Pcs]
  /\ frame \in [Threads -> FrameType]
  /\ made \in [Threads -> 0..MaxCalls]
  /\ errno \in [Threads -> Int]
  /\ outcome \in [Threads -> OutcomeType]
EnvTypes ==
  /\ readers \in [Threads -> Int] /\ writer \in Threads \cup {NULL}
  /\ worker \in [Entries -> WorkerType]
  /\ openFds \subseteq Fds /\ known \subseteq Fds
Types == TableTypes /\ ThreadTypes /\ EnvTypes
-----------------------------------------------------------------------------
(* What the wrappers have in common. *)
LEMMA WrapperFacts ==
  \A c \in Interposed :
    /\ c.kind \in {"forward", "create", "close"}
    /\ c.kind = "forward" =>
         /\ c.class \in {net, file} /\ c.type \notin {"CLOSE", "SHUTDOWN"}
         /\ c.field = StoredField(c.type)
         /\ c # write => c.errno \in {"assign", "if_set"}
         /\ c.fallback \in {"saved", "zero"}
         /\ c.type = "ACCEPT" <=> c = accept
    /\ c.kind = "create" =>
         /\ c.class \in {net, file}
         /\ c.lock = IF c = epoll_create THEN "rd" ELSE "wr"
    /\ c.kind = "close" => c.type \in {"CLOSE", "SHUTDOWN"}
    /\ c.type = "CLOSE" <=> c = close
<1> SUFFICES ASSUME NEW c \in Interposed
    PROVE  /\ c.kind \in {"forward", "create", "close"}
           /\ c.kind = "forward" =>
                /\ c.class \in {net, file} /\ c.type \notin {"CLOSE", "SHUTDOWN"}
                /\ c.field = StoredField(c.type)
                /\ c # write => c.errno \in {"assign", "if_set"}
                /\ c.fallback \in {"saved", "zero"}
                /\ c.type = "ACCEPT" <=> c = accept
           /\ c.kind = "create" =>
                /\ c.class \in {net, file}
                /\ c.lock = IF c = epoll_create THEN "rd" ELSE "wr"
           /\ c.kind = "close" => c.type \in {"CLOSE", "SHUTDOWN"}
           /\ c.type = "CLOSE" <=> c = close
  OBVIOUS
<1>1. CASE c \in {lseek, read, write, bind, listen, accept, connect}
  BY <1>1 DEF lseek, read, write, bind, listen, accept, connect, Forward, StoredField, net, file, close
<1>2. CASE c \in {send, recv, setsockopt, getsockopt, epoll_ctl, poll}
  BY <1>2 DEF send, recv, setsockopt, getsockopt, epoll_ctl, poll, Forward, StoredField, net, file, accept, write, close
<1>3. CASE c \in {sendto, sendmsg, recvfrom, recvmsg, getsockname, getpeername}
  BY <1>3 DEF sendto, sendmsg, recvfrom, recvmsg, getsockname, getpeername, Forward, StoredField, net, file, accept, write, close
<1>4. CASE c \in {open, openat, socket, epoll_create}
  BY <1>4 DEF open, openat, socket, epoll_create, Create, net, file, close
<1>5. CASE c \in {close, shutdown}
  BY <1>5 DEF close, shutdown
<1> QED
  BY <1>1, <1>2, <1>3, <1>4, <1>5 DEF Interposed

LEMMA KindOf ==
  /\ accept.kind = "forward" /\ accept.lock = "rd" /\ accept.class = net
  /\ socket.kind = "create" /\ open.kind = "create" /\ epoll_create.kind = "create"
  /\ close.kind = "close" /\ shutdown.kind = "close"
BY DEF accept, socket, open, epoll_create, close, shutdown, Forward, Create

(* The smallest of a set of numbers. *)
LEMMA Least ==
  ASSUME NEW S, S \subseteq Nat, S # {}
  PROVE  LET m == CHOOSE i \in S : \A j \in S : i <= j
         IN  m \in S /\ \A j \in S : m <= j
<1> DEFINE R == {ss \in Nat \X Nat : ss[1] < ss[2]}
<1>1. IsWellFoundedOn(R, Nat)
  BY NatLessThanWellFounded DEF OpToRel
<1>2. \A i, j \in Nat : ~ (<<j, i>> \in R) => i <= j
  <2> SUFFICES ASSUME NEW i \in Nat, NEW j \in Nat, j < i PROVE <<j, i>> \in R
    OBVIOUS
  <2> QED
    OBVIOUS
<1> HIDE DEF R
<1>3. \E m \in S : \A j \in S : ~ (<<j, m>> \in R)
  BY <1>1, WFMin
<1>4. \E m \in S : \A j \in S : m <= j
  BY <1>2, <1>3
<1> QED
  BY <1>4
-----------------------------------------------------------------------------
(* What the kernel answers. *)
LEMMA NewFdFacts ==
  ASSUME openFds \subseteq Fds, NEW errs, errs \subseteq Int, NEW o \in NewFd(errs)
  PROVE  /\ o \in OutcomeType
         /\ o.val \in (Fds \ openFds) \cup {-1}
         /\ o.val >= 0 => o.val \in Fds \ openFds /\ o.err = 0
<1>1. CASE o \in Failures(errs \cup {EMFILE})
  BY <1>1 DEF Failures, EMFILE, OutcomeType
<1>2. CASE FreeFds # {} /\ o = [val |-> LowestFd, err |-> 0]
  <2>1. LowestFd \in FreeFds
    BY <1>2, Least, FdsAssumption DEF LowestFd, FreeFds
  <2> QED
    BY <1>2, <2>1, FdsAssumption DEF FreeFds, OutcomeType
<1> QED
  BY <1>1, <1>2 DEF NewFd, Failures

LEMMA AnswersFacts ==
  ASSUME NEW o \in Answers
  PROVE  o \in OutcomeType /\ o.val \in Results \cup {-1}
BY ValueAssumption DEF Answers, Failures, OutcomeType

LEMMA NoOutcomeFacts == NoOutcome \in OutcomeType /\ NoOutcome.val = 0
BY DEF NoOutcome, OutcomeType

LEMMA CloseAnswers ==
  ASSUME NEW o \in {NoOutcome} \cup Failures(Errors)
  PROVE  o \in OutcomeType /\ o.val \in {0, -1}
BY ValueAssumption DEF NoOutcome, Failures, OutcomeType

(* What the lookups find. *)
LEMMA LinkedIn == ASSUME table \in Seq(Entries) PROVE Linked \subseteq Entries
BY DEF Linked

LEMMA WalkFacts ==
  ASSUME table \in Seq(Entries), NEW M
  PROVE  /\ Walk(M) # NULL => Walk(M) \in M /\ Walk(M) \in Linked
         /\ Walk(M) = NULL => Hits(M) = {}
<1>1. ASSUME Hits(M) # {}
      PROVE  Walk(M) \in M /\ Walk(M) \in Linked
  <2> DEFINE i == CHOOSE i \in Hits(M) : \A j \in Hits(M) : i <= j
  <2>1. Hits(M) \subseteq Nat
    BY DEF Hits
  <2>2. i \in Hits(M)
    BY <1>1, <2>1, Least
  <2>3. Walk(M) = table[i]
    BY <1>1 DEF Walk
  <2> QED
    BY <2>2, <2>3 DEF Hits, Linked
<1> QED
  BY <1>1, LinkedIn, NullAssumption DEF Walk

LEMMA LookupFacts ==
  ASSUME table \in Seq(Entries), NEW fd, NEW class
  PROVE  /\ LET e == fdtable_get_by_fd_all(fd)
            IN  e # NULL => e \in Linked /\ entry[e].thr_fd = fd
         /\ LET e == fdtable_get_by_fd(fd, class)
            IN  e # NULL => e \in Linked /\ entry[e].thr_fd = fd
BY WalkFacts DEF fdtable_get_by_fd_all, fdtable_get_by_fd

(* A lookup depends on the list and the descriptors only. *)
LEMMA LookupKept ==
  ASSUME table \in Seq(Entries), UNCHANGED table, NEW u, frame'[u].fd = frame[u].fd,
         \A e \in Entries : entry'[e].thr_fd = entry[e].thr_fd
  PROVE  fdtable_get_by_fd_all(frame[u].fd)' = fdtable_get_by_fd_all(frame[u].fd)
<1> DEFINE M == {e \in Linked : entry[e].thr_fd = frame[u].fd}
<1>1. Linked' = Linked /\ Linked \subseteq Entries
  BY LinkedIn DEF Linked
<1>2. {e \in Linked' : entry'[e].thr_fd = frame'[u].fd} = M
  BY <1>1
<1>3. {i \in DOMAIN table' : table'[i] \in M /\ \A j \in 1..i : entry'[table'[j]].thr_fd # 0} = Hits(M)
  BY DEF Hits
<1> DEFINE H == {i \in DOMAIN table' :
                   /\ table'[i] \in {e \in Linked' : entry'[e].thr_fd = frame'[u].fd}
                   /\ \A j \in 1..i : entry'[table'[j]].thr_fd # 0}
<1>4. H = Hits(M)
  BY <1>2, <1>3
<1>5. fdtable_get_by_fd_all(frame[u].fd)' =
        IF H = {} THEN NULL ELSE table'[CHOOSE i \in H : \A j \in H : i <= j]
  BY Zenon DEF fdtable_get_by_fd_all, Walk, Hits
<1> HIDE DEF H
<1>6. fdtable_get_by_fd_all(frame[u].fd)' =
        IF Hits(M) = {} THEN NULL
        ELSE table[CHOOSE i \in Hits(M) : \A j \in Hits(M) : i <= j]
  BY <1>4, <1>5
<1> QED
  BY <1>6 DEF fdtable_get_by_fd_all, Walk

(* Unlinking a node of the list, and putting one before it. *)
RangeOf(s) == {s[i] : i \in DOMAIN s}
Distinct(s) == \A i, j \in DOMAIN s : s[i] = s[j] => i = j

LEMMA UnlinkFacts ==
  ASSUME table \in Seq(Entries), NEW e \in Linked
  PROVE  /\ Unlink(e) \in Seq(Entries) /\ Len(Unlink(e)) = Len(table) - 1
         /\ RangeOf(Unlink(e)) \subseteq Linked
         /\ Distinct(table) => Distinct(Unlink(e)) /\ RangeOf(Unlink(e)) = Linked \ {e}
         /\ \E i \in 1..Len(table) :
              /\ table[i] = e
              /\ \A k \in 1..Len(table) - 1 :
                   Unlink(e)[k] = IF k < i THEN table[k] ELSE table[k + 1]
<1> DEFINE i == CHOOSE i \in DOMAIN table : table[i] = e
           u == SubSeq(table, 1, i - 1) \o SubSeq(table, i + 1, Len(table))
<1>1. i \in 1..Len(table) /\ table[i] = e
  BY DEF Linked
<1>2. Unlink(e) = u
  BY DEF Unlink
<1> HIDE DEF i
<1> DEFINE a == SubSeq(table, 1, i - 1)
           b == SubSeq(table, i + 1, Len(table))
<1>a. a \in Seq(Entries) /\ Len(a) = i - 1 /\ \A k \in 1..i - 1 : a[k] = table[k]
  <2>1. \A k \in 1..i - 1 : table[k] \in Entries
    BY <1>1
  <2> QED
    BY <1>1, <2>1, SubSeqProperties
<1>b. /\ b \in Seq(Entries) /\ Len(b) = Len(table) - i
      /\ \A k \in 1..Len(table) - i : b[k] = table[k + i]
  <2>1. \A k \in i + 1..Len(table) : table[k] \in Entries
    BY <1>1
  <2> QED
    BY <1>1, <2>1, SubSeqProperties
<1> HIDE DEF a, b
<1>c. u \in Seq(Entries) /\ Len(u) = Len(a) + Len(b)
      /\ \A k \in 1..Len(a) + Len(b) : u[k] = IF k <= Len(a) THEN a[k] ELSE b[k - Len(a)]
  BY <1>a, <1>b, ConcatProperties DEF a, b
<1> HIDE DEF u
<1>3. u \in Seq(Entries) /\ Len(u) = Len(table) - 1
  BY <1>1, <1>a, <1>b, <1>c
<1>4. \A k \in 1..Len(u) : u[k] = IF k < i THEN table[k] ELSE table[k + 1]
  <2> SUFFICES ASSUME NEW k \in 1..Len(u)
               PROVE  u[k] = IF k < i THEN table[k] ELSE table[k + 1]
    OBVIOUS
  <2>1. CASE k < i
    BY <2>1, <1>1, <1>a, <1>b, <1>c
  <2>2. CASE k >= i
    <3>1. k - (i - 1) \in 1..Len(table) - i /\ k - (i - 1) + i = k + 1
      BY <2>2, <1>1, <1>3
    <3> QED
      BY <2>2, <3>1, <1>1, <1>a, <1>b, <1>c
  <2> QED
    BY <2>1, <2>2, <1>1
<1>5. DOMAIN u = 1..Len(u) /\ DOMAIN table = 1..Len(table) /\ Len(table) \in Nat
  BY <1>3
<1>6. RangeOf(u) \subseteq Linked
  BY <1>1, <1>3, <1>4, <1>5 DEF RangeOf, Linked
<1>7. ASSUME Distinct(table) PROVE Distinct(u) /\ RangeOf(u) = Linked \ {e}
  <2>1. Distinct(u)
    <3> DEFINE P(k) == IF k < i THEN k ELSE k + 1
    <3>1. \A k \in 1..Len(u) : P(k) \in DOMAIN table /\ u[k] = table[P(k)]
      BY <1>1, <1>3, <1>4, <1>5
    <3>2. \A j, k \in 1..Len(u) : P(j) = P(k) => j = k
      BY <1>1, <1>3, <1>5
    <3> QED
      BY <3>1, <3>2, <1>5, <1>7 DEF Distinct
  <2>2. \A k \in 1..Len(u) : u[k] # e
    BY <1>1, <1>3, <1>4, <1>5, <1>7 DEF Distinct
  <2>3. ASSUME NEW k \in 1..Len(table), table[k] # e PROVE table[k] \in RangeOf(u)
    <3>1. CASE k < i
      BY <3>1, <1>1, <1>3, <1>4, <1>5 DEF RangeOf
    <3>2. CASE k > i
      <4>1. k - 1 \in 1..Len(u) /\ u[k - 1] = table[k]
        BY <3>2, <1>1, <1>3, <1>4, <1>5
      <4> QED
        BY <4>1, <1>5 DEF RangeOf
    <3> QED
      BY <3>1, <3>2, <2>3, <1>1
  <2> QED
    BY <2>1, <2>2, <2>3, <1>5, <1>6 DEF RangeOf, Linked
<1> QED
  BY <1>1, <1>2, <1>3, <1>4, <1>6, <1>7

LEMMA ConsFacts ==
  ASSUME NEW e \in Entries, NEW s \in Seq(Entries)
  PROVE  /\ <<e>> \o s \in Seq(Entries) /\ Len(<<e>> \o s) = Len(s) + 1
         /\ RangeOf(<<e>> \o s) = {e} \cup RangeOf(s)
         /\ Distinct(s) /\ e \notin RangeOf(s) => Distinct(<<e>> \o s)
         /\ (<<e>> \o s)[1] = e /\ \A k \in 1..Len(s) : (<<e>> \o s)[k + 1] = s[k]
<1> DEFINE u == <<e>> \o s
<1>1. u \in Seq(Entries) /\ Len(u) = Len(s) + 1 /\ u[1] = e
  OBVIOUS
<1>2. \A k \in 1..Len(s) : u[k + 1] = s[k]
  OBVIOUS
<1> HIDE DEF u
<1>3. DOMAIN u = 1..Len(s) + 1 /\ DOMAIN s = 1..Len(s) /\ Len(s) \in Nat
  BY <1>1
<1>4. \A k \in 1..Len(u) : k = 1 \/ (k - 1 \in 1..Len(s) /\ u[k] = s[k - 1])
  <2> SUFFICES ASSUME NEW k \in 1..Len(u), k # 1
               PROVE  k - 1 \in 1..Len(s) /\ u[k] = s[k - 1]
    OBVIOUS
  <2>1. k - 1 \in 1..Len(s)
    BY <1>1, <1>3
  <2> QED
    BY <2>1, <1>2, <1>3
<1>5. RangeOf(u) = {e} \cup RangeOf(s)
  <2>1. RangeOf(u) \subseteq {e} \cup RangeOf(s)
    <3> SUFFICES ASSUME NEW k \in DOMAIN u PROVE u[k] \in {e} \cup RangeOf(s)
      BY DEF RangeOf
    <3> QED
      BY <1>1, <1>3, <1>4 DEF RangeOf
  <2>2. \A k \in 1..Len(s) : k + 1 \in DOMAIN u
    BY <1>3
  <2>3. e \in RangeOf(u)
    BY <1>1, <1>3 DEF RangeOf
  <2>4. ASSUME NEW k \in DOMAIN s PROVE s[k] \in RangeOf(u)
    BY <2>2, <1>2, <1>3 DEF RangeOf
  <2>5. RangeOf(s) \subseteq RangeOf(u)
    BY <2>4 DEF RangeOf
  <2> QED
    BY <2>1, <2>3, <2>5
<1>6. ASSUME Distinct(s), e \notin RangeOf(s) PROVE Distinct(u)
  BY <1>6, <1>1, <1>3, <1>4 DEF Distinct, RangeOf
<1> QED
  BY <1>1, <1>2, <1>5, <1>6 DEF u
-----------------------------------------------------------------------------
(* Every step keeps the types. *)
LEMMA InitialRecords ==
  /\ NoMessage \in MessageType /\ NewEntry \in EntryType
  /\ Idle \in FrameType /\ NoWorker \in WorkerType
<1>1. NoMessage \in MessageType
  BY DEF NoMessage, MessageType, CallTypes
<1>2. NewEntry \in EntryType /\ NoWorker \in WorkerType
  BY <1>1 DEF NewEntry, EntryType, NoWorker, WorkerType, WorkerPcs, net, file
<1>3. Idle \in FrameType
  BY DEF Idle, FrameType, CallRecords
<1> QED
  BY <1>1, <1>2, <1>3

LEMMA InitTypes == Init => Types
BY InitialRecords, NoOutcomeFacts, LimitAssumption
   DEF Init, fdtable_init, Types, TableTypes, ThreadTypes, EnvTypes, Pcs

LEMMA CallIn ==
  ASSUME NEW t \in Threads, NEW c \in Calls[t]
  PROVE  c \in CallRecords /\ c \in Interposed /\ c.type \in CallTypes
BY CallsAssumption DEF CallRecords, CallTypes

LEMMA EnterTypes ==
  ASSUME Types, NEW t \in Threads, Enter(t)
  PROVE  Types'
<1>1. PICK c \in Calls[t], fd \in known \cup {-1} :
        /\ made[t] < MaxCalls /\ made' = [made EXCEPT ![t] = @ + 1]
        /\ frame' = [frame EXCEPT ![t] =
             [Idle EXCEPT !.call = c, !.fd = fd,
                          !.func_errno = IF c = accept THEN 0 ELSE errno[t]]]
        /\ known' = IF c.type = "CLOSE" THEN known \ {fd} ELSE known
        /\ Goto(t, IF c.kind = "create" THEN "original" ELSE "lock")
  BY DEF Enter
<1>2. UNCHANGED <<tableVars, errno, outcome, lockVars, worker, openFds>>
  BY DEF Enter
<1>3. c \in CallRecords /\ fd \in Int /\ errno[t] \in Int
  BY CallIn, FdsAssumption DEF Types, EnvTypes, ThreadTypes
<1>4. frame' \in [Threads -> FrameType]
  BY <1>1, <1>3, InitialRecords DEF Types, ThreadTypes, FrameType, Idle
<1>5. ThreadTypes'
  BY <1>1, <1>2, <1>4, LimitAssumption DEF Types, ThreadTypes, Goto, Pcs
<1> QED
  BY <1>1, <1>2, <1>5 DEF Types, TableTypes, EnvTypes, tableVars, lockVars

LEMMA FrameFields ==
  ASSUME frame \in [Threads -> FrameType], NEW t \in Threads
  PROVE  /\ frame[t].ret \in Int /\ frame[t].thr_errno \in Int /\ frame[t].func_errno \in Int
         /\ frame[t].fd \in Int /\ frame[t].tmp \in Entries \cup {NULL}
         /\ frame[t].next \in Seq(Entries) /\ frame[t].call \in CallRecords
BY DEF FrameType

LEMMA EntryFields ==
  ASSUME entry \in [Entries -> EntryType], NEW e \in Entries
  PROVE  /\ entry[e].full \in 0..1 /\ entry[e].full2 \in 0..1
         /\ entry[e].thr_fd \in Int /\ entry[e].message \in MessageType
         /\ entry[e].message.value \in Int /\ entry[e].message.size \in Int
         /\ entry[e].message.err \in Int /\ entry[e].message.type \in CallTypes
BY DEF EntryType, MessageType

LEMMA LockTypes ==
  ASSUME Types, NEW t \in Threads, NEW mode, Acquire(t, mode) \/ Unlock(t)
  PROVE  readers' \in [Threads -> Int] /\ writer' \in Threads \cup {NULL}
BY DEF Types, EnvTypes, Acquire, Unlock

(* The steps that leave the list, the entries and the workers alone. *)
Quiet(t) ==
  \/ Return(t) \/ CreateOriginal(t) \/ CreateRefused(t) \/ CreateAdd(t)
  \/ CreateWithoutEntry(t) \/ ForwardLock(t) \/ ForwardMiss(t)
  \/ ForwardOriginal(t) \/ Accepted(t) \/ ForwardReturn(t)
  \/ CloseLock(t) \/ CloseMiss(t) \/ CloseOriginal(t)

LEMMA QuietKeeps ==
  ASSUME NEW t, Quiet(t)
  PROVE  UNCHANGED <<table, allocated, entry, thr_num, worker, made>>
BY DEF Quiet, Return, CreateOriginal, CreateRefused, CreateAdd, CreateWithoutEntry,
       ForwardLock, ForwardMiss, ForwardOriginal, Accepted, ForwardReturn,
       CloseLock, CloseMiss, CloseOriginal, tableVars

LEMMA QuietFrame ==
  ASSUME Types, NEW t \in Threads, Quiet(t)
  PROVE  frame' \in [Threads -> FrameType]
<1> USE DEF Types, TableTypes, ThreadTypes
<1>1. CASE Return(t)
  BY <1>1, InitialRecords DEF Return
<1>2. CASE CreateOriginal(t)
  <2>1. PICK o \in NewFd(CreateErrors) :
          frame' = [frame EXCEPT ![t].ret = o.val,
                                 ![t].func_errno = AfterCall(o, errno[t])]
    BY <1>2 DEF CreateOriginal
  <2>2. o.val \in Int /\ o.err \in Int
    BY NewFdFacts, ValueAssumption DEF OutcomeType, EnvTypes
  <2>3. AfterCall(o, errno[t]) \in Int
    BY <2>2 DEF AfterCall
  <2> QED
    BY <2>1, <2>2, <2>3 DEF FrameType
<1>3. CASE CreateRefused(t) \/ CreateWithoutEntry(t) \/ ForwardMiss(t) \/ ForwardReturn(t) \/ CloseMiss(t)
  BY <1>3 DEF CreateRefused, CreateWithoutEntry, ForwardMiss, ForwardReturn, CloseMiss
<1>4. CASE CreateAdd(t) \/ Accepted(t)
  <2>1. frame' = frame \/ frame' = [frame EXCEPT ![t].next = table]
    BY <1>4 DEF CreateAdd, Accepted
  <2> QED
    BY <2>1 DEF FrameType
<1>5. CASE ForwardLock(t)
  <2>1. fdtable_get_by_fd(frame[t].fd, call(t).class) \in Entries
    BY <1>5, LookupFacts, LinkedIn DEF ForwardLock
  <2> QED
    BY <1>5, <2>1 DEF ForwardLock, FrameType
<1>6. CASE ForwardOriginal(t)
  <2>1. PICK o \in (IF call(t) = accept THEN NewFd(Errors) ELSE Answers) :
          frame' = [frame EXCEPT ![t].ret = o.val]
    BY <1>6 DEF ForwardOriginal
  <2>2. o.val \in Int
    BY NewFdFacts, AnswersFacts, ValueAssumption DEF OutcomeType, EnvTypes
  <2> QED
    BY <2>1, <2>2 DEF FrameType
<1>7. CASE CloseLock(t)
  <2>1. fdtable_get_by_fd_all(frame[t].fd) \in Entries
    BY <1>7, LookupFacts, LinkedIn DEF CloseLock
  <2> QED
    BY <1>7, <2>1 DEF CloseLock, FrameType
<1>8. CASE CloseOriginal(t)
  <2>1. PICK o \in {NoOutcome} \cup Failures(Errors) : frame' = [frame EXCEPT ![t].ret = o.val]
    BY <1>8 DEF CloseOriginal
  <2>2. o.val \in Int
    BY CloseAnswers DEF OutcomeType
  <2> QED
    BY <2>1, <2>2 DEF FrameType
<1> QED
  BY <1>1, <1>2, <1>3, <1>4, <1>5, <1>6, <1>7, <1>8 DEF Quiet

LEMMA QuietThread ==
  ASSUME Types, NEW t \in Threads, Quiet(t)
  PROVE  ThreadTypes'
<1> USE DEF ThreadTypes
<1>1. frame' \in [Threads -> FrameType] /\ made' = made
  BY QuietFrame, QuietKeeps
<1>2. pc' \in [Threads -> Pcs]
  BY DEF Types, Quiet, Return, CreateOriginal, CreateRefused, CreateAdd, CreateWithoutEntry,
       ForwardLock, ForwardMiss, ForwardOriginal, Accepted, ForwardReturn,
       CloseLock, CloseMiss, CloseOriginal, Goto, Pcs
<1>3. errno' \in [Threads -> Int] /\ outcome' \in [Threads -> OutcomeType]
  <2>1. CASE CreateOriginal(t) \/ ForwardOriginal(t) \/ CloseOriginal(t)
    <3>1. PICK o : /\ \/ o \in NewFd(CreateErrors) \/ o \in NewFd(Errors) \/ o \in Answers
                      \/ o \in {NoOutcome} \cup Failures(Errors)
                   /\ outcome' = [outcome EXCEPT ![t] = o]
                   /\ errno' = [errno EXCEPT ![t] = AfterCall(o, @)]
      BY <2>1 DEF CreateOriginal, ForwardOriginal, CloseOriginal
    <3>2. o \in OutcomeType
      BY <3>1, NewFdFacts, AnswersFacts, CloseAnswers, ValueAssumption DEF Types, EnvTypes
    <3>3. AfterCall(o, errno[t]) \in Int
      BY <3>2 DEF AfterCall, OutcomeType, Types
    <3> QED
      BY <3>1, <3>2, <3>3 DEF Types
  <2>2. CASE Return(t)
    BY <2>2, NoOutcomeFacts DEF Return, Types
  <2>3. CASE CreateRefused(t) \/ CreateAdd(t) \/ CreateWithoutEntry(t) \/ ForwardLock(t)
    BY <2>3, FrameFields DEF CreateRefused, CreateAdd, CreateWithoutEntry, ForwardLock, Types
  <2>4. CASE ForwardMiss(t) \/ Accepted(t) \/ CloseLock(t) \/ CloseMiss(t)
    BY <2>4, FrameFields DEF ForwardMiss, Accepted, CloseLock, CloseMiss, Types
  <2>5. CASE ForwardReturn(t)
    <3>1. \E x \in {frame[t].thr_errno, frame[t].func_errno} : errno' = [errno EXCEPT ![t] = x]
      BY <2>5 DEF ForwardReturn
    <3> QED
      BY <2>5, <3>1, FrameFields DEF ForwardReturn, Types
  <2> QED
    BY <2>1, <2>2, <2>3, <2>4, <2>5 DEF Quiet
<1> QED
  BY <1>1, <1>2, <1>3 DEF Types

LEMMA QuietTypes ==
  ASSUME Types, NEW t \in Threads, Quiet(t)
  PROVE  Types'
<1>1. ThreadTypes' /\ TableTypes' /\ UNCHANGED worker
  BY QuietThread, QuietKeeps DEF Types, TableTypes
<1>2. readers' \in [Threads -> Int] /\ writer' \in Threads \cup {NULL}
  <2>1. CASE CreateAdd(t) \/ ForwardLock(t) \/ ForwardReturn(t) \/ CloseLock(t)
    BY <2>1, LockTypes DEF CreateAdd, ForwardLock, ForwardReturn, CloseLock
  <2>2. CASE CreateRefused(t)
    BY <2>2 DEF CreateRefused, Types, EnvTypes
  <2>3. CASE UNCHANGED lockVars
    BY <2>3 DEF Types, EnvTypes, lockVars
  <2> QED
    BY <2>1, <2>2, <2>3 DEF Quiet, Return, CreateOriginal, CreateWithoutEntry,
       ForwardMiss, ForwardOriginal, Accepted, CloseMiss, CloseOriginal
<1>3. openFds' \subseteq Fds /\ known' \subseteq Fds
  <2> USE DEF Types, EnvTypes
  <2>1. CASE Return(t) \/ CloseOriginal(t)
    BY <2>1 DEF Return, CloseOriginal
  <2>2. CASE CreateOriginal(t) \/ ForwardOriginal(t)
    <3>1. PICK o : /\ \/ o \in NewFd(CreateErrors) \/ o \in NewFd(Errors) \/ openFds' = openFds
                   /\ (openFds' = openFds \cup {o.val} /\ o.val >= 0) \/ openFds' = openFds
      BY <2>2 DEF CreateOriginal, ForwardOriginal
    <3> QED
      BY <2>2, <3>1, NewFdFacts, ValueAssumption DEF CreateOriginal, ForwardOriginal
  <2>3. CASE UNCHANGED kernelVars
    BY <2>3 DEF kernelVars
  <2> QED
    BY <2>1, <2>2, <2>3 DEF Quiet, CreateRefused, CreateAdd, CreateWithoutEntry,
       ForwardLock, ForwardMiss, Accepted, ForwardReturn, CloseLock, CloseMiss
<1> QED
  BY <1>1, <1>2, <1>3 DEF Types, EnvTypes
-----------------------------------------------------------------------------
(* Where a wrapper of each kind can be, and when it holds table_rwlock. *)
Reading(t) ==
  \/ call(t).kind = "forward" /\ pc[t] \in {"send", "recv", "accepted", "unlock", "link"}
  \/ call(t) = epoll_create /\ pc[t] = "link"
Closing(t) == call(t).kind = "close" /\ pc[t] \in {"send", "recv", "join"}
Writing(t) ==
  \/ Closing(t)
  \/ call(t).kind = "create" /\ call(t) # epoll_create /\ pc[t] = "link"

Places ==
  \A t \in Threads :
    /\ pc[t] = "app" => frame[t] = Idle
    /\ pc[t] # "app" => call(t) \in Calls[t]
    /\ pc[t] \in {"send", "recv"} => call(t).kind \in {"forward", "close"}
    /\ pc[t] = "unlock" => call(t).kind = "forward"
    /\ pc[t] = "accepted" => call(t) = accept
    /\ pc[t] = "link" => call(t) = accept \/ call(t).kind = "create"
    /\ pc[t] = "join" => call(t).kind = "close"
(* Without epoll_create, which may leave a read lock behind (l.1592), a      *)
(* thread has a read lock only while it uses it.                            *)
NoEpollCreate == \A t \in Threads : epoll_create \notin Calls[t]
Exact(t) == readers[t] = IF Reading(t) THEN 1 ELSE 0
Locks ==
  /\ writer # NULL => \A t \in Threads : readers[t] = 0
  /\ \A t \in Threads : /\ readers[t] \in Nat
                        /\ Reading(t) => readers[t] >= 1
                        /\ Writing(t) <=> writer = t
                        /\ NoEpollCreate => Exact(t)
(* What a thread has looked up, what it is about to link and what a worker  *)
(* serves is allocated; a close still finds the entry it has found.         *)
Memory ==
  /\ Linked \subseteq allocated /\ Distinct(table)
  /\ \A t \in Threads :
       /\ pc[t] = "link" => RangeOf(frame[t].next) \subseteq allocated /\ Distinct(frame[t].next)
       /\ pc[t] \in {"send", "recv", "accepted", "unlock", "join"} => frame[t].tmp \in allocated
       /\ frame[t].tmp # NULL /\ pc[t] \notin {"original", "done"} => frame[t].tmp \in allocated
       /\ pc[t] = "lock" \/ call(t).kind = "create" => frame[t].tmp = NULL
       /\ Closing(t) => fdtable_get_by_fd_all(frame[t].fd) = frame[t].tmp
  /\ \A e \in Entries : worker[e].pc \notin {"none", "exit"} => e \in allocated
Account == Types /\ Places /\ Locks /\ Memory
-----------------------------------------------------------------------------
(* The steps on the list, the entries and the workers, field by field.      *)
SameFds == \A e \in Entries : entry'[e].thr_fd = entry[e].thr_fd

LEMMA SendShape ==
  ASSUME Account, NEW t \in Threads, Send(t)
  PROVE  /\ frame[t].tmp \in Entries /\ entry' \in [Entries -> EntryType] /\ SameFds
         /\ \A e \in Entries \ {frame[t].tmp} : entry'[e] = entry[e]
         /\ LET e == frame[t].tmp
            IN  /\ entry[e].full = 0 /\ entry'[e].full = 1 /\ entry'[e].full2 = entry[e].full2
                /\ entry'[e].message = [NoMessage EXCEPT !.type = call(t).type, !.from = t]
<1> DEFINE m == [NoMessage EXCEPT !.type = call(t).type, !.from = t]
           e == frame[t].tmp
<1>1. e \in Entries
  BY DEF Account, Memory, Send, Types, TableTypes
<1>2. call(t).type \in CallTypes
  BY CallIn DEF Account, Places, Send
<1>3. m \in MessageType
  BY <1>2, InitialRecords DEF MessageType
<1>4. entry' = [entry EXCEPT ![e].full = 1, ![e].message = m] /\ entry[e].full = 0
  BY DEF Send
<1> HIDE DEF m, e
<1>5. /\ entry' \in [Entries -> EntryType] /\ SameFds
      /\ \A d \in Entries \ {e} : entry'[d] = entry[d]
      /\ entry'[e].full = 1 /\ entry'[e].full2 = entry[e].full2 /\ entry'[e].message = m
  <2> DEFINE one == 1
  <2>1. one \in 0..1 /\ entry' = [entry EXCEPT ![e].full = one, ![e].message = m]
    BY <1>4
  <2>2. entry \in [Entries -> EntryType] /\ one = 1
    BY DEF Account, Types, TableTypes
  <2> HIDE DEF one
  <2> DEFINE x == [entry[e] EXCEPT !.full = one]
  <2>3. entry'[e] = [x EXCEPT !.message = m]
    BY <1>1, <2>1, <2>2
  <2>x. /\ x \in EntryType /\ x.thr_fd = entry[e].thr_fd
        /\ x.full = one /\ x.full2 = entry[e].full2
    BY <1>1, <2>1, <2>2 DEF EntryType
  <2> HIDE DEF x
  <2>4. /\ entry'[e] \in EntryType /\ entry'[e].thr_fd = entry[e].thr_fd
        /\ entry'[e].full = one /\ entry'[e].full2 = entry[e].full2 /\ entry'[e].message = m
    BY <1>3, <2>x, <2>3 DEF EntryType
  <2> QED
    BY <1>1, <2>1, <2>2, <2>4 DEF SameFds
<1> QED
  BY <1>1, <1>4, <1>5 DEF e, m

LEMMA RecvShape ==
  ASSUME Account, NEW t \in Threads, Recv(t)
  PROVE  /\ frame[t].tmp \in Entries /\ entry' \in [Entries -> EntryType] /\ SameFds
         /\ \A e \in Entries \ {frame[t].tmp} : entry'[e] = entry[e]
         /\ LET e == frame[t].tmp
            IN  /\ entry[e].full2 = 1 /\ entry'[e].full2 = 0 /\ entry'[e].full = entry[e].full
                /\ entry'[e].message = entry[e].message
         /\ frame' \in [Threads -> FrameType]
         /\ \A u \in Threads \ {t} : frame'[u] = frame[u]
         /\ frame'[t].call = frame[t].call /\ frame'[t].tmp = frame[t].tmp
         /\ frame'[t].fd = frame[t].fd /\ frame'[t].next = frame[t].next
         /\ frame'[t].func_errno = frame[t].func_errno
         /\ LET m == entry[frame[t].tmp].message
            IN  /\ frame'[t].thr_errno = m.err
                /\ call(t).kind # "close" =>
                     frame'[t].ret = IF call(t).field = "size" THEN m.size ELSE m.value
<1> DEFINE e == frame[t].tmp
           m == entry[e].message
           r == IF call(t).kind = "close" THEN frame[t].ret
                ELSE IF call(t).field = "size" THEN m.size ELSE m.value
<1>1. e \in Entries
  BY DEF Account, Memory, Recv, Types, TableTypes
<1>2. r \in Int /\ m.err \in Int
  BY <1>1, EntryFields, FrameFields DEF Account, Types, TableTypes, ThreadTypes
<1>3. entry' = [entry EXCEPT ![e].full2 = 0] /\ entry[e].full2 = 1
  BY DEF Recv
<1>4. frame' = [frame EXCEPT ![t].ret = r, ![t].thr_errno = m.err]
  BY DEF Recv
<1>5. r = IF call(t).kind = "close" THEN frame[t].ret
          ELSE IF call(t).field = "size" THEN m.size ELSE m.value
  OBVIOUS
<1> HIDE DEF m, e, r
<1>6. /\ entry' \in [Entries -> EntryType] /\ SameFds
      /\ \A d \in Entries \ {e} : entry'[d] = entry[d]
      /\ entry'[e].full2 = 0 /\ entry'[e].full = entry[e].full /\ entry'[e].message = entry[e].message
  BY <1>1, <1>3 DEF Account, Types, TableTypes, EntryType, SameFds
<1>7. /\ frame' \in [Threads -> FrameType]
      /\ \A u \in Threads \ {t} : frame'[u] = frame[u]
      /\ frame'[t].call = frame[t].call /\ frame'[t].tmp = frame[t].tmp
      /\ frame'[t].fd = frame[t].fd /\ frame'[t].next = frame[t].next
      /\ frame'[t].func_errno = frame[t].func_errno
      /\ frame'[t].thr_errno = m.err /\ frame'[t].ret = r
  BY <1>2, <1>4 DEF Account, Types, ThreadTypes, FrameType
<1> QED
  BY <1>1, <1>3, <1>5, <1>6, <1>7 DEF e, m

LEMMA WorkerFields ==
  ASSUME Types, NEW e \in Entries
  PROVE  /\ worker[e] \in WorkerType /\ worker[e].pc \in WorkerPcs
         /\ worker[e].args \in MessageType /\ worker[e].args.type \in CallTypes
         /\ worker[e].args.from \in Threads \cup {NULL} /\ worker[e].at \in Entries \cup {NULL}
         /\ worker[e].value \in Int /\ worker[e].size \in Int /\ worker[e].err \in Int
BY DEF Types, EnvTypes, WorkerType, MessageType

(* A worker's step concerns its own entry and its own record; its record    *)
(* changes in its place of execution and in what that step computes.        *)
WorkerOnly(e) ==
  /\ UNCHANGED <<table, allocated, thr_num, pc, frame, made, errno, readers, writer, known>>
  /\ entry' \in [Entries -> EntryType] /\ SameFds
  /\ \A d \in Entries \ {e} : entry'[d] = entry[d] /\ worker'[d] = worker[d]
  /\ worker' \in [Entries -> WorkerType]
  /\ worker[e].pc # "none" /\ worker[e].pc # "exit"

(* The nodes of a search. *)
LEMMA SearchTypes ==
  ASSUME Types
  PROVE  /\ FirstNode \in Entries \cup {NULL}
         /\ \A tmp \in Entries \cup {NULL} :
              /\ NextNodes(tmp) \subseteq Entries \cup {NULL}
              /\ \A e : fdtable_get_by_tid(tmp, e) \in {"exit", "fault", "recv", "walk"}
<1>1. table \in Seq(Entries) /\ allocated \subseteq Entries
  BY DEF Types, TableTypes
<1>2. FirstNode \in Entries \cup {NULL}
  BY <1>1 DEF FirstNode
<1>3. ASSUME NEW tmp \in Entries \cup {NULL} PROVE NextNodes(tmp) \subseteq Entries \cup {NULL}
  BY <1>1 DEF NextNodes
<1>4. ASSUME NEW tmp \in Entries \cup {NULL}, NEW e
      PROVE  fdtable_get_by_tid(tmp, e) \in {"exit", "fault", "recv", "walk"}
  <2>1. \/ tmp = NULL /\ tmp \notin Entries
        \/ tmp # NULL /\ tmp \in Entries \ allocated
        \/ tmp # NULL /\ tmp \in allocated
    BY <1>1, NullAssumption
  <2> QED
    BY <1>1, <2>1 DEF fdtable_get_by_tid
<1> QED
  BY <1>2, <1>3, <1>4

LEMMA WorkerStartShape ==
  ASSUME Types, NEW e \in Entries, WorkerStart(e)
  PROVE  /\ WorkerOnly(e) /\ UNCHANGED <<entry, outcome, openFds>>
         /\ worker[e].pc = "start" /\ worker'[e].pc = "walk" /\ worker'[e].at = FirstNode
         /\ worker'[e].args = worker[e].args
<1> DEFINE to == "walk"
           n == FirstNode
<1>1. worker' = [worker EXCEPT ![e].pc = to, ![e].at = n] /\ worker[e].pc = "start"
  BY DEF WorkerStart
<1>2. to \in WorkerPcs /\ n \in Entries \cup {NULL}
  BY SearchTypes DEF WorkerPcs
<1> HIDE DEF to, n
<1>3. /\ worker' \in [Entries -> WorkerType] /\ worker'[e].pc = to
      /\ worker'[e].at = n /\ worker'[e].args = worker[e].args
      /\ \A d \in Entries \ {e} : worker'[d] = worker[d]
  BY <1>1, <1>2 DEF Types, EnvTypes, WorkerType
<1>4. /\ UNCHANGED <<table, allocated, entry, thr_num, pc, frame, made, errno, outcome>>
      /\ UNCHANGED <<readers, writer, openFds, known>>
  BY DEF WorkerStart, tableVars, lockVars, kernelVars
<1> QED
  BY <1>1, <1>3, <1>4 DEF WorkerOnly, SameFds, to, n, Types, TableTypes

LEMMA WorkerWalkShape ==
  ASSUME Types, NEW e \in Entries, WorkerWalk(e)
  PROVE  /\ WorkerOnly(e) /\ UNCHANGED <<entry, outcome, openFds>>
         /\ worker[e].pc = "walk" /\ worker[e].at \in Entries \cup {NULL}
         /\ worker'[e].pc = fdtable_get_by_tid(worker[e].at, e)
         /\ worker'[e].pc \in {"exit", "fault", "recv", "walk"}
         /\ worker'[e].pc = "walk" => worker'[e].at \in NextNodes(worker[e].at)
         /\ worker'[e].args = worker[e].args
<1> DEFINE to == fdtable_get_by_tid(worker[e].at, e)
<1>1. PICK tmp \in (IF to = "walk" THEN NextNodes(worker[e].at) ELSE {NULL}) :
        worker' = [worker EXCEPT ![e].pc = to, ![e].at = tmp] /\ worker[e].pc = "walk"
  BY DEF WorkerWalk
<1>2. worker[e].at \in Entries \cup {NULL}
  BY WorkerFields
<1>3. /\ to \in {"exit", "fault", "recv", "walk"} /\ to \in WorkerPcs
      /\ tmp \in Entries \cup {NULL} /\ (to = "walk" => tmp \in NextNodes(worker[e].at))
  BY <1>1, <1>2, SearchTypes DEF WorkerPcs
<1> HIDE DEF to
<1>4. /\ worker' \in [Entries -> WorkerType] /\ worker'[e].pc = to
      /\ worker'[e].at = tmp /\ worker'[e].args = worker[e].args
      /\ \A d \in Entries \ {e} : worker'[d] = worker[d]
  BY <1>1, <1>3 DEF Types, EnvTypes, WorkerType
<1>5. /\ UNCHANGED <<table, allocated, entry, thr_num, pc, frame, made, errno, outcome>>
      /\ UNCHANGED <<readers, writer, openFds, known>>
  BY DEF WorkerWalk, tableVars, lockVars, kernelVars
<1> QED
  BY <1>1, <1>2, <1>3, <1>4, <1>5 DEF WorkerOnly, SameFds, to, Types, TableTypes

LEMMA WorkerLoopShape ==
  ASSUME Types, NEW e \in Entries, WorkerLoop(e)
  PROVE  /\ WorkerOnly(e) /\ UNCHANGED <<entry, outcome, openFds>>
         /\ worker[e].pc = "loop"
         /\ worker'[e].pc = IF Stops(worker[e].args.type) THEN "exit" ELSE "recv"
<1> DEFINE to == IF Stops(worker[e].args.type) THEN "exit" ELSE "recv"
<1>1. /\ worker' = [worker EXCEPT ![e].pc = to, ![e].args = NoMessage]
      /\ worker[e].pc = "loop"
  BY DEF WorkerLoop
<1>2. to \in WorkerPcs /\ NoMessage \in MessageType
  BY InitialRecords DEF WorkerPcs
<1> HIDE DEF to
<1>3. /\ worker' \in [Entries -> WorkerType] /\ worker'[e].pc = to
      /\ \A d \in Entries \ {e} : worker'[d] = worker[d]
  BY <1>1, <1>2 DEF Types, EnvTypes, WorkerType
<1>4. /\ UNCHANGED <<table, allocated, entry, thr_num, pc, frame, made, errno, outcome>>
      /\ UNCHANGED <<readers, writer, openFds, known>>
  BY DEF WorkerLoop, tableVars, lockVars, kernelVars
<1> QED
  BY <1>1, <1>3, <1>4 DEF WorkerOnly, SameFds, to, Types, TableTypes

LEMMA WorkerRecvShape ==
  ASSUME Types, NEW e \in Entries, WorkerRecv(e)
  PROVE  /\ WorkerOnly(e) /\ UNCHANGED <<outcome, openFds>>
         /\ worker[e].pc = "recv" /\ worker'[e].pc = "exec"
         /\ worker'[e].args = entry[e].message
         /\ entry[e].full = 1 /\ entry'[e].full = 0 /\ entry'[e].full2 = entry[e].full2
         /\ entry'[e].message = entry[e].message
<1> DEFINE to == "exec"
           m == entry[e].message
           zero == 0
<1>1. /\ worker' = [worker EXCEPT ![e].pc = to, ![e].args = m]
      /\ worker[e].pc = "recv" /\ entry[e].full = 1
      /\ entry' = [entry EXCEPT ![e].full = zero]
  BY DEF WorkerRecv
<1>2. to \in WorkerPcs /\ m \in MessageType /\ zero \in 0..1 /\ zero = 0
  BY EntryFields DEF WorkerPcs, Types, TableTypes
<1> HIDE DEF to, m, zero
<1>3. /\ worker' \in [Entries -> WorkerType] /\ worker'[e].pc = to
      /\ worker'[e].args = m
      /\ \A d \in Entries \ {e} : worker'[d] = worker[d]
  BY <1>1, <1>2 DEF Types, EnvTypes, WorkerType
<1>4. /\ entry' \in [Entries -> EntryType] /\ SameFds
      /\ \A d \in Entries \ {e} : entry'[d] = entry[d]
      /\ entry'[e].full = zero /\ entry'[e].full2 = entry[e].full2
      /\ entry'[e].message = entry[e].message
  BY <1>1, <1>2 DEF Types, TableTypes, EntryType, SameFds
<1>5. /\ UNCHANGED <<table, allocated, thr_num, pc, frame, made, errno, outcome>>
      /\ UNCHANGED <<readers, writer, openFds, known>>
  BY DEF WorkerRecv, lockVars, kernelVars
<1> QED
  BY <1>1, <1>2, <1>3, <1>4, <1>5 DEF WorkerOnly, to, m

LEMMA WorkerReplyShape ==
  ASSUME Types, NEW e \in Entries, WorkerReply(e)
  PROVE  /\ WorkerOnly(e) /\ UNCHANGED <<outcome, openFds>>
         /\ worker[e].pc = "reply" /\ worker'[e].pc = "loop"
         /\ worker'[e].args = worker[e].args
         /\ entry[e].full2 = 0 /\ entry'[e].full2 = 1 /\ entry'[e].full = entry[e].full
         /\ entry'[e].message =
              [type |-> worker[e].args.type, from |-> NULL, value |-> worker[e].value,
               size |-> worker[e].size, err |-> worker[e].err]
<1> DEFINE to == "loop"
           m == [type |-> worker[e].args.type, from |-> NULL, value |-> worker[e].value,
                 size |-> worker[e].size, err |-> worker[e].err]
           one == 1
<1>1. /\ worker' = [worker EXCEPT ![e].pc = to]
      /\ worker[e].pc = "reply" /\ entry[e].full2 = 0
      /\ entry' = [entry EXCEPT ![e].full2 = one, ![e].message = m]
  BY DEF WorkerReply
<1>2. to \in WorkerPcs /\ m \in MessageType /\ one \in 0..1 /\ one = 1
  BY WorkerFields DEF WorkerPcs, MessageType
<1> HIDE DEF to, m, one
<1>3. /\ worker' \in [Entries -> WorkerType] /\ worker'[e].pc = to
      /\ worker'[e].args = worker[e].args
      /\ \A d \in Entries \ {e} : worker'[d] = worker[d]
  BY <1>1, <1>2 DEF Types, EnvTypes, WorkerType
<1>4. /\ entry' \in [Entries -> EntryType] /\ SameFds
      /\ \A d \in Entries \ {e} : entry'[d] = entry[d]
      /\ entry'[e].full2 = one /\ entry'[e].full = entry[e].full /\ entry'[e].message = m
  <2> DEFINE x == [entry[e] EXCEPT !.full2 = one]
  <2>1. entry \in [Entries -> EntryType]
    BY DEF Types, TableTypes
  <2>2. entry'[e] = [x EXCEPT !.message = m]
    BY <1>1, <2>1
  <2>3. /\ x \in EntryType /\ x.thr_fd = entry[e].thr_fd
        /\ x.full2 = one /\ x.full = entry[e].full
    BY <1>2, <2>1 DEF EntryType
  <2> HIDE DEF x
  <2>4. /\ entry'[e] \in EntryType /\ entry'[e].thr_fd = entry[e].thr_fd
        /\ entry'[e].full2 = one /\ entry'[e].full = entry[e].full /\ entry'[e].message = m
    BY <1>2, <2>2, <2>3 DEF EntryType
  <2> QED
    BY <1>1, <2>1, <2>4 DEF SameFds
<1>5. /\ UNCHANGED <<table, allocated, thr_num, pc, frame, made, errno, outcome>>
      /\ UNCHANGED <<readers, writer, openFds, known>>
  BY DEF WorkerReply, lockVars, kernelVars
<1> QED
  BY <1>1, <1>2, <1>3, <1>4, <1>5 DEF WorkerOnly, to, m

LEMMA ToIntFacts ==
  ASSUME NEW v \in Int
  PROVE  ToInt(v) \in Int /\ (v <= INT_MAX => ToInt(v) = v)
BY LimitAssumption DEF ToInt

(* What the request of type `type' is answered. *)
ExecAnswers(type) ==
  IF Stops(type) THEN {NoOutcome}
  ELSE IF type = "ACCEPT" THEN NewFd(Errors) ELSE Answers

LEMMA ExecAnswersFacts ==
  ASSUME Types, NEW type, NEW o \in ExecAnswers(type)
  PROVE  /\ o \in OutcomeType /\ o.val \in Int /\ o.err \in Int
         /\ type = "ACCEPT" => o.val \in (Fds \ openFds) \cup {-1}
         /\ ~Stops(type) /\ type # "ACCEPT" => o.val \in Results \cup {-1}
<1>1. CASE Stops(type)
  BY <1>1, NoOutcomeFacts DEF ExecAnswers, OutcomeType, Stops
<1>2. CASE ~Stops(type) /\ type = "ACCEPT"
  BY <1>2, NewFdFacts, ValueAssumption DEF ExecAnswers, OutcomeType, Types, EnvTypes
<1>3. CASE ~Stops(type) /\ type # "ACCEPT"
  BY <1>3, AnswersFacts DEF ExecAnswers, OutcomeType
<1> QED
  BY <1>1, <1>2, <1>3

LEMMA WorkerExecShape ==
  ASSUME Types, NEW e \in Entries, WorkerExec(e)
  PROVE  /\ WorkerOnly(e) /\ UNCHANGED entry
         /\ worker[e].pc = "exec" /\ worker'[e].pc = "reply"
         /\ worker'[e].args = worker[e].args
         /\ LET type == worker[e].args.type
                from == worker[e].args.from
            IN  \E o \in ExecAnswers(type) :
                  /\ worker'[e].err = o.err
                  /\ ~Stops(type) =>
                       IF StoredField(type) = "size" THEN worker'[e].size = o.val
                       ELSE worker'[e].value = ToInt(o.val)
                  /\ openFds' = IF type = "ACCEPT" /\ o.val >= 0 THEN openFds \cup {o.val}
                                ELSE openFds
                  /\ outcome' = IF from = NULL THEN outcome ELSE [outcome EXCEPT ![from] = o]
<1> DEFINE type == worker[e].args.type
           from == worker[e].args.from
<1>1. PICK o \in ExecAnswers(type) :
        /\ worker' = [worker EXCEPT ![e] =
             [worker[e] EXCEPT !.pc = "reply", !.err = o.err,
                   !.value = IF ~Stops(type) /\ StoredField(type) = "value"
                             THEN ToInt(o.val) ELSE @,
                   !.size = IF ~Stops(type) /\ StoredField(type) = "size"
                            THEN o.val ELSE @]]
        /\ openFds' = IF type = "ACCEPT" /\ o.val >= 0 THEN openFds \cup {o.val} ELSE openFds
        /\ outcome' = IF from = NULL THEN outcome ELSE [outcome EXCEPT ![from] = o]
  BY DEF WorkerExec, ExecAnswers
<1> DEFINE v == IF ~Stops(type) /\ StoredField(type) = "value"
                THEN ToInt(o.val) ELSE worker[e].value
           s == IF ~Stops(type) /\ StoredField(type) = "size"
                THEN o.val ELSE worker[e].size
           to == "reply"
           w == worker[e]
<1>2. worker' = [worker EXCEPT ![e] =
             [w EXCEPT !.pc = to, !.err = o.err, !.value = v, !.size = s]]
  BY <1>1
<1>3. /\ o.val \in Int /\ o.err \in Int /\ v \in Int /\ s \in Int
      /\ to \in WorkerPcs /\ w \in WorkerType
  BY ExecAnswersFacts, ToIntFacts, WorkerFields DEF WorkerPcs
<1>4. ~Stops(type) => IF StoredField(type) = "size" THEN s = o.val ELSE v = ToInt(o.val)
  BY DEF StoredField
<1>5. worker[e].pc = "exec" /\ w = worker[e] /\ to = "reply"
  BY DEF WorkerExec
<1> HIDE DEF v, s, to, w
<1>6. /\ worker'[e] = [w EXCEPT !.pc = to, !.err = o.err, !.value = v, !.size = s]
      /\ \A d \in Entries \ {e} : worker'[d] = worker[d]
  BY <1>2 DEF Types, EnvTypes
<1>7. /\ worker'[e] \in WorkerType /\ worker'[e].pc = to /\ worker'[e].args = w.args
      /\ worker'[e].err = o.err /\ worker'[e].value = v /\ worker'[e].size = s
  BY <1>3, <1>6 DEF WorkerType
<1>8. worker' \in [Entries -> WorkerType]
  BY <1>2, <1>3, <1>6, <1>7 DEF Types, EnvTypes
<1>9. UNCHANGED <<table, allocated, thr_num, entry, pc, frame, made, errno, readers, writer, known>>
  BY DEF WorkerExec, tableVars, lockVars
<1> QED
  BY <1>1, <1>4, <1>5, <1>6, <1>7, <1>8, <1>9 DEF WorkerOnly, SameFds, Types, TableTypes

(* A new entry: its worker starts, and nothing else is touched. *)
LEMMA LinkShape ==
  ASSUME Account, NEW t \in Threads, Link(t)
  PROVE  \E e \in Entries \ allocated :
           /\ pc[t] = "link" /\ Goto(t, "done") /\ Unlock(t)
           /\ UNCHANGED <<made, outcome, openFds, known>>
           /\ table' = <<e>> \o frame[t].next /\ allocated' = allocated \cup {e}
           /\ thr_num' \in {thr_num, thr_num + 1}
           /\ frame[t].next = table => thr_num' = thr_num + 1
           /\ entry' \in [Entries -> EntryType] /\ entry'[e].thr_fd = frame[t].ret
           /\ entry'[e].full = 0 /\ entry'[e].full2 = 0
           /\ worker' \in [Entries -> WorkerType]
           /\ worker'[e].pc \in IF CreateMayFail THEN {"none", "start", "recv"} ELSE {"start", "recv"}
           /\ \A d \in Entries \ {e} : entry'[d] = entry[d] /\ worker'[d] = worker[d]
           /\ errno' = [errno EXCEPT ![t] = IF call(t) = accept THEN frame[t].thr_errno
                                            ELSE frame[t].func_errno]
           /\ frame' = [frame EXCEPT ![t].next = <<>>]
<1>1. PICK e \in Entries \ allocated,
           at \in (IF call(t) = socket THEN {"start", "recv"} ELSE {"start"})
                 \cup (IF CreateMayFail THEN {"none"} ELSE {}) :
        /\ pc[t] = "link"
        /\ fdtable_add(e, frame[t].next, frame[t].ret, call(t).class)
        /\ worker' = [worker EXCEPT ![e] = [NoWorker EXCEPT !.pc = at]]
  BY DEF Link
<1>2. /\ Unlock(t) /\ Goto(t, "done") /\ UNCHANGED <<made, outcome, openFds, known>>
      /\ errno' = [errno EXCEPT ![t] = IF call(t) = accept THEN frame[t].thr_errno
                                       ELSE frame[t].func_errno]
      /\ frame' = [frame EXCEPT ![t].next = <<>>]
  BY DEF Link, kernelVars
<1>3. at \in WorkerPcs
  BY DEF WorkerPcs
<1>4. /\ worker' \in [Entries -> WorkerType] /\ worker'[e].pc = at
      /\ \A d \in Entries \ {e} : worker'[d] = worker[d]
  BY <1>1, <1>3, InitialRecords DEF Account, Types, EnvTypes, WorkerType
<1>5. call(t).class \in {net, file}
  <2>1. call(t) \in Interposed /\ (call(t) = accept \/ call(t).kind = "create")
    BY <1>1, CallIn DEF Account, Places
  <2> QED
    BY <2>1, WrapperFacts, KindOf
<1> DEFINE n == [NewEntry EXCEPT !.thr_fd = frame[t].ret, !.NetorFile = call(t).class]
<1>6. /\ n \in EntryType /\ n.thr_fd = frame[t].ret
      /\ n.full = NewEntry.full /\ n.full2 = NewEntry.full2
  BY <1>5, FrameFields, InitialRecords DEF EntryType, Account, Types, ThreadTypes
<1>7. n.full = 0 /\ n.full2 = 0
  BY <1>6 DEF NewEntry
<1>8. entry' = [entry EXCEPT ![e] = n]
  BY <1>1 DEF fdtable_add
<1> HIDE DEF n
<1>9. /\ entry' \in [Entries -> EntryType] /\ entry'[e] = n
      /\ \A d \in Entries \ {e} : entry'[d] = entry[d]
  BY <1>6, <1>8 DEF Account, Types, TableTypes
<1>10. /\ table' = <<e>> \o frame[t].next /\ allocated' = allocated \cup {e}
       /\ thr_num' \in {thr_num, thr_num + 1}
       /\ frame[t].next = table => thr_num' = thr_num + 1
  BY <1>1 DEF fdtable_add, Account, Types, TableTypes
<1>11. at \in IF CreateMayFail THEN {"none", "start", "recv"} ELSE {"start", "recv"}
  OBVIOUS
<1> QED
  BY <1>1, <1>2, <1>4, <1>6, <1>7, <1>9, <1>10, <1>11

(* close deletes the entry it has found. *)
LEMMA JoinShape ==
  ASSUME Account, NEW t \in Threads, Join(t)
  PROVE  LET e == frame[t].tmp IN
         /\ pc[t] = "join" /\ Goto(t, "original") /\ Unlock(t) /\ Closing(t)
         /\ UNCHANGED <<made, errno, outcome, openFds, known>>
         /\ e \in Linked /\ e \in Entries /\ worker[e].pc = "exit"
         /\ entry[e].thr_fd = frame[t].fd
         /\ table' = Unlink(e) /\ allocated' = allocated \ {e} /\ thr_num' = thr_num - 1
         /\ entry' \in [Entries -> EntryType] /\ entry'[e] = NewEntry
         /\ worker' \in [Entries -> WorkerType] /\ worker'[e].pc = "none"
         /\ \A d \in Entries \ {e} : entry'[d] = entry[d] /\ worker'[d] = worker[d]
         /\ frame' = [frame EXCEPT ![t].tmp = NULL]
<1> DEFINE e == frame[t].tmp
<1>1. /\ pc[t] = "join" /\ Goto(t, "original") /\ Unlock(t)
      /\ UNCHANGED <<made, errno, outcome, openFds, known>>
      /\ worker[e].pc = "exit" /\ worker' = [worker EXCEPT ![e] = NoWorker]
      /\ frame' = [frame EXCEPT ![t].tmp = NULL] /\ fdtable_delete(frame[t].fd)
  BY DEF Join, kernelVars
<1>2. Closing(t)
  BY <1>1 DEF Account, Places, Closing
<1>3. fdtable_get_by_fd_all(frame[t].fd) = e /\ e \in allocated
  BY <1>1, <1>2 DEF Account, Memory
<1>4. e \in Entries /\ e # NULL
  BY <1>3, NullAssumption DEF Account, Types, TableTypes
<1>5. e \in Linked /\ entry[e].thr_fd = frame[t].fd
  BY <1>3, <1>4, LookupFacts DEF Account, Types, TableTypes
<1>6. /\ table' = Unlink(e) /\ allocated' = allocated \ {e} /\ thr_num' = thr_num - 1
      /\ entry' = [entry EXCEPT ![e] = NewEntry]
  BY <1>1, <1>3, <1>4 DEF fdtable_delete
<1> HIDE DEF e
<1>7. /\ entry' \in [Entries -> EntryType] /\ entry'[e] = NewEntry
      /\ \A d \in Entries \ {e} : entry'[d] = entry[d]
  BY <1>4, <1>6, InitialRecords DEF Account, Types, TableTypes
<1>8. /\ worker' \in [Entries -> WorkerType] /\ worker'[e] = NoWorker
      /\ \A d \in Entries \ {e} : worker'[d] = worker[d]
  BY <1>1, <1>4, InitialRecords DEF Account, Types, EnvTypes
<1>9. NoWorker.pc = "none"
  BY DEF NoWorker
<1> QED
  BY <1>1, <1>2, <1>4, <1>5, <1>6, <1>7, <1>8, <1>9 DEF e
-----------------------------------------------------------------------------
LEMMA QuietFields ==
  ASSUME Types, NEW t \in Threads, Quiet(t), ~Return(t)
  PROVE  /\ frame'[t].call = frame[t].call /\ frame'[t].fd = frame[t].fd
         /\ frame'[t].thr_errno = frame[t].thr_errno
         /\ (frame'[t].tmp = frame[t].tmp \/ ForwardLock(t) \/ CloseLock(t))
         /\ (frame'[t].next = frame[t].next \/ CreateAdd(t) \/ Accepted(t))
         /\ (frame'[t].ret = frame[t].ret \/ CreateOriginal(t) \/ ForwardOriginal(t) \/ CloseOriginal(t))
         /\ (frame'[t].func_errno = frame[t].func_errno \/ CreateOriginal(t))
<1> USE DEF Types, ThreadTypes
<1>1. CASE CreateOriginal(t)
  <2>1. PICK o : frame' = [frame EXCEPT ![t].ret = o.val, ![t].func_errno = AfterCall(o, errno[t])]
    BY <1>1 DEF CreateOriginal
  <2> QED
    BY <1>1, <2>1 DEF FrameType
<1>2. CASE ForwardOriginal(t)
  <2>1. PICK o : frame' = [frame EXCEPT ![t].ret = o.val]
    BY <1>2 DEF ForwardOriginal
  <2> QED
    BY <1>2, <2>1 DEF FrameType
<1>3. CASE CloseOriginal(t)
  <2>1. PICK x : frame' = [frame EXCEPT ![t].ret = x]
    BY <1>3 DEF CloseOriginal
  <2> QED
    BY <1>3, <2>1 DEF FrameType
<1>4. CASE ForwardLock(t) \/ CloseLock(t)
  <2>1. PICK x : frame' = [frame EXCEPT ![t].tmp = x]
    BY <1>4 DEF ForwardLock, CloseLock
  <2> QED
    BY <1>4, <2>1 DEF FrameType
<1>5. CASE CreateAdd(t) \/ Accepted(t)
  <2>1. frame' = frame \/ frame' = [frame EXCEPT ![t].next = table]
    BY <1>5 DEF CreateAdd, Accepted
  <2> QED
    BY <1>5, <2>1 DEF FrameType
<1>6. CASE CreateRefused(t) \/ CreateWithoutEntry(t) \/ ForwardMiss(t) \/ ForwardReturn(t) \/ CloseMiss(t)
  BY <1>6 DEF CreateRefused, CreateWithoutEntry, ForwardMiss, ForwardReturn, CloseMiss
<1> QED
  BY <1>1, <1>2, <1>3, <1>4, <1>5, <1>6 DEF Quiet

(* The other fields of a frame at a step on an entry. *)
LEMMA LinkFields ==
  ASSUME Account, NEW t \in Threads, Link(t)
  PROVE  /\ frame' \in [Threads -> FrameType]
         /\ frame'[t].call = frame[t].call /\ frame'[t].fd = frame[t].fd
         /\ frame'[t].tmp = frame[t].tmp /\ frame'[t].next = <<>>
         /\ frame'[t].ret = frame[t].ret /\ frame'[t].func_errno = frame[t].func_errno
<1> DEFINE x == <<>>
<1>1. frame' = [frame EXCEPT ![t].next = x] /\ x \in Seq(Entries) /\ x = <<>>
  BY DEF Link
<1> HIDE DEF x
<1>2. frame \in [Threads -> FrameType]
  BY DEF Account, Types, ThreadTypes
<1> QED
  BY <1>1, <1>2 DEF FrameType

LEMMA JoinFields ==
  ASSUME Account, NEW t \in Threads, Join(t)
  PROVE  /\ frame' \in [Threads -> FrameType]
         /\ frame'[t].call = frame[t].call /\ frame'[t].fd = frame[t].fd
         /\ frame'[t].tmp = NULL /\ frame'[t].next = frame[t].next
         /\ frame'[t].ret = frame[t].ret /\ frame'[t].func_errno = frame[t].func_errno
<1>1. frame' = [frame EXCEPT ![t].tmp = NULL] /\ frame \in [Threads -> FrameType]
  BY DEF Join, Account, Types, ThreadTypes
<1> QED
  BY <1>1 DEF FrameType

(* A step of one thread leaves the locals and the locks of the others. *)
Alone(t) ==
  \A u \in Threads \ {t} : pc'[u] = pc[u] /\ frame'[u] = frame[u] /\ readers'[u] = readers[u]

LEMMA StepAlone ==
  ASSUME Types, NEW t \in Threads, Enter(t) \/ ThreadStep(t)
  PROVE  Alone(t)
<1> USE DEF Types, ThreadTypes, EnvTypes
<1>1. \A u \in Threads \ {t} : pc'[u] = pc[u]
  BY DEF Enter, ThreadStep, Return, CreateOriginal, CreateRefused, CreateAdd,
         CreateWithoutEntry, ForwardLock, ForwardMiss, ForwardOriginal, Accepted,
         ForwardReturn, CloseLock, CloseMiss, CloseOriginal, Send, Recv, Link, Join, Goto
<1>2. \A u \in Threads \ {t} : frame'[u] = frame[u]
  <2>1. CASE Enter(t) \/ Return(t) \/ CreateOriginal(t) \/ ForwardOriginal(t) \/ CloseOriginal(t)
    BY <2>1 DEF Enter, Return, CreateOriginal, ForwardOriginal, CloseOriginal
  <2>2. CASE UNCHANGED frame
    BY <2>2
  <2>3. CASE CreateAdd(t) \/ Accepted(t) \/ ForwardLock(t) \/ CloseLock(t)
    BY <2>3 DEF CreateAdd, Accepted, ForwardLock, CloseLock
  <2>4. CASE Recv(t) \/ Link(t) \/ Join(t)
    BY <2>4 DEF Recv, Link, Join
  <2> QED
    BY <2>1, <2>2, <2>3, <2>4 DEF ThreadStep, CreateRefused, CreateWithoutEntry,
       ForwardMiss, ForwardReturn, CloseMiss, Send
<1>3. (\E x : readers' = [readers EXCEPT ![t] = x]) \/ readers' = readers
  BY DEF Enter, ThreadStep, Return, CreateOriginal, CreateRefused, CreateAdd,
         CreateWithoutEntry, ForwardLock, ForwardMiss, ForwardOriginal, Accepted,
         ForwardReturn, CloseLock, CloseMiss, CloseOriginal, Send, Recv, Link, Join,
         Acquire, Unlock, lockVars
<1> QED
  BY <1>1, <1>2, <1>3 DEF Alone

LEMMA TypesStep ==
  ASSUME Account, [Next]_vars
  PROVE  Types'
<1> USE DEF Account
<1>1. ASSUME NEW t \in Threads, Enter(t) PROVE Types'
  BY <1>1, EnterTypes
<1>2. ASSUME NEW t \in Threads, Quiet(t) PROVE Types'
  BY <1>2, QuietTypes
<1>3. ASSUME NEW t \in Threads, Send(t) PROVE Types'
  <2>1. /\ entry' \in [Entries -> EntryType] /\ pc' = [pc EXCEPT ![t] = "recv"]
        /\ UNCHANGED <<table, allocated, thr_num, frame, made, errno, outcome>>
        /\ UNCHANGED <<readers, writer, worker, openFds, known>>
    BY <1>3, SendShape DEF Send, Goto, lockVars, kernelVars
  <2> QED
    BY <2>1 DEF Types, TableTypes, ThreadTypes, EnvTypes, Pcs
<1>4. ASSUME NEW t \in Threads, Recv(t) PROVE Types'
  <2>1. /\ entry' \in [Entries -> EntryType] /\ frame' \in [Threads -> FrameType]
        /\ \E to \in {"join", "accepted", "unlock"} : pc' = [pc EXCEPT ![t] = to]
        /\ UNCHANGED <<table, allocated, thr_num, made, errno, outcome>>
        /\ UNCHANGED <<readers, writer, worker, openFds, known>>
    BY <1>4, RecvShape DEF Recv, Goto, lockVars, kernelVars
  <2> QED
    BY <2>1 DEF Types, TableTypes, ThreadTypes, EnvTypes, Pcs
<1>5. ASSUME NEW t \in Threads, Link(t) PROVE Types'
  <2>1. PICK e \in Entries \ allocated :
          /\ Goto(t, "done") /\ Unlock(t)
          /\ UNCHANGED <<made, outcome, openFds, known>>
          /\ table' = <<e>> \o frame[t].next /\ allocated' = allocated \cup {e}
          /\ thr_num' \in {thr_num, thr_num + 1}
          /\ entry' \in [Entries -> EntryType] /\ worker' \in [Entries -> WorkerType]
          /\ errno' = [errno EXCEPT ![t] = IF call(t) = accept THEN frame[t].thr_errno
                                           ELSE frame[t].func_errno]
    BY <1>5, LinkShape
  <2>2. frame[t].next \in Seq(Entries) /\ frame[t].thr_errno \in Int /\ frame[t].func_errno \in Int
    BY FrameFields DEF Types, ThreadTypes
  <2>3. TableTypes'
    BY <2>1, <2>2, ConsFacts DEF Types, TableTypes
  <2>4. ThreadTypes'
    BY <1>5, <2>1, <2>2, LinkFields DEF Types, ThreadTypes, Goto, Pcs
  <2> QED
    BY <2>1, <2>3, <2>4, LockTypes DEF Types, EnvTypes
<1>6. ASSUME NEW t \in Threads, Join(t) PROVE Types'
  <2>1. /\ Goto(t, "original") /\ Unlock(t) /\ frame[t].tmp \in Linked
        /\ UNCHANGED <<made, errno, outcome, openFds, known>>
        /\ table' = Unlink(frame[t].tmp) /\ allocated' = allocated \ {frame[t].tmp}
        /\ thr_num' = thr_num - 1
        /\ entry' \in [Entries -> EntryType] /\ worker' \in [Entries -> WorkerType]
    BY <1>6, JoinShape
  <2>2. TableTypes'
    BY <2>1, UnlinkFacts DEF Types, TableTypes
  <2>3. ThreadTypes'
    BY <1>6, <2>1, JoinFields DEF Types, ThreadTypes, Goto, Pcs
  <2> QED
    BY <2>1, <2>2, <2>3, LockTypes DEF Types, EnvTypes
<1>7. ASSUME NEW e \in Entries, WorkerStep(e) PROVE Types'
  <2>1. WorkerOnly(e)
    BY <1>7, WorkerStartShape, WorkerWalkShape, WorkerRecvShape, WorkerExecShape, WorkerReplyShape,
       WorkerLoopShape DEF WorkerStep
  <2>2. outcome' \in [Threads -> OutcomeType] /\ openFds' \subseteq Fds
    <3>1. CASE WorkerExec(e)
      <4>1. PICK o \in ExecAnswers(worker[e].args.type) :
              /\ openFds' = IF worker[e].args.type = "ACCEPT" /\ o.val >= 0
                            THEN openFds \cup {o.val} ELSE openFds
              /\ outcome' = IF worker[e].args.from = NULL THEN outcome
                            ELSE [outcome EXCEPT ![worker[e].args.from] = o]
        BY <3>1, WorkerExecShape
      <4>2. /\ o \in OutcomeType /\ o.val \in Int
            /\ worker[e].args.type = "ACCEPT" => o.val \in (Fds \ openFds) \cup {-1}
        BY ExecAnswersFacts
      <4>3. openFds' \subseteq Fds
        BY <4>1, <4>2 DEF Types, EnvTypes
      <4>4. worker[e].args.from \in Threads \cup {NULL}
        BY WorkerFields
      <4>5. outcome' \in [Threads -> OutcomeType]
        BY <4>1, <4>2, <4>4 DEF Types, ThreadTypes
      <4> QED
        BY <4>3, <4>5
    <3>2. CASE ~WorkerExec(e)
      <4>1. UNCHANGED <<outcome, openFds>>
        BY <1>7, <3>2, WorkerStartShape, WorkerWalkShape, WorkerRecvShape, WorkerReplyShape,
           WorkerLoopShape DEF WorkerStep
      <4> QED
        BY <4>1 DEF Types, ThreadTypes, EnvTypes
    <3> QED
      BY <3>1, <3>2
  <2> QED
    BY <2>1, <2>2 DEF WorkerOnly, Types, TableTypes, ThreadTypes, EnvTypes
<1>8. CASE UNCHANGED vars
  BY <1>8 DEF vars, tableVars, lockVars, kernelVars, Types, TableTypes, ThreadTypes, EnvTypes
<1> QED
  BY <1>1, <1>2, <1>3, <1>4, <1>5, <1>6, <1>7, <1>8 DEF Next, Finished, ThreadStep, Quiet

(* The places of the wrappers. *)
LEMMA PlacesStep ==
  ASSUME Account, NEW t \in Threads, Enter(t) \/ ThreadStep(t)
  PROVE  Places'
<1> USE DEF Account
<1>1. Alone(t)
  BY StepAlone
<1>2. SUFFICES /\ pc'[t] = "app" => frame'[t] = Idle
               /\ pc'[t] # "app" => frame'[t].call \in Calls[t]
               /\ pc'[t] \in {"send", "recv"} => frame'[t].call.kind \in {"forward", "close"}
               /\ pc'[t] = "unlock" => frame'[t].call.kind = "forward"
               /\ pc'[t] = "accepted" => frame'[t].call = accept
               /\ pc'[t] = "link" => frame'[t].call = accept \/ frame'[t].call.kind = "create"
               /\ pc'[t] = "join" => frame'[t].call.kind = "close"
  BY <1>1 DEF Places, Alone, call
<1> USE DEF Types, ThreadTypes
<1>3. CASE Enter(t)
  <2>1. PICK c \in Calls[t], fd \in known \cup {-1} :
          /\ frame' = [frame EXCEPT ![t] =
               [Idle EXCEPT !.call = c, !.fd = fd,
                            !.func_errno = IF c = accept THEN 0 ELSE errno[t]]]
          /\ Goto(t, IF c.kind = "create" THEN "original" ELSE "lock")
    BY <1>3 DEF Enter
  <2>2. frame'[t].call = c
    BY <2>1, InitialRecords DEF FrameType
  <2> QED
    BY <2>1, <2>2 DEF Goto
<1>4. CASE Return(t)
  BY <1>4 DEF Return, Goto
<1>5. CASE Quiet(t) /\ ~Return(t)
  <2>1. frame'[t].call = frame[t].call
    BY <1>5, QuietFields
  <2>2. CASE pc'[t] \in {"lock", "original", "done"}
    <3>1. pc[t] # "app"
      BY <1>5 DEF Quiet, CreateOriginal, CreateRefused, CreateAdd, CreateWithoutEntry,
        ForwardLock, ForwardMiss, ForwardOriginal, Accepted, ForwardReturn, CloseLock,
        CloseMiss, CloseOriginal, Is
    <3> QED
      BY <2>1, <2>2, <3>1 DEF Places, call
  <2>3. CASE CreateAdd(t) \/ ForwardLock(t) \/ CloseLock(t)
    BY <2>1, <2>3 DEF Places, CreateAdd, ForwardLock, CloseLock, Is, Goto, call
  <2>4. CASE Accepted(t)
    BY <2>1, <2>4, KindOf DEF Places, Accepted, Goto, call
  <2> QED
    BY <1>5, <2>2, <2>3, <2>4 DEF Quiet, CreateOriginal, CreateRefused, CreateWithoutEntry,
       ForwardMiss, ForwardOriginal, ForwardReturn, CloseMiss, CloseOriginal, Goto
<1>6. CASE Send(t)
  BY <1>6 DEF Places, Send, Goto, call
<1>7. CASE Recv(t)
  <2>1. /\ pc[t] = "recv"
        /\ pc' = [pc EXCEPT ![t] = IF frame[t].call.kind = "close" THEN "join"
                                   ELSE IF frame[t].call = accept THEN "accepted" ELSE "unlock"]
    BY <1>7 DEF Recv, Goto, call
  <2>2. frame'[t].call = frame[t].call
    BY <1>7, RecvShape
  <2>3. frame[t].call \in Calls[t] /\ frame[t].call.kind \in {"forward", "close"}
    BY <2>1 DEF Places, call
  <2> QED
    BY <2>1, <2>2, <2>3
<1>8. CASE Link(t)
  <2>1. pc[t] = "link" /\ pc' = [pc EXCEPT ![t] = "done"]
    BY <1>8 DEF Link, Goto
  <2>2. frame'[t].call = frame[t].call
    BY <1>8, LinkFields
  <2> QED
    BY <2>1, <2>2 DEF Places, call
<1>9. CASE Join(t)
  <2>1. pc[t] = "join" /\ pc' = [pc EXCEPT ![t] = "original"]
    BY <1>9 DEF Join, Goto
  <2>2. frame'[t].call = frame[t].call
    BY <1>9, JoinFields
  <2> QED
    BY <2>1, <2>2 DEF Places, call
<1> QED
  BY <1>3, <1>4, <1>5, <1>6, <1>7, <1>8, <1>9 DEF ThreadStep, Quiet

(* table_rwlock. *)
LEMMA Held ==
  ASSUME Account, NEW t \in Threads
  PROVE  /\ Reading(t) => writer = NULL /\ readers[t] >= 1
         /\ Writing(t) => writer = t /\ \A u \in Threads : readers[u] = 0 /\ ~Reading(u)
<1>1. /\ writer # NULL => \A u \in Threads : readers[u] = 0
      /\ \A u \in Threads : /\ readers[u] \in Nat
                            /\ Reading(u) => readers[u] >= 1
                            /\ Writing(u) <=> writer = u
  BY DEF Account, Locks
<1>2. ASSUME Reading(t) PROVE writer = NULL /\ readers[t] >= 1
  BY <1>1, <1>2
<1>3. ASSUME Writing(t) PROVE writer = t /\ \A u \in Threads : readers[u] = 0 /\ ~Reading(u)
  BY <1>1, <1>3, ThreadAssumption
<1> QED
  BY <1>2, <1>3

LEMMA LocksFrom ==
  ASSUME Account, NEW t \in Threads, Alone(t), readers'[t] \in Nat,
         NoEpollCreate => Exact(t)',
         \/ UNCHANGED <<readers, writer>> /\ (Reading(t)' => Reading(t)) /\ (Writing(t)' <=> Writing(t))
         \/ /\ writer = NULL /\ writer' = NULL /\ ~Writing(t)'
            /\ Reading(t)' => readers'[t] >= 1
         \/ /\ writer = NULL /\ writer' = t /\ UNCHANGED readers /\ Writing(t)' /\ ~Reading(t)'
            /\ \A u \in Threads : readers[u] = 0
         \/ /\ writer = t /\ writer' = NULL /\ UNCHANGED readers /\ ~Writing(t)' /\ ~Reading(t)'
  PROVE  Locks'
<1>1. ASSUME NEW u \in Threads \ {t}
      PROVE  /\ Reading(u)' <=> Reading(u)
             /\ Writing(u)' <=> Writing(u)
             /\ readers'[u] = readers[u]
  <2>1. pc'[u] = pc[u] /\ frame'[u] = frame[u] /\ readers'[u] = readers[u]
    BY DEF Alone
  <2> QED
    BY <2>1 DEF Reading, Writing, Closing, call
<1>2. /\ writer # NULL => \A u \in Threads : readers[u] = 0
      /\ \A u \in Threads : /\ readers[u] \in Nat
                            /\ Reading(u) => readers[u] >= 1
                            /\ Writing(u) <=> writer = u
                            /\ NoEpollCreate => Exact(u)
  BY DEF Account, Locks
<1>3. writer' # NULL => \A u \in Threads : readers'[u] = 0
  BY <1>1, <1>2, ThreadAssumption
<1>4. ASSUME NEW u \in Threads
      PROVE  /\ readers'[u] \in Nat
             /\ Reading(u)' => readers'[u] >= 1
             /\ Writing(u)' <=> writer' = u
             /\ NoEpollCreate => Exact(u)'
  <2>1. CASE u = t
    BY <2>1, <1>2, ThreadAssumption
  <2>2. CASE u # t
    <3>1. Exact(u)' <=> Exact(u)
      BY <2>2, <1>1 DEF Exact
    <3> QED
      BY <2>2, <3>1, <1>1, <1>2, ThreadAssumption
  <2> QED
    BY <2>1, <2>2
<1> QED
  BY <1>3, <1>4 DEF Locks

LEMMA LocksStep ==
  ASSUME Account, NEW t \in Threads, Enter(t) \/ ThreadStep(t)
  PROVE  Locks'
<1>1. Alone(t) /\ Types /\ Places /\ readers[t] \in Nat /\ (NoEpollCreate => Exact(t))
  BY StepAlone DEF Account, Locks
<1>2. pc \in [Threads -> Pcs] /\ readers \in [Threads -> Int]
  BY <1>1 DEF Types, ThreadTypes, EnvTypes
<1>3. ASSUME pc[t] # "app"
      PROVE  /\ call(t).kind \in {"forward", "create", "close"}
             /\ call(t).kind = "create" => call(t).lock = IF call(t) = epoll_create THEN "rd" ELSE "wr"
  BY <1>1, <1>3, CallIn, WrapperFacts DEF Places
<1>4. CASE Enter(t) \/ Return(t)
  <2>1. /\ UNCHANGED <<readers, writer>> /\ pc[t] \in {"app", "done"}
        /\ pc'[t] \in {"app", "original", "lock"}
    BY <1>2, <1>4 DEF Enter, Return, Goto, lockVars
  <2> QED
    BY <1>1, <2>1, LocksFrom DEF Exact, Reading, Writing, Closing
<1>5. ASSUME Quiet(t), ~Return(t) PROVE frame'[t].call = frame[t].call
  BY <1>1, <1>5, QuietFields
<1>6. CASE CreateOriginal(t) \/ CreateWithoutEntry(t) \/ ForwardMiss(t) \/ ForwardOriginal(t)
           \/ CloseMiss(t) \/ CloseOriginal(t)
  <2>1. /\ UNCHANGED <<readers, writer>> /\ pc[t] \in {"original", "lock"}
        /\ pc'[t] \in {"original", "done", "lock"}
    BY <1>2, <1>6 DEF CreateOriginal, CreateWithoutEntry, ForwardMiss, ForwardOriginal,
       CloseMiss, CloseOriginal, Is, Goto, lockVars
  <2> QED
    BY <1>1, <2>1, LocksFrom DEF Exact, Reading, Writing, Closing
<1>7. CASE CreateRefused(t)
  <2>1. /\ pc[t] = "lock" /\ pc'[t] = "done" /\ writer = NULL /\ writer' = writer
        /\ readers' = [readers EXCEPT ![t] = @ + 2] \/ readers' = readers
        /\ call(t) # epoll_create => readers' = readers
    BY <1>2, <1>7 DEF CreateRefused, Is, Goto, CanAcquire, CanRdLock, CanWrLock
  <2>2. ~Reading(t)' /\ ~Writing(t)'
    BY <2>1 DEF Reading, Writing, Closing
  <2>3. readers'[t] \in Nat
    BY <1>1, <1>2, <2>1
  <2>4. NoEpollCreate => Exact(t)'
    <3>1. ~Reading(t) /\ call(t) \in Calls[t]
      BY <1>1, <2>1 DEF Reading, Places
    <3> QED
      BY <1>1, <2>1, <2>2, <3>1 DEF NoEpollCreate, Exact
  <2> QED
    BY <1>1, <2>1, <2>2, <2>3, <2>4, LocksFrom
<1>8. CASE CreateAdd(t)
  <2>1. /\ pc[t] = "lock" /\ pc'[t] = "link" /\ call(t).kind = "create"
        /\ CanAcquire(call(t).lock) /\ Acquire(t, call(t).lock)
    BY <1>2, <1>8 DEF CreateAdd, Is, Goto
  <2>2. call(t)' = call(t)
    BY <1>5, <1>8, <2>1 DEF call, Quiet, Return
  <2>3. CASE call(t) = epoll_create
    <3>1. writer = NULL /\ writer' = NULL /\ readers' = [readers EXCEPT ![t] = @ + 1]
      BY <1>3, <2>1, <2>3 DEF CanAcquire, CanRdLock, Acquire
    <3>2. readers'[t] \in Nat /\ readers'[t] >= 1 /\ ~Writing(t)'
      BY <1>1, <1>2, <2>1, <2>2, <2>3, <3>1 DEF Writing, Closing
    <3>3. ~NoEpollCreate
      BY <1>1, <2>1, <2>3 DEF NoEpollCreate, Places
    <3> QED
      BY <1>1, <3>1, <3>2, <3>3, LocksFrom
  <2>4. CASE call(t) # epoll_create
    <3>1. /\ writer = NULL /\ writer' = t /\ UNCHANGED readers
          /\ \A u \in Threads : readers[u] = 0
      BY <1>3, <2>1, <2>4 DEF CanAcquire, CanWrLock, Acquire
    <3>2. Writing(t)' /\ ~Reading(t)'
      BY <2>1, <2>2, <2>4 DEF Reading, Writing, Closing
    <3>3. NoEpollCreate => Exact(t)'
      BY <3>1, <3>2 DEF Exact
    <3> QED
      BY <1>1, <3>1, <3>2, <3>3, LocksFrom
  <2> QED
    BY <2>3, <2>4
<1>9. CASE ForwardLock(t)
  <2>1. /\ pc[t] = "lock" /\ pc'[t] = "send" /\ call(t).kind = "forward"
        /\ writer = NULL /\ writer' = NULL /\ readers' = [readers EXCEPT ![t] = @ + 1]
    BY <1>2, <1>9 DEF ForwardLock, Is, Goto, CanRdLock, Acquire
  <2>2. call(t)' = call(t)
    BY <1>5, <1>9, <2>1 DEF call, Quiet, Return
  <2>3. readers'[t] \in Nat /\ readers'[t] >= 1 /\ ~Writing(t)'
    BY <1>1, <1>2, <2>1, <2>2 DEF Writing, Closing
  <2>4. NoEpollCreate => Exact(t)'
    <3>1. Reading(t)' /\ ~Reading(t)
      BY <2>1, <2>2 DEF Reading
    <3> QED
      BY <1>1, <1>2, <2>1, <3>1 DEF Exact
  <2> QED
    BY <1>1, <2>1, <2>3, <2>4, LocksFrom
<1>10. CASE CloseLock(t)
  <2>1. /\ pc[t] = "lock" /\ pc'[t] = "send" /\ call(t).kind = "close"
        /\ writer = NULL /\ writer' = t /\ UNCHANGED readers
        /\ \A u \in Threads : readers[u] = 0
    BY <1>2, <1>10 DEF CloseLock, Is, Goto, CanWrLock, Acquire
  <2>2. call(t)' = call(t)
    BY <1>5, <1>10, <2>1 DEF call, Quiet, Return
  <2>3. Writing(t)' /\ ~Reading(t)'
    BY <2>1, <2>2 DEF Reading, Writing, Closing
  <2>4. NoEpollCreate => Exact(t)'
    BY <2>1, <2>3 DEF Exact
  <2> QED
    BY <1>1, <2>1, <2>3, <2>4, LocksFrom
<1>11. CASE Accepted(t) \/ Send(t) \/ Recv(t)
  <2>1. UNCHANGED <<readers, writer>>
    BY <1>11 DEF Accepted, Send, Recv, lockVars
  <2>2. call(t)' = call(t)
    BY <1>5, <1>11, RecvShape DEF call, Quiet, Return, Accepted, Send
  <2>3. (Reading(t)' <=> Reading(t)) /\ (Writing(t)' <=> Writing(t))
    <3>1. CASE Accepted(t)
      BY <2>2, <3>1, <1>1, <1>2, KindOf DEF Accepted, Places, Goto, Reading, Writing, Closing
    <3>2. CASE Send(t)
      BY <2>2, <3>2, <1>1, <1>2 DEF Send, Goto, Reading, Writing, Closing
    <3>3. CASE Recv(t)
      <4>1. /\ pc[t] = "recv" /\ call(t).kind \in {"forward", "close"}
            /\ pc'[t] = IF call(t).kind = "close" THEN "join"
                        ELSE IF call(t) = accept THEN "accepted" ELSE "unlock"
        BY <3>3, <1>1, <1>2 DEF Recv, Goto, Places
      <4> QED
        BY <2>2, <4>1, KindOf DEF Reading, Writing, Closing
    <3> QED
      BY <1>11, <3>1, <3>2, <3>3
  <2>4. NoEpollCreate => Exact(t)'
    BY <1>1, <2>1, <2>3 DEF Exact
  <2> QED
    BY <1>1, <2>1, <2>3, <2>4, LocksFrom
<1>12. ASSUME Unlock(t), Reading(t), pc'[t] = "done" PROVE Locks'
  <2>1. writer = NULL /\ readers[t] >= 1
    BY <1>12, Held
  <2>2. writer' = NULL /\ readers' = [readers EXCEPT ![t] = @ - 1]
    BY <1>12, <2>1, ThreadAssumption DEF Unlock
  <2>3. readers'[t] \in Nat /\ ~Writing(t)' /\ ~Reading(t)'
    BY <1>1, <1>2, <1>12, <2>1, <2>2 DEF Writing, Closing, Reading
  <2>4. NoEpollCreate => Exact(t)'
    BY <1>1, <1>2, <1>12, <2>2, <2>3 DEF Exact
  <2> QED
    BY <1>1, <2>1, <2>2, <2>3, <2>4, LocksFrom
<1>13. ASSUME Unlock(t), Writing(t), pc'[t] \in {"done", "original"} PROVE Locks'
  <2>1. writer = t /\ writer' = NULL /\ UNCHANGED readers
    BY <1>13, Held DEF Unlock
  <2>2. ~Writing(t)' /\ ~Reading(t)'
    BY <1>13 DEF Writing, Closing, Reading
  <2>3. NoEpollCreate => Exact(t)'
    BY <1>13, <2>1, <2>2, Held DEF Exact
  <2> QED
    BY <1>1, <2>1, <2>2, <2>3, LocksFrom
<1>14. CASE ForwardReturn(t)
  <2>1. Unlock(t) /\ pc[t] = "unlock" /\ pc'[t] = "done"
    BY <1>2, <1>14 DEF ForwardReturn, Goto
  <2> QED
    BY <1>1, <1>12, <2>1 DEF Places, Reading
<1>15. CASE Link(t)
  <2>1. Unlock(t) /\ pc[t] = "link" /\ pc'[t] = "done"
    BY <1>2, <1>15 DEF Link, Goto
  <2>2. Reading(t) \/ Writing(t)
    BY <1>1, <2>1, KindOf DEF Places, Reading, Writing, Closing
  <2> QED
    BY <1>12, <1>13, <2>1, <2>2
<1>16. CASE Join(t)
  <2>1. Unlock(t) /\ Closing(t) /\ pc'[t] = "original"
    BY <1>2, <1>16, JoinShape DEF Goto
  <2> QED
    BY <1>13, <2>1 DEF Writing
<1> QED
  BY <1>4, <1>6, <1>7, <1>8, <1>9, <1>10, <1>11, <1>14, <1>15, <1>16 DEF ThreadStep

(* The entries in use.  MemoryOf(t) is what Memory says of thread t. *)
MemoryOf(t) ==
  /\ pc[t] = "link" => RangeOf(frame[t].next) \subseteq allocated /\ Distinct(frame[t].next)
  /\ pc[t] \in {"send", "recv", "accepted", "unlock", "join"} => frame[t].tmp \in allocated
  /\ frame[t].tmp # NULL /\ pc[t] \notin {"original", "done"} => frame[t].tmp \in allocated
  /\ pc[t] = "lock" \/ call(t).kind = "create" => frame[t].tmp = NULL
  /\ Closing(t) => fdtable_get_by_fd_all(frame[t].fd) = frame[t].tmp

LEMMA MemoryParts ==
  Memory <=> /\ Linked \subseteq allocated /\ Distinct(table)
             /\ \A t \in Threads : MemoryOf(t)
             /\ \A e \in Entries : worker[e].pc \notin {"none", "exit"} => e \in allocated
BY DEF Memory, MemoryOf

(* What one thread looks at stays when the list, the descriptors and what   *)
(* is allocated stay.                                                       *)
LEMMA MemoryKept ==
  ASSUME Types, NEW u \in Threads, MemoryOf(u),
         UNCHANGED <<table, allocated>>, SameFds,
         pc'[u] = pc[u], frame'[u] = frame[u]
  PROVE  MemoryOf(u)'
<1>1. fdtable_get_by_fd_all(frame[u].fd)' = fdtable_get_by_fd_all(frame[u].fd)
  BY LookupKept DEF Types, TableTypes, SameFds
<1>2. Closing(u)' <=> Closing(u)
  BY DEF Closing, call
<1> QED
  BY <1>1, <1>2 DEF MemoryOf, call

LEMMA QuietMemory ==
  ASSUME Account, NEW t \in Threads, Enter(t) \/ Quiet(t)
  PROVE  Memory'
<1>1. /\ UNCHANGED <<table, allocated, entry, worker>> /\ SameFds /\ Alone(t)
      /\ Types /\ Places /\ pc \in [Threads -> Pcs]
  BY QuietKeeps, StepAlone DEF Enter, SameFds, tableVars, Account, ThreadStep, Quiet, Types, ThreadTypes
<1>2. /\ Linked \subseteq allocated /\ Distinct(table) /\ \A u \in Threads : MemoryOf(u)
      /\ \A e \in Entries : worker[e].pc \notin {"none", "exit"} => e \in allocated
  BY MemoryParts DEF Account
<1>3. \A u \in Threads \ {t} : MemoryOf(u)'
  BY <1>1, <1>2, MemoryKept DEF Alone
<1>4. SUFFICES MemoryOf(t)'
  <2>1. Linked' \subseteq allocated' /\ Distinct(table)'
    BY <1>1, <1>2 DEF Linked, Distinct
  <2> QED
    BY <1>1, <1>2, <1>3, <2>1, MemoryParts DEF Memory, MemoryOf
<1>5. CASE Enter(t)
  <2>1. PICK c \in Calls[t], fd \in known \cup {-1} :
          /\ frame' = [frame EXCEPT ![t] =
               [Idle EXCEPT !.call = c, !.fd = fd,
                            !.func_errno = IF c = accept THEN 0 ELSE errno[t]]]
          /\ Goto(t, IF c.kind = "create" THEN "original" ELSE "lock")
    BY <1>5 DEF Enter
  <2>2. frame'[t].tmp = Idle.tmp
    BY <2>1, <1>1, InitialRecords DEF FrameType, Types, ThreadTypes
  <2>3. frame'[t].tmp = NULL /\ pc'[t] \in {"original", "lock"}
    BY <2>1, <2>2, <1>1 DEF Idle, Goto
  <2> QED
    BY <2>3 DEF MemoryOf, Closing
<1>6. CASE Return(t)
  <2>1. frame'[t] = Idle /\ pc'[t] = "app"
    BY <1>1, <1>6 DEF Return, Goto, Types, ThreadTypes
  <2>2. Idle.tmp = NULL
    BY DEF Idle
  <2> QED
    BY <2>1, <2>2 DEF MemoryOf, Closing
<1>7. ASSUME Quiet(t), ~Return(t) PROVE frame'[t].call = frame[t].call /\ frame'[t].fd = frame[t].fd
  BY <1>1, <1>7, QuietFields
<1>8. CASE CreateOriginal(t) \/ CreateRefused(t) \/ CreateWithoutEntry(t) \/ ForwardMiss(t)
           \/ ForwardOriginal(t) \/ ForwardReturn(t) \/ CloseMiss(t) \/ CloseOriginal(t)
  <2>1. /\ pc[t] # "done" /\ pc'[t] \in {"original", "done", "lock"}
        /\ pc'[t] = "lock" => call(t).kind = "create"
    BY <1>1, <1>8 DEF CreateOriginal, CreateRefused, CreateWithoutEntry, ForwardMiss,
       ForwardOriginal, ForwardReturn, CloseMiss, CloseOriginal, Is, Goto
  <2>2. Quiet(t) /\ ~Return(t)
    BY <1>8, <2>1 DEF Quiet, Return
  <2>3. frame'[t].tmp = frame[t].tmp
    <3>1. ~ForwardLock(t) /\ ~CloseLock(t)
      BY <2>1, <1>1 DEF ForwardLock, CloseLock, Goto
    <3> QED
      BY <1>1, <2>2, <3>1, QuietFields
  <2>4. MemoryOf(t) /\ frame'[t].call = frame[t].call
    BY <1>2, <1>7, <2>2
  <2> QED
    BY <2>1, <2>3, <2>4 DEF MemoryOf, Closing, call
<1>9. CASE CreateAdd(t) \/ Accepted(t)
  <2>1. Quiet(t) /\ ~Return(t) /\ ~ForwardLock(t) /\ ~CloseLock(t)
    BY <1>1, <1>9 DEF Quiet, Return, CreateAdd, Accepted, ForwardLock, CloseLock, Is
  <2>2. /\ frame'[t].tmp = frame[t].tmp /\ frame'[t].call = frame[t].call /\ MemoryOf(t)
    BY <1>1, <1>2, <2>1, QuietFields
  <2>3. frame'[t].next = table \/ pc'[t] = "unlock"
    BY <1>1, <1>9 DEF CreateAdd, Accepted, FrameType, Types, ThreadTypes, Goto
  <2>4. RangeOf(table) = Linked
    BY DEF RangeOf, Linked
  <2>5. CASE CreateAdd(t)
    <3>1. pc'[t] = "link" /\ call(t).kind = "create"
      BY <1>1, <2>5 DEF CreateAdd, Is, Goto
    <3> QED
      BY <1>1, <1>2, <2>2, <2>3, <2>4, <3>1 DEF MemoryOf, Closing, call
  <2>6. CASE Accepted(t)
    <3>1. pc'[t] \in {"link", "unlock"} /\ pc[t] = "accepted" /\ call(t).kind = "forward"
      BY <1>1, <2>6, KindOf DEF Accepted, Goto, Places
    <3> QED
      BY <1>1, <1>2, <2>2, <2>3, <2>4, <3>1 DEF MemoryOf, Closing, call
  <2> QED
    BY <1>9, <2>5, <2>6
<1>10. CASE ForwardLock(t)
  <2> DEFINE e == fdtable_get_by_fd(frame[t].fd, call(t).class)
  <2>1. /\ pc'[t] = "send" /\ pc[t] = "lock" /\ call(t).kind = "forward"
        /\ frame'[t].tmp = e /\ e # NULL
    BY <1>1, <1>10 DEF ForwardLock, Is, Goto, FrameType, Types, ThreadTypes
  <2>2. frame'[t].call = frame[t].call
    BY <1>7, <1>10, <2>1 DEF Quiet, Return
  <2>3. e \in allocated
    BY <1>1, <1>2, <2>1, LookupFacts DEF Types, TableTypes
  <2> HIDE DEF e
  <2> QED
    BY <1>1, <2>1, <2>2, <2>3 DEF MemoryOf, Closing, call
<1>11. CASE CloseLock(t)
  <2> DEFINE e == fdtable_get_by_fd_all(frame[t].fd)
  <2>1. /\ pc'[t] = "send" /\ pc[t] = "lock" /\ call(t).kind = "close"
        /\ frame'[t].tmp = e /\ e # NULL
    BY <1>1, <1>11 DEF CloseLock, Is, Goto, FrameType, Types, ThreadTypes
  <2>2. frame'[t].call = frame[t].call /\ frame'[t].fd = frame[t].fd
    BY <1>7, <1>11, <2>1 DEF Quiet, Return
  <2>3. e \in allocated
    BY <1>1, <1>2, <2>1, LookupFacts DEF Types, TableTypes
  <2>4. fdtable_get_by_fd_all(frame[t].fd)' = e
    BY <1>1, <2>2, LookupKept DEF Types, TableTypes
  <2> HIDE DEF e
  <2> QED
    BY <1>1, <2>1, <2>2, <2>3, <2>4 DEF MemoryOf, Closing, call
<1> QED
  BY <1>5, <1>6, <1>8, <1>9, <1>10, <1>11 DEF Quiet

LEMMA ChannelMemory ==
  ASSUME Account, NEW t \in Threads, Send(t) \/ Recv(t)
  PROVE  Memory'
<1>1. /\ UNCHANGED <<table, allocated, worker>> /\ SameFds /\ Alone(t) /\ Types /\ Places
      /\ pc \in [Threads -> Pcs]
  BY SendShape, RecvShape, StepAlone DEF Send, Recv, ThreadStep, Account, Types, ThreadTypes
<1>2. /\ Linked \subseteq allocated /\ Distinct(table) /\ \A u \in Threads : MemoryOf(u)
      /\ \A e \in Entries : worker[e].pc \notin {"none", "exit"} => e \in allocated
  BY MemoryParts DEF Account
<1>3. \A u \in Threads \ {t} : MemoryOf(u)'
  BY <1>1, <1>2, MemoryKept DEF Alone
<1>4. SUFFICES MemoryOf(t)'
  <2>1. Linked' \subseteq allocated' /\ Distinct(table)'
    BY <1>1, <1>2 DEF Linked, Distinct
  <2> QED
    BY <1>1, <1>2, <1>3, <2>1, MemoryParts DEF Memory, MemoryOf
<1>5. /\ frame'[t].call = frame[t].call /\ frame'[t].tmp = frame[t].tmp
      /\ frame'[t].fd = frame[t].fd
  BY RecvShape DEF Send
<1>6. fdtable_get_by_fd_all(frame[t].fd)' = fdtable_get_by_fd_all(frame[t].fd)
  BY <1>1, <1>5, LookupKept DEF Types, TableTypes, SameFds
<1>7. /\ pc[t] \in {"send", "recv"} /\ pc'[t] \in {"recv", "join", "accepted", "unlock"}
      /\ call(t).kind # "create" /\ (pc'[t] \in {"recv", "join"} \/ call(t).kind # "close")
  BY <1>1 DEF Send, Recv, Goto, Places
<1> QED
  BY <1>1, <1>2, <1>5, <1>6, <1>7 DEF MemoryOf, Closing, call

LEMMA WorkerMemory ==
  ASSUME Account, NEW e \in Entries, WorkerOnly(e)
  PROVE  Memory'
<1>1. /\ Linked \subseteq allocated /\ Distinct(table) /\ \A u \in Threads : MemoryOf(u)
      /\ \A d \in Entries : worker[d].pc \notin {"none", "exit"} => d \in allocated
  BY MemoryParts DEF Account
<1>2. UNCHANGED <<table, allocated, pc, frame>> /\ SameFds
  BY DEF WorkerOnly
<1>3. \A u \in Threads : MemoryOf(u)'
  BY <1>1, <1>2, MemoryKept DEF Account
<1>4. Linked' \subseteq allocated' /\ Distinct(table)'
  BY <1>1, <1>2 DEF Linked, Distinct
<1>5. \A d \in Entries : worker'[d].pc \notin {"none", "exit"} => d \in allocated'
  BY <1>1, <1>2 DEF WorkerOnly
<1> QED
  BY <1>3, <1>4, <1>5 DEF Memory, MemoryOf

LEMMA LinkMemory ==
  ASSUME Account, NEW t \in Threads, Link(t)
  PROVE  Memory'
<1>1. PICK e \in Entries \ allocated :
        /\ pc[t] = "link" /\ Goto(t, "done")
        /\ table' = <<e>> \o frame[t].next /\ allocated' = allocated \cup {e}
        /\ \A d \in Entries \ {e} : entry'[d] = entry[d] /\ worker'[d] = worker[d]
  BY LinkShape
<1>2. /\ Linked \subseteq allocated /\ Distinct(table) /\ \A u \in Threads : MemoryOf(u)
      /\ \A d \in Entries : worker[d].pc \notin {"none", "exit"} => d \in allocated
  BY MemoryParts DEF Account
<1>3. /\ Alone(t) /\ Types /\ Places /\ pc \in [Threads -> Pcs]
      /\ frame[t].next \in Seq(Entries)
  BY StepAlone, FrameFields DEF ThreadStep, Account, Types, ThreadTypes
<1>4. Linked' = {e} \cup RangeOf(frame[t].next) /\ Distinct(table')
  <2>1. RangeOf(frame[t].next) \subseteq allocated /\ Distinct(frame[t].next)
    BY <1>1, <1>2 DEF MemoryOf
  <2>2. RangeOf(table') = {e} \cup RangeOf(frame[t].next) /\ Distinct(table')
    BY <1>1, <1>3, <2>1, ConsFacts
  <2> QED
    BY <2>2 DEF Linked, RangeOf
<1>5. Linked' \subseteq allocated'
  BY <1>1, <1>2, <1>4 DEF MemoryOf
<1>6. \A d \in Entries : worker'[d].pc \notin {"none", "exit"} => d \in allocated'
  BY <1>1, <1>2
<1>7. \A u \in Threads \ {t} : ~Closing(u)
  <2>1. Reading(t) \/ Writing(t)
    BY <1>1, <1>3, KindOf DEF Places, Reading, Writing
  <2>2. writer \in {NULL, t}
    BY <2>1, Held
  <2> QED
    BY <2>2, Held, ThreadAssumption DEF Writing
<1>8. ASSUME NEW u \in Threads \ {t} PROVE MemoryOf(u)'
  <2>1. pc'[u] = pc[u] /\ frame'[u] = frame[u] /\ MemoryOf(u) /\ ~Closing(u)
    BY <1>2, <1>3, <1>7 DEF Alone
  <2> QED
    BY <1>1, <2>1 DEF MemoryOf, Closing, call
<1>9. MemoryOf(t)'
  <2>1. /\ pc'[t] = "done" /\ frame'[t].call = frame[t].call /\ frame'[t].tmp = frame[t].tmp
    BY <1>1, <1>3, LinkFields DEF Goto
  <2> QED
    BY <1>2, <2>1 DEF MemoryOf, Closing, call
<1> QED
  BY <1>4, <1>5, <1>6, <1>8, <1>9 DEF Memory, MemoryOf, Distinct

LEMMA JoinMemory ==
  ASSUME Account, NEW t \in Threads, Join(t)
  PROVE  Memory'
<1> DEFINE e == frame[t].tmp
<1>1. /\ pc[t] = "join" /\ Goto(t, "original") /\ Closing(t)
      /\ e \in Linked /\ e \in Entries
      /\ table' = Unlink(e) /\ allocated' = allocated \ {e}
      /\ worker'[e].pc = "none"
      /\ \A d \in Entries \ {e} : entry'[d] = entry[d] /\ worker'[d] = worker[d]
  BY JoinShape
<1>2. /\ Linked \subseteq allocated /\ Distinct(table) /\ \A u \in Threads : MemoryOf(u)
      /\ \A d \in Entries : worker[d].pc \notin {"none", "exit"} => d \in allocated
  BY MemoryParts DEF Account
<1>3. Alone(t) /\ Types /\ Places /\ pc \in [Threads -> Pcs]
  BY StepAlone DEF ThreadStep, Account, Types, ThreadTypes
<1> HIDE DEF e
<1>4. Linked' = Linked \ {e} /\ Distinct(table')
  <2>1. RangeOf(table') = Linked \ {e} /\ Distinct(table')
    BY <1>1, <1>2, <1>3, UnlinkFacts DEF Types, TableTypes
  <2> QED
    BY <2>1 DEF Linked, RangeOf
<1>5. Linked' \subseteq allocated'
  BY <1>1, <1>2, <1>4
<1>6. \A d \in Entries : worker'[d].pc \notin {"none", "exit"} => d \in allocated'
  BY <1>1, <1>2
<1>7. ASSUME NEW u \in Threads \ {t} PROVE MemoryOf(u)'
  <2>1. pc'[u] = pc[u] /\ frame'[u] = frame[u] /\ MemoryOf(u)
    BY <1>2, <1>3 DEF Alone
  <2>2. ~Reading(u) /\ ~Writing(u)
    BY <1>1, Held DEF Writing
  <2>3. pc[u] \in {"app", "lock", "original", "done"}
    <3>1. pc[u] # "app" => call(u) \in Interposed
      BY <1>3, CallIn DEF Places
    <3>2. pc[u] # "app" => call(u).kind \in {"forward", "create", "close"}
      BY <3>1, WrapperFacts
    <3> QED
      BY <1>3, <2>2, <3>2, KindOf DEF Places, Reading, Writing, Closing, Pcs
  <2>4. pc[u] \in {"app", "lock"} => frame[u].tmp = NULL
    <3>1. Idle.tmp = NULL
      BY DEF Idle
    <3> QED
      BY <1>3, <2>1, <3>1 DEF Places, MemoryOf
  <2> QED
    BY <2>1, <2>3, <2>4 DEF MemoryOf, Closing, call
<1>8. MemoryOf(t)'
  <2>1. pc'[t] = "original" /\ frame'[t].tmp = NULL
    BY <1>1, <1>3, JoinFields DEF Goto
  <2> QED
    BY <2>1 DEF MemoryOf, Closing
<1> QED
  BY <1>4, <1>5, <1>6, <1>7, <1>8 DEF Memory, MemoryOf, Distinct
-----------------------------------------------------------------------------
LEMMA InitAccount == Init => Account
<1> SUFFICES ASSUME Init PROVE Account
  OBVIOUS
<1>1. Types
  BY InitTypes
<1>2. \A t \in Threads : pc[t] = "app" /\ frame[t] = Idle /\ readers[t] = 0 /\ writer = NULL
  BY DEF Init
<1>3. Places
  BY <1>2 DEF Places
<1>4. Locks
  BY <1>2, ThreadAssumption DEF Locks, Exact, Reading, Writing, Closing, Init
<1>5. table = <<>> /\ \A e \in Entries : worker[e].pc = "none"
  BY DEF Init, fdtable_init, NoWorker
<1>6. Linked = {} /\ Distinct(table)
  BY <1>5 DEF Linked, Distinct
<1>7. Idle.tmp = NULL
  BY DEF Idle
<1>8. Memory
  BY <1>2, <1>5, <1>6, <1>7 DEF Memory, Closing
<1> QED
  BY <1>1, <1>3, <1>4, <1>8 DEF Account

LEMMA AccountStep == Account /\ [Next]_vars => Account'
<1> SUFFICES ASSUME Account, [Next]_vars PROVE Account'
  OBVIOUS
<1>1. Types'
  BY TypesStep
<1>2. ASSUME NEW t \in Threads, Enter(t) \/ ThreadStep(t) PROVE Places' /\ Locks' /\ Memory'
  <2>1. Places' /\ Locks'
    BY <1>2, PlacesStep, LocksStep
  <2>2. Memory'
    BY <1>2, QuietMemory, ChannelMemory, LinkMemory, JoinMemory DEF ThreadStep, Quiet
  <2> QED
    BY <2>1, <2>2
<1>3. ASSUME NEW e \in Entries, WorkerStep(e) PROVE Places' /\ Locks' /\ Memory'
  <2>1. WorkerOnly(e)
    BY <1>3, WorkerStartShape, WorkerWalkShape, WorkerRecvShape, WorkerExecShape, WorkerReplyShape,
       WorkerLoopShape DEF WorkerStep, Account
  <2>2. Memory'
    BY <2>1, WorkerMemory
  <2>3. Places' /\ Locks'
    BY <2>1 DEF WorkerOnly, Account, Places, Locks, Exact, Reading, Writing, Closing, call
  <2> QED
    BY <2>2, <2>3
<1>4. CASE UNCHANGED vars
  <2>1. UNCHANGED <<table, allocated, entry, pc, frame, readers, writer, worker>>
    BY <1>4 DEF vars, tableVars, lockVars
  <2>2. Places' /\ Locks'
    BY <2>1 DEF Account, Places, Locks, Exact, Reading, Writing, Closing, call
  <2>3. /\ Linked \subseteq allocated /\ Distinct(table) /\ \A u \in Threads : MemoryOf(u)
        /\ \A d \in Entries : worker[d].pc \notin {"none", "exit"} => d \in allocated
    BY MemoryParts DEF Account
  <2>4. \A u \in Threads : MemoryOf(u)'
    BY <2>1, <2>3, MemoryKept DEF Account, SameFds
  <2>5. Memory'
    <3>1. Linked' \subseteq allocated' /\ Distinct(table')
      BY <2>1, <2>3 DEF Linked
    <3>2. \A d \in Entries : worker'[d].pc \notin {"none", "exit"} => d \in allocated'
      BY <2>1, <2>3
    <3> QED
      BY <2>4, <3>1, <3>2 DEF Memory, MemoryOf, Distinct
  <2> QED
    BY <1>1, <2>2, <2>5 DEF Account
<1> QED
  BY <1>1, <1>2, <1>3, <1>4 DEF Next, Finished, Account

(* fdtable_delete (fdtable.c l.176) frees no entry that is in use: none     *)
(* that a wrapper has looked up, and none whose worker lives, also while it *)
(* still searches for its entry.  It says nothing of the other nodes that   *)
(* search passes (SearchFindsItself).  Nothing is assumed of how the        *)
(* application uses its descriptors, of what fails or of how many threads   *)
(* accept.                                                                  *)
THEOREM NothingFreedInUse == Spec => []NoUseAfterFree
<1>1. Account => NoUseAfterFree
  BY DEF Account, Memory, NoUseAfterFree
<1> QED
  BY InitAccount, AccountStep, <1>1, PTL DEF Spec

(* A wrapper that returns has given table_rwlock back (l.1592), in a program *)
(* that does not call epoll_create.                                         *)
THEOREM LockGivenBack == ASSUME NoEpollCreate PROVE Spec => []LockReleased
<1>1. Account => LockReleased
  <2> SUFFICES ASSUME Account, NEW t \in Threads, pc[t] \in {"app", "done"}
               PROVE  readers[t] = 0 /\ writer # t
    BY DEF LockReleased
  <2>1. ~Reading(t) /\ ~Writing(t)
    BY DEF Reading, Writing, Closing
  <2> QED
    BY <2>1 DEF Account, Locks, Exact
<1> QED
  BY InitAccount, AccountStep, <1>1, PTL DEF Spec

-----------------------------------------------------------------------------
(* The list when additions do not overlap: of the wrappers that add an       *)
(* entry under the read lock, accept and epoll_create, only one thread calls *)
(* any.                                                                      *)
Adds(t) == accept \in Calls[t] \/ epoll_create \in Calls[t]
OneAdder == \A t, u \in Threads : Adds(t) /\ Adds(u) => t = u

(* Nothing is lost between the two halves of fdtable_add. *)
Chain ==
  /\ allocated = Linked /\ thr_num = Len(table)
  /\ \A t \in Threads : pc[t] = "link" => frame[t].next = table

LEMMA LinkLocked ==
  ASSUME Account, NEW t \in Threads, pc[t] = "link"
  PROVE  (Reading(t) /\ Adds(t)) \/ Writing(t)
<1>1. call(t) \in Calls[t] /\ (call(t) = accept \/ call(t).kind = "create")
  BY DEF Account, Places
<1> QED
  BY <1>1, KindOf DEF Reading, Writing, Adds

(* A thread is in the second half of fdtable_add alone, and not while        *)
(* another deletes.                                                          *)
LEMMA LinkAlone ==
  ASSUME OneAdder, Account, NEW t \in Threads, NEW u \in Threads,
         pc[t] = "link", pc[u] = "link" \/ Closing(u)
  PROVE  t = u
<1>1. (Reading(t) /\ Adds(t)) \/ Writing(t)
  BY LinkLocked
<1>2. (Reading(u) /\ Adds(u)) \/ Writing(u)
  BY LinkLocked DEF Writing
<1>3. CASE Writing(t) \/ Writing(u)
  BY <1>1, <1>2, <1>3, Held
<1> QED
  BY <1>1, <1>2, <1>3 DEF OneAdder

LEMMA LinkList ==
  ASSUME Account, NEW t \in Threads, Link(t)
  PROVE  \E e \in Entries \ allocated :
           /\ pc[t] = "link" /\ pc'[t] = "done"
           /\ Linked' = {e} \cup RangeOf(frame[t].next) /\ Len(table') = Len(frame[t].next) + 1
           /\ allocated' = allocated \cup {e} /\ thr_num' \in {thr_num, thr_num + 1}
           /\ frame[t].next = table => thr_num' = thr_num + 1
           /\ entry'[e].thr_fd = frame[t].ret /\ entry'[e].full = 0
           /\ worker'[e].pc \in IF CreateMayFail THEN {"none", "start", "recv"} ELSE {"start", "recv"}
           /\ \A d \in Entries \ {e} : entry'[d] = entry[d] /\ worker'[d] = worker[d]
<1>1. PICK e \in Entries \ allocated :
           /\ pc[t] = "link" /\ Goto(t, "done")
           /\ table' = <<e>> \o frame[t].next /\ allocated' = allocated \cup {e}
           /\ thr_num' \in {thr_num, thr_num + 1}
           /\ frame[t].next = table => thr_num' = thr_num + 1
           /\ entry'[e].thr_fd = frame[t].ret /\ entry'[e].full = 0
           /\ worker'[e].pc \in IF CreateMayFail THEN {"none", "start", "recv"} ELSE {"start", "recv"}
           /\ \A d \in Entries \ {e} : entry'[d] = entry[d] /\ worker'[d] = worker[d]
  BY LinkShape
<1>2. frame[t].next \in Seq(Entries) /\ pc'[t] = "done"
  BY <1>1, FrameFields DEF Account, Types, ThreadTypes, Goto
<1>3. RangeOf(table') = {e} \cup RangeOf(frame[t].next) /\ Len(table') = Len(frame[t].next) + 1
  BY <1>1, <1>2, ConsFacts
<1> QED
  BY <1>1, <1>2, <1>3 DEF Linked, RangeOf

LEMMA JoinList ==
  ASSUME Account, NEW t \in Threads, Join(t)
  PROVE  /\ Linked' = Linked \ {frame[t].tmp} /\ Len(table') = Len(table) - 1
         /\ allocated' = allocated \ {frame[t].tmp} /\ thr_num' = thr_num - 1
         /\ pc'[t] = "original" /\ Closing(t)
<1>1. PICK e \in Linked : e = frame[t].tmp
  BY JoinShape
<1>2. /\ table' = Unlink(e) /\ allocated' = allocated \ {e} /\ thr_num' = thr_num - 1
      /\ Closing(t) /\ Goto(t, "original")
  BY <1>1, JoinShape
<1>3. table \in Seq(Entries) /\ Distinct(table)
  BY MemoryParts DEF Account, Types, TableTypes
<1>4. RangeOf(table') = Linked \ {e} /\ Len(table') = Len(table) - 1
  BY <1>2, <1>3, UnlinkFacts
<1> QED
  BY <1>1, <1>2, <1>4 DEF Linked, RangeOf, Goto, Account, Types, ThreadTypes

(* Where the second half is entered and left. *)
LEMMA LinkEntered ==
  ASSUME Account, NEW t \in Threads, Enter(t) \/ ThreadStep(t)
  PROVE  /\ pc'[t] = "link" => (CreateAdd(t) \/ Accepted(t)) /\ frame'[t].next = table
         /\ pc[t] = "link" => Link(t)
<1>1. pc'[t] = "link" => CreateAdd(t) \/ Accepted(t)
  BY DEF Account, Types, ThreadTypes, Enter, ThreadStep, Return, CreateOriginal, CreateRefused,
         CreateWithoutEntry, ForwardLock, ForwardMiss, ForwardOriginal,
         ForwardReturn, CloseLock, CloseMiss, CloseOriginal, Send, Recv, Link, Join, Goto
<1>2. pc[t] = "link" => Link(t)
  BY DEF Enter, ThreadStep, Return, CreateOriginal, CreateRefused, CreateAdd,
         CreateWithoutEntry, ForwardLock, ForwardMiss, ForwardOriginal, Accepted,
         ForwardReturn, CloseLock, CloseMiss, CloseOriginal, Send, Recv, Join, Is
<1>3. pc'[t] = "link" => frame'[t].next = table
  <2>1. CASE CreateAdd(t)
    BY <2>1 DEF CreateAdd, Account, Types, ThreadTypes, FrameType
  <2>2. CASE Accepted(t)
    BY <2>2 DEF Accepted, Goto, Account, Types, ThreadTypes, FrameType
  <2> QED
    BY <1>1, <2>1, <2>2
<1> QED
  BY <1>1, <1>2, <1>3

LEMMA ChainStep ==
  ASSUME OneAdder PROVE Account /\ Chain /\ [Next]_vars => Chain'
<1> SUFFICES ASSUME Account, Chain, [Next]_vars PROVE Chain'
  OBVIOUS
<1>1. /\ allocated = Linked /\ thr_num = Len(table) /\ table \in Seq(Entries)
      /\ \A t \in Threads : pc[t] = "link" => frame[t].next = table
  BY DEF Chain, Account, Types, TableTypes
<1>2. ASSUME UNCHANGED <<table, allocated, thr_num>>,
             \A u \in Threads : pc'[u] = "link" => frame'[u].next = table
      PROVE  Chain'
  BY <1>1, <1>2 DEF Chain, Linked
<1>3. ASSUME NEW t \in Threads, Enter(t) \/ ThreadStep(t), ~Link(t), ~Join(t) PROVE Chain'
  <2>1. UNCHANGED <<table, allocated, thr_num>>
    BY <1>3, QuietKeeps DEF Enter, Send, Recv, ThreadStep, Quiet, tableVars
  <2>2. \A u \in Threads : pc'[u] = "link" => frame'[u].next = table
    BY <1>1, <1>3, StepAlone, LinkEntered DEF Alone, Account
  <2> QED
    BY <1>2, <2>1, <2>2
<1>4. ASSUME NEW t \in Threads, Link(t) PROVE Chain'
  <2>1. PICK e \in Entries \ allocated :
          /\ pc[t] = "link" /\ pc'[t] = "done"
          /\ Linked' = {e} \cup RangeOf(frame[t].next) /\ Len(table') = Len(frame[t].next) + 1
          /\ allocated' = allocated \cup {e}
          /\ frame[t].next = table => thr_num' = thr_num + 1
    BY <1>4, LinkList
  <2>2. \A u \in Threads \ {t} : pc[u] # "link" /\ pc'[u] = pc[u]
    BY <1>4, <2>1, LinkAlone, StepAlone DEF Alone, ThreadStep, Account
  <2>3. frame[t].next = table /\ RangeOf(frame[t].next) = Linked
    BY <1>1, <2>1 DEF RangeOf, Linked
  <2> QED
    BY <1>1, <2>1, <2>2, <2>3 DEF Chain
<1>5. ASSUME NEW t \in Threads, Join(t) PROVE Chain'
  <2>1. /\ Linked' = Linked \ {frame[t].tmp} /\ Len(table') = Len(table) - 1
        /\ allocated' = allocated \ {frame[t].tmp} /\ thr_num' = thr_num - 1
        /\ pc'[t] = "original" /\ Closing(t)
    BY <1>5, JoinList
  <2>2. \A u \in Threads : pc'[u] # "link"
    BY <1>5, <2>1, LinkAlone, StepAlone DEF Alone, ThreadStep, Account
  <2> QED
    BY <1>1, <2>1, <2>2 DEF Chain
<1>6. ASSUME NEW e \in Entries, WorkerStep(e) PROVE Chain'
  <2>1. WorkerOnly(e)
    BY <1>6, WorkerStartShape, WorkerWalkShape, WorkerRecvShape, WorkerExecShape, WorkerReplyShape,
       WorkerLoopShape DEF WorkerStep, Account
  <2> QED
    BY <1>1, <1>2, <2>1 DEF WorkerOnly
<1>7. CASE UNCHANGED vars
  BY <1>1, <1>2, <1>7 DEF vars, tableVars
<1> QED
  BY <1>3, <1>4, <1>5, <1>6, <1>7 DEF Next, Finished, ThreadStep

LEMMA InitChain == Init => Chain
BY DEF Init, fdtable_init, Chain, Linked

LEMMA DistinctCount ==
  ASSUME NEW s \in Seq(Entries), Distinct(s)
  PROVE  IsFiniteSet(RangeOf(s)) /\ Cardinality(RangeOf(s)) = Len(s)
<1>1. Len(s) \in Nat /\ DOMAIN s = 1..Len(s)
  OBVIOUS
<1>2. IsFiniteSet(1..Len(s)) /\ Cardinality(1..Len(s)) = Len(s)
  BY <1>1, FS_Interval
<1>3. ExistsBijection(1..Len(s), RangeOf(s))
  <2>1. s \in Bijection(1..Len(s), RangeOf(s))
    <3>1. s \in [1..Len(s) -> RangeOf(s)]
      BY <1>1 DEF RangeOf
    <3>2. \A i, j \in 1..Len(s) : s[i] = s[j] => i = j
      BY <1>1 DEF Distinct
    <3>3. \A x \in RangeOf(s) : \E i \in 1..Len(s) : s[i] = x
      BY <1>1 DEF RangeOf
    <3> QED
      BY <3>1, <3>2, <3>3 DEF Bijection, Injection, Surjection, IsInjective
  <2> QED
    BY <2>1 DEF ExistsBijection
<1> QED
  BY <1>2, <1>3, FS_Bijection

(* fdtable_add adds the entry it is given and fdtable_delete removes the one *)
(* it has found: every allocated entry is in the list, once, and thr_num     *)
(* counts them (fdtable.c l.50), when only one thread adds entries under the *)
(* read lock.  With two of them an entry is lost (ld_preload.c l.1266).      *)
THEOREM ListIntact == ASSUME OneAdder PROVE Spec => []TableIntact
<1>1. Account /\ Chain => TableIntact
  <2> SUFFICES ASSUME Account, Chain PROVE TableIntact
    OBVIOUS
  <2>1. table \in Seq(Entries) /\ Distinct(table) /\ Linked = RangeOf(table)
    BY MemoryParts DEF Account, Types, TableTypes, Linked, RangeOf
  <2>2. Cardinality(Linked) = Len(table)
    BY <2>1, DistinctCount
  <2> QED
    BY <2>2 DEF Chain, TableIntact
<1> QED
  BY InitAccount, AccountStep, InitChain, ChainStep, <1>1, PTL DEF Spec

-----------------------------------------------------------------------------
(* The lookups stop at an entry with descriptor 0.  There is none when the   *)
(* kernel never hands out descriptor 0: standard input stays open.           *)
NonZero ==
  /\ \A t \in Threads :
       /\ call(t).kind = "create" /\ pc[t] \in {"lock", "link"} => frame[t].ret \in Fds \cup {-1}
       /\ pc[t] = "link" => frame[t].ret > 0
  /\ \A e \in Entries : entry[e].thr_fd # 0

LEMMA NoZeroWalk ==
  ASSUME table \in Seq(Entries), \A e \in Linked : entry[e].thr_fd # 0, NEW M, NEW d \in Linked \cap M
  PROVE  Walk(M) \in M /\ Walk(M) \in Linked
<1>1. PICK i \in DOMAIN table : table[i] = d
  BY DEF Linked
<1>2. \A j \in 1..i : j \in DOMAIN table
  OBVIOUS
<1>3. i \in Hits(M)
  BY <1>1, <1>2 DEF Hits, Linked
<1> QED
  BY <1>3, WalkFacts

LEMMA CreatedFd ==
  ASSUME Account, NEW t \in Threads, CreateOriginal(t)
  PROVE  /\ frame'[t].ret \in (Fds \ openFds) \cup {-1}
         /\ frame'[t].call = frame[t].call /\ frame'[t].ret = outcome'[t].val
         /\ openFds' = IF frame'[t].ret >= 0 THEN openFds \cup {frame'[t].ret} ELSE openFds
<1>1. PICK o \in NewFd(CreateErrors) :
        /\ openFds' = IF o.val >= 0 THEN openFds \cup {o.val} ELSE openFds
        /\ outcome' = [outcome EXCEPT ![t] = o]
        /\ frame' = [frame EXCEPT ![t].ret = o.val,
                                  ![t].func_errno = AfterCall(o, errno[t])]
  BY DEF CreateOriginal
<1>2. o.val \in (Fds \ openFds) \cup {-1}
  BY NewFdFacts, ValueAssumption DEF Account, Types, EnvTypes
<1>3. frame'[t].ret = o.val /\ frame'[t].call = frame[t].call /\ outcome'[t] = o
  BY <1>1 DEF Account, Types, ThreadTypes, FrameType
<1> QED
  BY <1>1, <1>2, <1>3

LEMMA NonZeroThread ==
  ASSUME 0 \notin Fds, Account, NonZero, NEW t \in Threads, Enter(t) \/ ThreadStep(t)
  PROVE  /\ frame'[t].call.kind = "create" /\ pc'[t] \in {"lock", "link"} =>
              frame'[t].ret \in Fds \cup {-1}
         /\ pc'[t] = "link" => frame'[t].ret > 0
<1>1. /\ call(t).kind = "create" /\ pc[t] \in {"lock", "link"} => frame[t].ret \in Fds \cup {-1}
      /\ pc \in [Threads -> Pcs] /\ frame \in [Threads -> FrameType]
      /\ pc[t] = "accepted" => call(t) = accept
  BY DEF NonZero, Account, Types, ThreadTypes, Places
<1>2. CASE Enter(t)
  <2>1. pc'[t] = IF frame'[t].call.kind = "create" THEN "original" ELSE "lock"
    <3>1. PICK c \in Calls[t], fd \in known \cup {-1} :
            /\ frame' = [frame EXCEPT ![t] =
                 [Idle EXCEPT !.call = c, !.fd = fd,
                              !.func_errno = IF c = accept THEN 0 ELSE errno[t]]]
            /\ Goto(t, IF c.kind = "create" THEN "original" ELSE "lock")
      BY <1>2 DEF Enter
    <3>2. frame'[t].call = c
      BY <1>1, <3>1, InitialRecords DEF FrameType
    <3> QED
      BY <1>1, <3>1, <3>2 DEF Goto
  <2> QED
    BY <2>1
<1>3. CASE CreateOriginal(t)
  <2>1. pc'[t] \in {"done", "lock"}
    BY <1>1, <1>3 DEF CreateOriginal, Goto
  <2> QED
    BY <1>3, <2>1, CreatedFd
<1>4. CASE CreateAdd(t)
  <2>1. pc[t] = "lock" /\ call(t).kind = "create" /\ frame[t].ret >= 0
    BY <1>4 DEF CreateAdd, Is
  <2>2. frame'[t].ret = frame[t].ret
    BY <1>1, <1>4 DEF CreateAdd, FrameType
  <2>3. frame[t].ret \in Fds
    BY <1>1, <2>1
  <2>4. frame[t].ret > 0
    <3>1. frame[t].ret # 0
      BY <2>3
    <3>2. frame[t].ret \in Nat
      BY <2>3, FdsAssumption
    <3> QED
      BY <3>1, <3>2
  <2> QED
    BY <2>2, <2>3, <2>4
<1>5. CASE Accepted(t)
  <2>1. frame'[t].ret = frame[t].ret /\ frame'[t].call = frame[t].call
    BY <1>1, <1>5 DEF Accepted, FrameType
  <2>2. pc'[t] = "link" => frame[t].ret > 0
    BY <1>1, <1>5 DEF Accepted, Goto
  <2>3. frame[t].call = accept
    BY <1>1, <1>5 DEF Accepted, call
  <2> QED
    BY <2>1, <2>2, <2>3, KindOf
<1>6. CASE ThreadStep(t) /\ ~CreateOriginal(t) /\ ~CreateAdd(t) /\ ~Accepted(t)
  <2>1. pc'[t] \notin {"lock", "link"}
    BY <1>1, <1>6 DEF ThreadStep, Return, CreateRefused, CreateWithoutEntry, ForwardLock,
       ForwardMiss, ForwardOriginal, ForwardReturn, CloseLock, CloseMiss, CloseOriginal,
       Send, Recv, Link, Join, Goto
  <2> QED
    BY <2>1
<1> QED
  BY <1>2, <1>3, <1>4, <1>5, <1>6

LEMMA NonZeroStep ==
  ASSUME 0 \notin Fds PROVE Account /\ NonZero /\ [Next]_vars => NonZero'
<1> SUFFICES ASSUME Account, NonZero, [Next]_vars PROVE NonZero'
  OBVIOUS
<1>1. \A e \in Entries : entry[e].thr_fd # 0
  BY DEF NonZero
<1>2. ASSUME NEW t \in Threads, Enter(t) \/ ThreadStep(t) PROVE NonZero'
  <2>1. \A e \in Entries : entry'[e].thr_fd # 0
    <3>1. CASE Link(t)
      <4>1. PICK e \in Entries \ allocated :
              /\ pc[t] = "link" /\ entry'[e].thr_fd = frame[t].ret
              /\ \A d \in Entries \ {e} : entry'[d] = entry[d] /\ worker'[d] = worker[d]
        BY <3>1, LinkList
      <4>2. frame[t].ret > 0
        BY <4>1 DEF NonZero
      <4> QED
        BY <1>1, <4>1, <4>2
    <3>2. CASE Join(t)
      <4>1. NewEntry.thr_fd # 0
        BY DEF NewEntry
      <4> QED
        BY <1>1, <3>2, <4>1, JoinShape
    <3>3. CASE ~Link(t) /\ ~Join(t)
      <4>1. SameFds
        BY <1>2, <3>3, QuietKeeps, SendShape, RecvShape DEF SameFds, Enter, ThreadStep, Quiet, tableVars
      <4> QED
        BY <1>1, <4>1 DEF SameFds
    <3> QED
      BY <3>1, <3>2, <3>3
  <2> QED
    BY <1>2, <2>1, NonZeroThread, StepAlone DEF Alone, Account, NonZero, call
<1>3. ASSUME NEW e \in Entries, WorkerStep(e) PROVE NonZero'
  <2>1. WorkerOnly(e)
    BY <1>3, WorkerStartShape, WorkerWalkShape, WorkerRecvShape, WorkerExecShape, WorkerReplyShape,
       WorkerLoopShape DEF WorkerStep, Account
  <2> QED
    BY <2>1 DEF WorkerOnly, SameFds, NonZero, call
<1>4. CASE UNCHANGED vars
  BY <1>4 DEF vars, tableVars, NonZero, call
<1> QED
  BY <1>2, <1>3, <1>4 DEF Next, Finished

LEMMA InitNonZero == Init => NonZero
<1>1. NewEntry.thr_fd # 0
  BY DEF NewEntry
<1> QED
  BY <1>1 DEF Init, fdtable_init, NonZero

(* The search of a new worker.  Positions in the list. *)
Before(s, d, e) == \E i, j \in DOMAIN s : i <= j /\ s[i] = d /\ s[j] = e

LEMMA BeforeCons ==
  ASSUME NEW x \in Entries, NEW s \in Seq(Entries), NEW e \in RangeOf(s)
  PROVE  /\ Before(<<x>> \o s, x, e)
         /\ \A d : Before(s, d, e) => Before(<<x>> \o s, d, e)
<1> DEFINE u == <<x>> \o s
<1>1. /\ u \in Seq(Entries) /\ Len(u) = Len(s) + 1 /\ u[1] = x
      /\ \A k \in 1..Len(s) : u[k + 1] = s[k]
  BY ConsFacts
<1> HIDE DEF u
<1>2. DOMAIN u = 1..Len(s) + 1 /\ DOMAIN s = 1..Len(s) /\ Len(s) \in Nat
  BY <1>1
<1>3. Before(u, x, e)
  <2>1. PICK j \in 1..Len(s) : s[j] = e
    BY <1>2 DEF RangeOf
  <2>2. 1 \in DOMAIN u /\ j + 1 \in DOMAIN u /\ 1 <= j + 1 /\ u[j + 1] = e
    BY <1>1, <1>2, <2>1
  <2> QED
    BY <1>1, <2>2 DEF Before
<1>4. ASSUME NEW d, Before(s, d, e) PROVE Before(u, d, e)
  <2>1. PICK i \in 1..Len(s), j \in 1..Len(s) : i <= j /\ s[i] = d /\ s[j] = e
    BY <1>2, <1>4 DEF Before
  <2>2. /\ i + 1 \in DOMAIN u /\ j + 1 \in DOMAIN u /\ i + 1 <= j + 1
        /\ u[i + 1] = d /\ u[j + 1] = e
    BY <1>1, <1>2, <2>1
  <2> QED
    BY <2>2 DEF Before
<1> QED
  BY <1>3, <1>4 DEF u

LEMMA BeforeUnlink ==
  ASSUME table \in Seq(Entries), NEW x \in Linked, NEW d, NEW e, d # x, e # x,
         Before(table, d, e)
  PROVE  Before(Unlink(x), d, e)
<1> DEFINE u == Unlink(x)
<1>1. PICK k \in 1..Len(table) :
        /\ table[k] = x
        /\ \A n \in 1..Len(table) - 1 : u[n] = IF n < k THEN table[n] ELSE table[n + 1]
  BY UnlinkFacts
<1>2. u \in Seq(Entries) /\ Len(u) = Len(table) - 1
  BY UnlinkFacts
<1> HIDE DEF u
<1>3. DOMAIN u = 1..Len(table) - 1 /\ DOMAIN table = 1..Len(table) /\ Len(table) \in Nat
  BY <1>2
<1>4. PICK i \in 1..Len(table), j \in 1..Len(table) : i <= j /\ table[i] = d /\ table[j] = e
  BY <1>3 DEF Before
<1> DEFINE P(n) == IF n < k THEN n ELSE n - 1
<1>5. ASSUME NEW n \in 1..Len(table), table[n] # x
      PROVE  P(n) \in DOMAIN u /\ u[P(n)] = table[n]
  <2>1. n # k
    BY <1>1, <1>5
  <2>2. CASE n < k
    <3>1. n \in 1..Len(table) - 1
      BY <2>2, <1>3
    <3> QED
      BY <2>2, <3>1, <1>1, <1>3
  <2>3. CASE n > k
    <3>1. n - 1 \in 1..Len(table) - 1 /\ ~(n - 1 < k) /\ ~(n < k) /\ (n - 1) + 1 = n
      BY <2>3, <1>3
    <3> QED
      BY <3>1, <1>1, <1>3
  <2> QED
    BY <2>1, <2>2, <2>3
<1>6. P(i) <= P(j)
  BY <1>4
<1>7. P(i) \in DOMAIN u /\ u[P(i)] = d /\ P(j) \in DOMAIN u /\ u[P(j)] = e
  BY <1>4, <1>5
<1> HIDE DEF P
<1> QED
  BY <1>6, <1>7 DEF Before, u

(* The next node, when the node is not the worker's own. *)
LEMMA NextAhead ==
  ASSUME table \in Seq(Entries), Distinct(table), NEW d \in Linked, NEW e, d # e,
         Ahead(d, e), NEW n \in NextNodes(d)
  PROVE  n # NULL /\ Ahead(n, e)
<1>1. PICK i \in DOMAIN table, j \in DOMAIN table : i <= j /\ table[i] = d /\ table[j] = e
  BY DEF Ahead
<1>2. DOMAIN table = 1..Len(table) /\ Len(table) \in Nat
  OBVIOUS
<1>3. PICK k \in DOMAIN table : table[k] = d /\ n = IF k = Len(table) THEN NULL ELSE table[k + 1]
  BY DEF NextNodes
<1>4. k = i /\ i # j
  BY <1>1, <1>3 DEF Distinct
<1>5. i + 1 \in DOMAIN table /\ i + 1 <= j /\ n = table[i + 1]
  BY <1>1, <1>2, <1>3, <1>4
<1>6. n \in Entries
  BY <1>5
<1> QED
  BY <1>1, <1>5, <1>6, NullAssumption DEF Ahead

LEMMA SearchStep ==
  Account /\ Chain /\ SearchAhead /\ [Next]_vars => SearchAhead'
<1> SUFFICES ASSUME Account, Chain, SearchAhead, [Next]_vars PROVE SearchAhead'
  OBVIOUS
<1>1. /\ table \in Seq(Entries) /\ Distinct(table) /\ allocated = Linked
      /\ \A e \in Entries : worker[e].pc \notin {"none", "exit"} => e \in Linked
  BY DEF Account, Types, TableTypes, Memory, Chain
<1>2. \A d, e : Ahead(d, e) <=> Before(table, d, e)
  BY DEF Ahead, Before
<1>4. ASSUME UNCHANGED <<table, worker>> PROVE SearchAhead'
  BY <1>4 DEF SearchAhead, Ahead, Linked
<1>5. ASSUME NEW t \in Threads, Enter(t) \/ ThreadStep(t), ~Link(t), ~Join(t) PROVE SearchAhead'
  <2>1. UNCHANGED <<table, worker>>
    BY <1>5, QuietKeeps DEF Enter, Send, Recv, ThreadStep, Quiet, tableVars
  <2> QED
    BY <1>4, <2>1
<1>6. ASSUME NEW t \in Threads, Link(t) PROVE SearchAhead'
  <2>1. PICK x \in Entries \ allocated :
          /\ pc[t] = "link" /\ table' = <<x>> \o frame[t].next
          /\ worker'[x].pc \in IF CreateMayFail THEN {"none", "start", "recv"} ELSE {"start", "recv"}
          /\ \A d \in Entries \ {x} : entry'[d] = entry[d] /\ worker'[d] = worker[d]
    BY <1>6, LinkShape
  <2>2. frame[t].next = table /\ table' = <<x>> \o table /\ RangeOf(table) = Linked
    BY <2>1 DEF Chain, RangeOf, Linked
  <2>3. Linked' = {x} \cup Linked
    <3>1. RangeOf(table') = {x} \cup RangeOf(table)
      BY <1>1, <2>2, ConsFacts
    <3> QED
      BY <2>2, <3>1 DEF Linked, RangeOf
  <2> SUFFICES ASSUME NEW e \in Entries, worker'[e].pc = "walk"
               PROVE  /\ worker'[e].at # NULL
                      /\ worker'[e].at \in Linked' => Before(table', worker'[e].at, e)
    BY Zenon DEF SearchAhead, Ahead, Before
  <2>4. e # x /\ worker'[e] = worker[e] /\ worker[e].pc = "walk"
    BY <2>1
  <2>5. worker[e].at # NULL /\ (worker[e].at \in Linked => Before(table, worker[e].at, e))
    BY <1>2, <2>4 DEF SearchAhead
  <2>6. e \in RangeOf(table)
    BY <1>1, <2>2, <2>4
  <2>7. /\ Before(table', x, e)
        /\ \A d : Before(table, d, e) => Before(table', d, e)
    BY <1>1, <2>2, <2>6, BeforeCons
  <2> QED
    BY <2>3, <2>4, <2>5, <2>7
<1>7. ASSUME NEW t \in Threads, Join(t) PROVE SearchAhead'
  <2>1. PICK x \in Linked : x = frame[t].tmp
    BY <1>7, JoinShape
  <2>2. /\ x \in Entries /\ worker[x].pc = "exit" /\ table' = Unlink(x) /\ worker'[x].pc = "none"
        /\ \A d \in Entries \ {x} : entry'[d] = entry[d] /\ worker'[d] = worker[d]
        /\ Linked' = Linked \ {x}
    BY <1>7, <2>1, JoinShape, JoinList
  <2> SUFFICES ASSUME NEW e \in Entries, worker'[e].pc = "walk"
               PROVE  /\ worker'[e].at # NULL
                      /\ worker'[e].at \in Linked' => Before(table', worker'[e].at, e)
    BY Zenon DEF SearchAhead, Ahead, Before
  <2>3. e # x /\ worker'[e] = worker[e] /\ worker[e].pc = "walk"
    BY <2>2
  <2>4. worker[e].at # NULL /\ (worker[e].at \in Linked => Before(table, worker[e].at, e))
    BY <1>2, <2>3 DEF SearchAhead
  <2>5. worker[e].at \in Linked \ {x} => Before(Unlink(x), worker[e].at, e)
    BY <1>1, <2>3, <2>4, BeforeUnlink
  <2> QED
    BY <2>2, <2>3, <2>4, <2>5
<1>8. ASSUME NEW e \in Entries, WorkerStep(e) PROVE SearchAhead'
  <2>1. WorkerOnly(e)
    BY <1>8, WorkerStartShape, WorkerWalkShape, WorkerRecvShape, WorkerExecShape,
       WorkerReplyShape, WorkerLoopShape DEF WorkerStep, Account
  <2>2. table' = table /\ Linked' = Linked /\ \A d \in Entries \ {e} : worker'[d] = worker[d]
    BY <2>1 DEF WorkerOnly, Linked
  <2>3. ASSUME worker'[e].pc = "walk"
        PROVE  /\ worker'[e].at # NULL
               /\ worker'[e].at \in Linked => Ahead(worker'[e].at, e)
    <3>1. CASE WorkerStart(e)
      <4>1. worker[e].pc = "start" /\ worker'[e].at = FirstNode
        BY <3>1, WorkerStartShape DEF Account
      <4>2. PICK j \in DOMAIN table : table[j] = e
        BY <1>1, <4>1 DEF Linked
      <4>3. 1 \in DOMAIN table /\ 1 <= j /\ table # <<>>
        BY <1>1, <4>2
      <4>4. FirstNode = table[1] /\ table[1] \in Entries
        BY <1>1, <4>3 DEF FirstNode
      <4> QED
        BY <4>1, <4>2, <4>3, <4>4, NullAssumption DEF Ahead
    <3>2. CASE WorkerWalk(e)
      <4> DEFINE d == worker[e].at
      <4>1. /\ worker[e].pc = "walk" /\ d \in Entries \cup {NULL}
            /\ fdtable_get_by_tid(d, e) = "walk" /\ worker'[e].at \in NextNodes(d)
        BY <2>3, <3>2, WorkerWalkShape DEF Account
      <4>2. d # NULL /\ (d \in Linked => Ahead(d, e))
        BY <4>1 DEF SearchAhead
      <4> HIDE DEF d
      <4>3. d \in allocated /\ d # e
        BY <1>1, <4>1, <4>2 DEF fdtable_get_by_tid
      <4> QED
        BY <1>1, <4>1, <4>2, <4>3, NextAhead
    <3>3. CASE WorkerRecv(e) \/ WorkerExec(e) \/ WorkerReply(e) \/ WorkerLoop(e)
      BY <2>3, <3>3, WorkerRecvShape, WorkerExecShape, WorkerReplyShape, WorkerLoopShape DEF Account
    <3> QED
      BY <1>8, <3>1, <3>2, <3>3 DEF WorkerStep
  <2>4. worker'[e].pc = "walk" =>
          /\ worker'[e].at # NULL
          /\ worker'[e].at \in Linked' => Before(table', worker'[e].at, e)
    BY <1>2, <2>2, <2>3
  <2>5. ASSUME NEW d \in Entries \ {e}, worker'[d].pc = "walk"
        PROVE  /\ worker'[d].at # NULL
               /\ worker'[d].at \in Linked' => Before(table', worker'[d].at, d)
    BY <1>2, <2>2, <2>5 DEF SearchAhead
  <2>6. \A d \in Entries : worker'[d].pc = "walk" =>
          /\ worker'[d].at # NULL
          /\ worker'[d].at \in Linked' => Before(table', worker'[d].at, d)
    BY <2>4, <2>5
  <2> QED
    BY <2>6, Zenon DEF SearchAhead, Ahead, Before
<1>9. CASE UNCHANGED vars
  BY <1>4, <1>9 DEF vars, tableVars
<1> QED
  BY <1>5, <1>6, <1>7, <1>8, <1>9 DEF Next, Finished, ThreadStep

LEMMA InitSearch == Init => SearchAhead
<1>1. NoWorker.pc = "none"
  BY DEF NoWorker
<1> QED
  BY <1>1 DEF Init, SearchAhead

(* The search a new worker makes without a lock (ld_preload.c l.192) does   *)
(* not miss its entry, however entries are added and deleted meanwhile:     *)
(* unless the node it stands on has been deleted, and that is the only      *)
(* freed memory it can meet, its own entry is still ahead.  One thread at   *)
(* most adds entries under the read lock.                                   *)
THEOREM SearchFindsItself == ASSUME OneAdder PROVE Spec => []SearchAhead
BY InitAccount, AccountStep, InitChain, ChainStep, InitSearch, SearchStep, PTL DEF Spec

(* A request to stop, a worker that has one and a listed entry whose worker  *)
(* is gone belong to a close that waits for that worker.                     *)
ClosedBy(t, e) == pc[t] \in {"recv", "join"} /\ frame[t].tmp = e /\ call(t).kind = "close"
Stopping(e) ==
  \/ entry[e].full = 1 /\ Stops(entry[e].message.type)
  \/ worker[e].pc \in {"exec", "reply", "loop"} /\ Stops(worker[e].args.type)
  \/ worker[e].pc \in {"none", "exit"} /\ e \in Linked
Serving == \A e \in Entries : Stopping(e) => \E t \in Threads : ClosedBy(t, e)

(* A close keeps waiting until it deletes the entry. *)
LEMMA CloseWaits ==
  ASSUME Account, NEW e, NEW t \in Threads, Enter(t) \/ ThreadStep(t),
         ~(Join(t) /\ frame[t].tmp = e), \E u \in Threads : ClosedBy(u, e)
  PROVE  \E u \in Threads : ClosedBy(u, e)'
<1>1. PICK u \in Threads : ClosedBy(u, e)
  OBVIOUS
<1>2. CASE u # t
  <2>1. ClosedBy(u, e)'
    BY <1>1, <1>2, StepAlone DEF ClosedBy, Alone, Account, call
  <2> QED
    BY <2>1
<1>3. CASE u = t
  <2>1. Recv(t)
    BY <1>1, <1>3 DEF ClosedBy, Enter, ThreadStep, Return, CreateOriginal, CreateRefused,
       CreateAdd, CreateWithoutEntry, ForwardLock, ForwardMiss, ForwardOriginal, Accepted,
       ForwardReturn, CloseLock, CloseMiss, CloseOriginal, Send, Link, Join, Is
  <2>2. pc'[t] = "join"
    BY <1>1, <1>3, <2>1 DEF ClosedBy, Recv, Goto, Account, Types, ThreadTypes
  <2>3. ClosedBy(t, e)'
    BY <1>1, <1>3, <2>1, <2>2, RecvShape DEF ClosedBy, call
  <2> QED
    BY <2>3
<1> QED
  BY <1>2, <1>3

LEMMA ServingThread ==
  ASSUME ~CreateMayFail, Account, Chain, Serving,
         NEW t \in Threads, Enter(t) \/ ThreadStep(t)
  PROVE  Serving'
<1> SUFFICES ASSUME NEW e \in Entries, Stopping(e)' PROVE \E u \in Threads : ClosedBy(u, e)'
  BY DEF Serving
<1>1. Stopping(e) /\ ~(Join(t) /\ frame[t].tmp = e) => \E u \in Threads : ClosedBy(u, e)'
  BY CloseWaits DEF Serving
<1>2. CASE Enter(t) \/ Quiet(t)
  <2>1. UNCHANGED <<table, entry, worker>>
    BY <1>2, QuietKeeps DEF Enter, tableVars
  <2>2. ~Join(t)
    BY <1>2 DEF Enter, Quiet, Join, Return, CreateOriginal, CreateRefused,
       CreateAdd, CreateWithoutEntry, ForwardLock, ForwardMiss, ForwardOriginal, Accepted,
       ForwardReturn, CloseLock, CloseMiss, CloseOriginal, Is
  <2> QED
    BY <1>1, <2>1, <2>2 DEF Stopping, Linked
<1>3. CASE Send(t)
  <2>1. /\ table' = table /\ worker' = worker /\ frame' = frame
        /\ pc[t] = "send" /\ pc'[t] = "recv" /\ ~Join(t)
    BY <1>3 DEF Send, Join, Goto, Account, Types, ThreadTypes
  <2>2. CASE e = frame[t].tmp /\ Stops(entry'[e].message.type)
    <3>1. entry'[e].message = [NoMessage EXCEPT !.type = call(t).type, !.from = t]
      BY <1>3, <2>2, SendShape
    <3>2. entry'[e].message.type = call(t).type
      BY <3>1 DEF NoMessage
    <3>3. call(t) \in Interposed /\ call(t).kind \in {"forward", "close"}
      BY <2>1, CallIn DEF Account, Places
    <3>4. call(t).kind = "close"
      BY <2>2, <3>2, <3>3, WrapperFacts DEF Stops
    <3>5. ClosedBy(t, e)'
      BY <2>1, <2>2, <3>4 DEF ClosedBy, call
    <3> QED
      BY <3>5
  <2>3. CASE ~(e = frame[t].tmp /\ Stops(entry'[e].message.type))
    <3>1. Stopping(e)
      BY <1>3, <2>1, <2>3, SendShape DEF Stopping, Linked
    <3> QED
      BY <1>1, <2>1, <3>1
  <2> QED
    BY <2>2, <2>3
<1>4. CASE Recv(t)
  <2>1. table' = table /\ worker' = worker /\ ~Join(t)
    BY <1>4 DEF Recv, Join
  <2>2. Stopping(e)
    BY <1>4, <2>1, RecvShape DEF Stopping, Linked
  <2> QED
    BY <1>1, <2>1, <2>2
<1>5. CASE Link(t)
  <2>1. PICK d \in Entries \ allocated :
          /\ pc[t] = "link" /\ Linked' = {d} \cup RangeOf(frame[t].next)
          /\ entry'[d].full = 0
          /\ worker'[d].pc \in IF CreateMayFail THEN {"none", "start", "recv"} ELSE {"start", "recv"}
          /\ \A x \in Entries \ {d} : entry'[x] = entry[x] /\ worker'[x] = worker[x]
    BY <1>5, LinkList
  <2>2. RangeOf(frame[t].next) = Linked /\ ~Join(t)
    BY <2>1 DEF Chain, RangeOf, Linked, Join
  <2>3. e # d
    BY <2>1 DEF Stopping
  <2>4. Stopping(e)
    BY <2>1, <2>2, <2>3 DEF Stopping
  <2> QED
    BY <1>1, <2>2, <2>4
<1>6. CASE Join(t)
  <2>1. e # frame[t].tmp
    <3>1. NewEntry.full = 0
      BY DEF NewEntry
    <3> QED
      BY <1>6, <3>1, JoinShape, JoinList DEF Stopping
  <2>2. Stopping(e)
    <3>1. entry'[e] = entry[e] /\ worker'[e] = worker[e]
      BY <1>6, <2>1, JoinShape
    <3>2. Linked' \subseteq Linked
      BY <1>6, JoinList
    <3> QED
      BY <3>1, <3>2 DEF Stopping
  <2> QED
    BY <1>1, <2>1, <2>2
<1> QED
  BY <1>2, <1>3, <1>4, <1>5, <1>6 DEF ThreadStep, Quiet

LEMMA ServingWorker ==
  ASSUME Account, Chain, NonZero, SearchAhead, Serving, NEW e \in Entries, WorkerStep(e)
  PROVE  Serving'
<1>1. WorkerOnly(e)
  BY WorkerStartShape, WorkerWalkShape, WorkerRecvShape, WorkerExecShape, WorkerReplyShape,
     WorkerLoopShape DEF WorkerStep, Account
<1>2. ASSUME NEW d \in Entries, Stopping(d) PROVE \E u \in Threads : ClosedBy(u, d)'
  BY <1>1, <1>2 DEF WorkerOnly, Serving, ClosedBy, call
<1>3. ASSUME NEW d \in Entries \ {e}, Stopping(d)' PROVE Stopping(d)
  BY <1>1, <1>3 DEF WorkerOnly, Stopping, Linked
<1>4. ASSUME Stopping(e)' PROVE Stopping(e)
  <2>1. CASE WorkerStart(e)
    BY <1>4, <2>1, WorkerStartShape DEF Stopping, Account
  <2>6. CASE WorkerWalk(e)
    <3> DEFINE d == worker[e].at
    <3>1. /\ entry' = entry /\ worker[e].pc = "walk" /\ d \in Entries \cup {NULL}
          /\ worker'[e].pc = fdtable_get_by_tid(d, e)
          /\ worker'[e].pc \in {"exit", "fault", "recv", "walk"}
      BY <2>6, WorkerWalkShape DEF Account
    <3>2. d # NULL /\ d \in Entries /\ entry[d].thr_fd # 0
      BY <3>1 DEF SearchAhead, NonZero
    <3> HIDE DEF d
    <3>3. fdtable_get_by_tid(d, e) # "exit"
      <4>1. \/ d \in Entries \ allocated
            \/ d \in allocated
        BY <3>2
      <4> QED
        BY <3>2, <4>1 DEF fdtable_get_by_tid
    <3> QED
      BY <1>4, <3>1, <3>3 DEF Stopping
  <2>2. CASE WorkerLoop(e)
    BY <1>4, <2>2, WorkerLoopShape DEF Stopping, Account
  <2>3. CASE WorkerRecv(e)
    BY <1>4, <2>3, WorkerRecvShape DEF Stopping, Account
  <2>4. CASE WorkerReply(e)
    <3>1. /\ worker[e].pc = "reply" /\ worker'[e].pc = "loop" /\ worker'[e].args = worker[e].args
          /\ entry'[e].message =
               [type |-> worker[e].args.type, from |-> NULL, value |-> worker[e].value,
                size |-> worker[e].size, err |-> worker[e].err]
      BY <2>4, WorkerReplyShape DEF Account
    <3>2. entry'[e].message.type = worker[e].args.type
      BY <3>1
    <3> QED
      BY <1>4, <3>1, <3>2 DEF Stopping
  <2>5. CASE WorkerExec(e)
    BY <1>4, <2>5, WorkerExecShape DEF Stopping, Account
  <2> QED
    BY <2>1, <2>2, <2>3, <2>4, <2>5, <2>6 DEF WorkerStep
<1> QED
  BY <1>2, <1>3, <1>4 DEF Serving

LEMMA ServingStep ==
  ASSUME ~CreateMayFail
  PROVE  Account /\ Chain /\ NonZero /\ SearchAhead /\ Serving /\ [Next]_vars => Serving'
<1> SUFFICES ASSUME Account, Chain, NonZero, SearchAhead, Serving, [Next]_vars PROVE Serving'
  OBVIOUS
<1>1. CASE UNCHANGED vars
  BY <1>1 DEF vars, tableVars, Serving, Stopping, ClosedBy, Linked, call
<1> QED
  BY <1>1, ServingThread, ServingWorker DEF Next, Finished

LEMMA InitServing == Init => Serving
<1>1. NewEntry.full = 0 /\ NoWorker.pc = "none"
  BY DEF NewEntry, NoWorker
<1> QED
  BY <1>1 DEF Init, fdtable_init, Serving, Stopping, Linked

(* Every entry of the list has a worker that serves it, unless a close is    *)
(* about to delete the entry: a new worker finds its entry (l.192), and only *)
(* the request of a close ends its loop (l.209).  pthread_create does not    *)
(* fail here (a failure leaves an entry nobody serves), descriptor 0 is not  *)
(* handed out, and one thread at most adds entries under the read lock.      *)
THEOREM EntriesServed ==
  ASSUME OneAdder, 0 \notin Fds, ~CreateMayFail
  PROVE  Spec => []ServedEntries
<1>1. Account /\ Serving => ServedEntries
  <2> SUFFICES ASSUME Account, Serving, NEW e \in Linked, worker[e].pc \in {"none", "exit"}
               PROVE  \E t \in Threads : pc[t] \in {"recv", "join"} /\ frame[t].tmp = e
                                         /\ call(t).kind = "close"
    BY DEF ServedEntries
  <2>1. e \in Entries /\ Stopping(e)
    BY LinkedIn DEF Stopping, Account, Types, TableTypes
  <2> QED
    BY <2>1 DEF Serving, ClosedBy
<1> QED
  BY InitAccount, AccountStep, InitChain, ChainStep, InitNonZero, NonZeroStep, InitSearch,
     SearchStep, InitServing, ServingStep, <1>1, PTL DEF Spec
=============================================================================

----------------------------- MODULE Placement -----------------------------
(***************************************************************************)
(* Worker placement (affinity.c, SINGLE): the worker threads of one process *)
(* call set_cpu when they start and after every fifth request.  set_cpu     *)
(* reads the two boundaries from /proc/KU/dynamic, while SingleCP's timer   *)
(* moves them, and builds a CPU set: a worker for network calls runs        *)
(* between the boundaries, one for file calls from the second one on.  The  *)
(* boundaries, the loops' counters and the set are global variables of the  *)
(* library, which no lock protects.                                         *)
(***************************************************************************)
EXTENDS SingleCP

CONSTANTS
  Workers,
  Kinds,                     \* what sets of workers there may be: the kind
                             \* ("net" or "file") of each
  MaxCalls                   \* bound: calls of set_cpu per worker

MAX_CPUS == BLK_END + 1

ASSUME KindAssumption == Kinds \subseteq [Workers -> {"net", "file"}]
ASSUME CallAssumption == MaxCalls \in Nat

VARIABLES
  kind,                      \* sock->NetorFile of each worker
  lib_net_end, file_start,   \* the library's copies of the boundaries
  net_cpu, file_cpu,         \* loop counters
  mask,                      \* the CPU set under construction
  pc, reg,                   \* of each worker: next statement, register
  seen,                      \* what a worker's read of /proc gave
  affinity,                  \* CPUs given to a worker, {} before the first
  calls,                     \* calls of set_cpu a worker has begun
  alone                      \* history: no other call overlapped its last one

libVars == <<lib_net_end, file_start, net_cpu, file_cpu, mask>>
ownVars == <<pc, reg, seen, affinity, calls, alone>>
pvars == <<vars, kind, libVars, ownVars>>

NoValue == [cpu |-> 0, mask |-> {}]

PInit ==
  /\ Init
  /\ kind \in Kinds
  /\ lib_net_end = 0 /\ file_start = 0 /\ net_cpu = 0 /\ file_cpu = 0
  /\ mask = {}
  /\ pc = [w \in Workers |-> "out"]
  /\ reg = [w \in Workers |-> NoValue]
  /\ seen = [w \in Workers |-> [net_end |-> 0, blk_start |-> 0]]
  /\ affinity = [w \in Workers |-> {}]
  /\ calls = [w \in Workers |-> 0]
  /\ alone = [w \in Workers |-> TRUE]

Goto(w, from, to) == pc[w] = from /\ pc' = [pc EXCEPT ![w] = to] /\ UNCHANGED kind

(* syscall_thread calls set_cpu. *)
SetCpu(w) ==
  /\ Goto(w, "out", "read")
  /\ calls[w] < MaxCalls
  /\ calls' = [calls EXCEPT ![w] = @ + 1]
  /\ LET others == {v \in Workers \ {w} : pc[v] # "out"}
     IN alone' = [v \in Workers |-> IF v = w THEN others = {}
                                    ELSE alone[v] /\ v \notin others]
  /\ UNCHANGED <<vars, libVars, reg, seen, affinity>>

(* The read of /proc/KU/dynamic prints the two boundaries in turn. *)
ReadNetEnd(w) ==
  /\ Goto(w, "read", "read2")
  /\ seen' = [seen EXCEPT ![w].net_end = net_end]
  /\ UNCHANGED <<vars, libVars, reg, affinity, calls, alone>>
ReadBlkStart(w) ==
  /\ Goto(w, "read2", "store")
  /\ seen' = [seen EXCEPT ![w].blk_start = blk_start]
  /\ UNCHANGED <<vars, libVars, reg, affinity, calls, alone>>
StoreNetEnd(w) ==
  /\ Goto(w, "store", "store2")
  /\ lib_net_end' = seen[w].net_end
  /\ UNCHANGED <<vars, file_start, net_cpu, file_cpu, mask, reg, seen, affinity, calls, alone>>
StoreFileStart(w) ==
  /\ Goto(w, "store2", "zero")
  /\ file_start' = seen[w].blk_start
  /\ UNCHANGED <<vars, lib_net_end, net_cpu, file_cpu, mask, reg, seen, affinity, calls, alone>>

MutCpuZero(w) ==   \* the set keeps the cores of the last call
  /\ Goto(w, "zero", "first")
  /\ UNCHANGED <<vars, libVars, reg, seen, affinity, calls, alone>>
CpuZero(w) ==
  /\ Goto(w, "zero", "first")
  /\ mask' = {}
  /\ UNCHANGED <<vars, lib_net_end, file_start, net_cpu, file_cpu, reg, seen, affinity, calls, alone>>

(* for (net_cpu = net_end+1; net_cpu < file_start; net_cpu++), or           *)
(* for (file_cpu = file_start; file_cpu < MAX_CPUS; file_cpu++).            *)
cursor(w) == IF kind[w] = "net" THEN net_cpu ELSE file_cpu
SetCursor(w, c) ==
  IF kind[w] = "net" THEN net_cpu' = c /\ UNCHANGED file_cpu
  ELSE file_cpu' = c /\ UNCHANGED net_cpu
MutFirst(w) == IF kind[w] = "net" THEN lib_net_end ELSE file_start
MutFirstSign(w) == IF kind[w] = "net" THEN lib_net_end - 1 ELSE file_start
FirstCpu(w) == IF kind[w] = "net" THEN lib_net_end + 1 ELSE file_start
Limit(w) == IF kind[w] = "net" THEN file_start ELSE MAX_CPUS

LoopFirst(w) ==
  /\ Goto(w, "first", "test")
  /\ SetCursor(w, FirstCpu(w))
  /\ UNCHANGED <<vars, lib_net_end, file_start, mask, reg, seen, affinity, calls, alone>>
LoopTest(w) ==
  /\ Goto(w, "test", IF cursor(w) < Limit(w) THEN "set" ELSE "apply")
  /\ UNCHANGED <<vars, libVars, reg, seen, affinity, calls, alone>>
(* CPU_SET and ++ read a word, change it and write it back. *)
CpuSetLoad(w) ==
  /\ Goto(w, "set", "set2")
  /\ reg' = [reg EXCEPT ![w].mask = mask \cup {cursor(w)}]
  /\ UNCHANGED <<vars, libVars, seen, affinity, calls, alone>>
CpuSetStore(w) ==
  /\ Goto(w, "set2", "inc")
  /\ mask' = reg[w].mask
  /\ reg' = [reg EXCEPT ![w] = NoValue]
  /\ UNCHANGED <<vars, lib_net_end, file_start, net_cpu, file_cpu, seen, affinity, calls, alone>>
MutIncLoad(w) ==   \* no increment
  /\ Goto(w, "inc", "inc2")
  /\ reg' = [reg EXCEPT ![w].cpu = cursor(w)]
  /\ UNCHANGED <<vars, libVars, seen, affinity, calls, alone>>
IncLoad(w) ==
  /\ Goto(w, "inc", "inc2")
  /\ reg' = [reg EXCEPT ![w].cpu = cursor(w) + 1]
  /\ UNCHANGED <<vars, libVars, seen, affinity, calls, alone>>
IncStore(w) ==
  /\ Goto(w, "inc2", "test")
  /\ SetCursor(w, reg[w].cpu)
  /\ reg' = [reg EXCEPT ![w] = NoValue]
  /\ UNCHANGED <<vars, lib_net_end, file_start, mask, seen, affinity, calls, alone>>

(* pthread_setaffinity_np: it fails, and changes nothing, when no CPU of    *)
(* the set exists.  set_cpu ignores its result.                             *)
setaffinity(old, set) ==
  LET online == {c \in set : c < MAX_CPUS} IN IF online = {} THEN old ELSE online
Apply(w) ==
  /\ Goto(w, "apply", "out")
  /\ affinity' = [affinity EXCEPT ![w] = setaffinity(@, mask)]
  /\ UNCHANGED <<vars, libVars, reg, seen, calls, alone>>

WorkerStep(w) ==
  \/ ReadNetEnd(w) \/ ReadBlkStart(w) \/ StoreNetEnd(w) \/ StoreFileStart(w)
  \/ CpuZero(w) \/ LoopFirst(w) \/ LoopTest(w)
  \/ CpuSetLoad(w) \/ CpuSetStore(w) \/ IncLoad(w) \/ IncStore(w) \/ Apply(w)

PNext ==
  \/ Tick /\ UNCHANGED <<kind, libVars, ownVars>>
  \/ \E w \in Workers : SetCpu(w) \/ WorkerStep(w)

PSpec == PInit /\ [][PNext]_pvars
(* A thread that can run does run. *)
PFairSpec == PSpec /\ \A w \in Workers : WF_pvars(WorkerStep(w))
-----------------------------------------------------------------------------
Locations == {"out", "read", "read2", "store", "store2", "zero", "first", "test",
              "set", "set2", "inc", "inc2", "apply"}

(* Every variable keeps its type. *)
PTypeOK ==
  /\ kind \in Kinds
  /\ lib_net_end \in Nat /\ file_start \in Nat /\ net_cpu \in Nat /\ file_cpu \in Nat
  /\ mask \subseteq Nat
  /\ pc \in [Workers -> Locations]
  /\ reg \in [Workers -> [cpu : Nat, mask : SUBSET Nat]]
  /\ seen \in [Workers -> [net_end : Nat, blk_start : Nat]]
  /\ affinity \in [Workers -> SUBSET Cores]
  /\ calls \in [Workers -> 0..MaxCalls]
  /\ alone \in [Workers -> BOOLEAN]

(* However calls of set_cpu overlap, with each other and with ticks of the  *)
(* controller, no worker is placed on the core that is always left to the   *)
(* network interrupts, or on a core that does not belong to the socket.     *)
InterruptCoreReserved ==
  \A w \in Workers : affinity[w] \subseteq (NET_START + 1)..BLK_END

(* A call that no other call overlaps gives its worker the cores of its     *)
(* side, as /proc/KU/dynamic printed them, whatever earlier calls left in   *)
(* the global variables (and nothing when the print leaves no core).        *)
OwnGroup(w) == IF kind[w] = "net" THEN (seen[w].net_end + 1)..(seen[w].blk_start - 1)
               ELSE seen[w].blk_start..BLK_END
PlacedOnItsSide ==
  \A w \in Workers :
    pc[w] = "out" /\ calls[w] > 0 /\ alone[w] /\ OwnGroup(w) # {}
      => affinity[w] = OwnGroup(w)

(* Calls of set_cpu return although their loops share their counters: two   *)
(* loops may undo each other's increments, but not for ever.                *)
SetCpuReturns == \A w \in Workers : pc[w] = "read" ~> pc[w] = "out"
=============================================================================

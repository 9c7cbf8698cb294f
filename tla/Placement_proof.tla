-------------------------- MODULE Placement_proof --------------------------
(***************************************************************************)
(* Proofs about worker placement, for any number of workers and calls of    *)
(* set_cpu, and for all boundaries, thresholds and loads that meet the      *)
(* assumptions of SingleCP.                                                 *)
(***************************************************************************)
EXTENDS Placement, SingleCP_proof

InLoop   == {"test", "set", "set2", "inc", "inc2"}
Building == {"first", "apply"} \cup InLoop
Stored   == {"zero"} \cup Building   \* set_cpu has stored both boundaries

(* What every worker relies on although others overwrite the library's      *)
(* global variables: whatever has been stored there since it read /proc, it *)
(* is beyond the core of the network interrupts.                            *)
Bounded(w) ==
  /\ pc[w] \notin {"out", "read"} => seen[w].net_end \in Cores
  /\ pc[w] \notin {"out", "read", "read2"} =>
       seen[w].blk_start \in Cores /\ seen[w].blk_start > NET_START
  /\ pc[w] \in Stored \cup {"store2"} => lib_net_end >= NET_START
  /\ pc[w] \in Stored => file_start > NET_START
  /\ pc[w] \in InLoop => cursor(w) > NET_START
  /\ pc[w] = "inc2" => reg[w].cpu > NET_START
  /\ \A c \in reg[w].mask : c > NET_START
  /\ affinity[w] \subseteq (NET_START + 1)..BLK_END
Reserved == (\A c \in mask : c > NET_START) /\ \A w \in Workers : Bounded(w)

(* PTypeOK, with the workers' kinds as functions. *)
PTypes == PTypeOK /\ kind \in [Workers -> {"net", "file"}]

LEMMA CoreFacts ==
  ASSUME Inv
  PROVE  /\ NET_START \in Nat /\ BLK_END \in Nat /\ MAX_CPUS = BLK_END + 1
         /\ Cores \subseteq Nat
         /\ net_end \in Cores /\ blk_start \in Cores /\ blk_start > NET_START
         /\ \A c \in Cores : c >= NET_START /\ c <= BLK_END
BY BoundsAssumption DEF Inv, TypeOK, GroupsNonEmpty, Cores, MAX_CPUS

(* A tick, seen from the library. *)
LEMMA TickKeepsInv == Inv /\ Tick => Inv'
BY NextInv DEF Next

LEMMA SameInv == Inv /\ UNCHANGED vars => Inv'
BY NextInv

LEMMA InitPlacement == PInit => Inv /\ PTypes /\ Reserved
<1> SUFFICES ASSUME PInit PROVE Inv /\ PTypes /\ Reserved
  OBVIOUS
<1>1. Inv
  BY InitInv DEF PInit
<1>2. PTypes
  BY KindAssumption, CallAssumption DEF PInit, PTypes, PTypeOK, NoValue, Locations
<1>3. Reserved
  BY DEF PInit, Reserved, Bounded, Stored, Building, InLoop, NoValue
<1> QED
  BY <1>1, <1>2, <1>3

LEMMA TypesKept == Inv /\ PTypes /\ Reserved /\ [PNext]_pvars => PTypes'
<1> SUFFICES ASSUME Inv, PTypes, Reserved, [PNext]_pvars PROVE PTypes'
  OBVIOUS
<1>0. CoreFacts!2
  BY CoreFacts
<1> USE DEF PTypes, PTypeOK, Locations
<1>1. CASE Tick /\ UNCHANGED <<kind, libVars, ownVars>>
  BY <1>1 DEF libVars, ownVars
<1>2. CASE UNCHANGED pvars
  BY <1>2 DEF pvars, libVars, ownVars
<1>3. ASSUME NEW w \in Workers, SetCpu(w) PROVE PTypes'
  <2>1. calls' \in [Workers -> 0..MaxCalls]
    BY <1>3, CallAssumption DEF SetCpu
  <2>2. alone' \in [Workers -> BOOLEAN]
    <3>1. PICK others : alone' = [v \in Workers |-> IF v = w THEN others = {}
                                                    ELSE alone[v] /\ v \notin others]
      BY <1>3 DEF SetCpu
    <3>2. \A v \in Workers : (IF v = w THEN others = {} ELSE alone[v] /\ v \notin others) \in BOOLEAN
      OBVIOUS
    <3> QED
      BY <3>1, <3>2
  <2> QED
    BY <1>3, <2>1, <2>2 DEF SetCpu, Goto, libVars
<1>4. ASSUME NEW w \in Workers, ReadNetEnd(w) \/ ReadBlkStart(w) PROVE PTypes'
  <2>1. net_end \in Nat /\ blk_start \in Nat
    BY <1>0
  <2>2. seen' \in [Workers -> [net_end : Nat, blk_start : Nat]]
    <3>1. CASE ReadNetEnd(w)
      BY <2>1, <3>1 DEF ReadNetEnd
    <3>2. CASE ReadBlkStart(w)
      BY <2>1, <3>2 DEF ReadBlkStart
    <3> QED
      BY <1>4, <3>1, <3>2
  <2> QED
    BY <1>4, <2>2 DEF ReadNetEnd, ReadBlkStart, Goto, libVars
<1>5. ASSUME NEW w \in Workers, StoreNetEnd(w) \/ StoreFileStart(w) \/ CpuZero(w) PROVE PTypes'
  <2>1. seen[w].net_end \in Nat /\ seen[w].blk_start \in Nat
    OBVIOUS
  <2>2. lib_net_end' \in Nat /\ file_start' \in Nat /\ mask' \subseteq Nat
    BY <1>5, <2>1 DEF StoreNetEnd, StoreFileStart, CpuZero
  <2> QED
    BY <1>5, <2>2 DEF StoreNetEnd, StoreFileStart, CpuZero, Goto
<1>6. ASSUME NEW w \in Workers, LoopFirst(w) PROVE PTypes'
  BY <1>6 DEF LoopFirst, SetCursor, FirstCpu, Goto, libVars
<1>7. ASSUME NEW w \in Workers, LoopTest(w) PROVE PTypes'
  BY <1>7 DEF LoopTest, Goto, libVars
<1>8. ASSUME NEW w \in Workers, CpuSetLoad(w) PROVE PTypes'
  BY <1>8 DEF CpuSetLoad, cursor, Goto, libVars
<1>9. ASSUME NEW w \in Workers, CpuSetStore(w) PROVE PTypes'
  BY <1>9 DEF CpuSetStore, NoValue, Goto, libVars
<1>10. ASSUME NEW w \in Workers, IncLoad(w) PROVE PTypes'
  <2>1. cursor(w) + 1 \in Nat
    BY DEF cursor
  <2>2. reg' \in [Workers -> [cpu : Nat, mask : SUBSET Nat]]
    BY <1>10, <2>1 DEF IncLoad
  <2> QED
    BY <1>10, <2>2 DEF IncLoad, Goto, libVars
<1>11. ASSUME NEW w \in Workers, IncStore(w) PROVE PTypes'
  BY <1>11 DEF IncStore, SetCursor, NoValue, Goto, libVars
<1>12. ASSUME NEW w \in Workers, Apply(w) PROVE PTypes'
  <2>1. \A c \in mask : c \in Nat /\ c > NET_START
    BY DEF Reserved
  <2>2. \A c \in mask : c < MAX_CPUS => c \in Cores
    BY <1>0, <2>1 DEF Cores
  <2>3. setaffinity(affinity[w], mask) \in SUBSET Cores
    BY <2>2 DEF setaffinity
  <2> QED
    BY <1>12, <2>3 DEF Apply, Goto, libVars
<1> QED
  BY <1>1, <1>2, <1>3, <1>4, <1>5, <1>6, <1>7, <1>8, <1>9, <1>10, <1>11, <1>12
     DEF PNext, WorkerStep

(* A step of worker v, seen by worker w: the global variables that w relies *)
(* on are only ever overwritten with values beyond NET_START.               *)
LEMMA ReservedKept == Inv /\ PTypes /\ Reserved /\ [PNext]_pvars => Reserved'
<1> SUFFICES ASSUME Inv, PTypes, Reserved, [PNext]_pvars PROVE Reserved'
  OBVIOUS
<1>0. CoreFacts!2
  BY CoreFacts
<1> USE DEF PTypes, PTypeOK, Reserved, Bounded, Stored, Building, InLoop
<1>1. CASE Tick /\ UNCHANGED <<kind, libVars, ownVars>>
  BY <1>1 DEF libVars, ownVars, cursor
<1>2. CASE UNCHANGED pvars
  BY <1>2 DEF pvars, libVars, ownVars, cursor
<1>3. ASSUME NEW v \in Workers, SetCpu(v) PROVE Reserved'
  BY <1>3 DEF SetCpu, Goto, libVars, cursor
<1>4. ASSUME NEW v \in Workers, ReadNetEnd(v) PROVE Reserved'
  BY <1>0, <1>4 DEF ReadNetEnd, Goto, libVars, cursor
<1>5. ASSUME NEW v \in Workers, ReadBlkStart(v) PROVE Reserved'
  BY <1>0, <1>5 DEF ReadBlkStart, Goto, libVars, cursor
<1>6. ASSUME NEW v \in Workers, StoreNetEnd(v) PROVE Reserved'
  BY <1>0, <1>6 DEF StoreNetEnd, Goto, cursor
<1>7. ASSUME NEW v \in Workers, StoreFileStart(v) PROVE Reserved'
  BY <1>0, <1>7 DEF StoreFileStart, Goto, cursor
<1>8. ASSUME NEW v \in Workers, CpuZero(v) PROVE Reserved'
  BY <1>0, <1>8 DEF CpuZero, Goto, cursor
<1>9. ASSUME NEW v \in Workers, LoopFirst(v) PROVE Reserved'
  BY <1>0, <1>9 DEF LoopFirst, SetCursor, FirstCpu, Goto, cursor
<1>10. ASSUME NEW v \in Workers, LoopTest(v) PROVE Reserved'
  BY <1>0, <1>10 DEF LoopTest, Goto, libVars, cursor
<1>11. ASSUME NEW v \in Workers, CpuSetLoad(v) PROVE Reserved'
  BY <1>0, <1>11 DEF CpuSetLoad, Goto, libVars, cursor
<1>12. ASSUME NEW v \in Workers, CpuSetStore(v) PROVE Reserved'
  BY <1>0, <1>12 DEF CpuSetStore, NoValue, Goto, cursor
<1>13. ASSUME NEW v \in Workers, IncLoad(v) PROVE Reserved'
  BY <1>0, <1>13 DEF IncLoad, Goto, libVars, cursor
<1>14. ASSUME NEW v \in Workers, IncStore(v) PROVE Reserved'
  BY <1>0, <1>14 DEF IncStore, SetCursor, NoValue, Goto, cursor
<1>15. ASSUME NEW v \in Workers, Apply(v) PROVE Reserved'
  <2>1. setaffinity(affinity[v], mask) \subseteq (NET_START + 1)..BLK_END
    <3>1. \A c \in mask : c \in Nat /\ c > NET_START
      OBVIOUS
    <3>2. \A c \in mask : c < MAX_CPUS => c \in (NET_START + 1)..BLK_END
      BY <1>0, <3>1
    <3>3. affinity[v] \subseteq (NET_START + 1)..BLK_END
      OBVIOUS
    <3> HIDE DEF PTypes, PTypeOK, Reserved, Bounded
    <3> QED
      BY <3>2, <3>3 DEF setaffinity
  <2> QED
    BY <1>15, <2>1 DEF Apply, Goto, libVars, cursor
<1> QED
  BY <1>1, <1>2, <1>3, <1>4, <1>5, <1>6, <1>7, <1>8, <1>9, <1>10, <1>11, <1>12,
     <1>13, <1>14, <1>15 DEF PNext, WorkerStep

LEMMA Placing == PSpec => [](Inv /\ PTypes /\ Reserved)
<1>1. Inv /\ [PNext]_pvars => Inv'
  <2> SUFFICES ASSUME Inv, [PNext]_pvars PROVE Inv'
    OBVIOUS
  <2>1. Tick \/ UNCHANGED vars
    BY DEF PNext, pvars, SetCpu, WorkerStep, ReadNetEnd, ReadBlkStart, StoreNetEnd,
           StoreFileStart, CpuZero, LoopFirst, LoopTest, CpuSetLoad, CpuSetStore,
           IncLoad, IncStore, Apply
  <2> QED
    BY <2>1, TickKeepsInv, SameInv
<1>2. Inv /\ PTypes /\ Reserved /\ [PNext]_pvars => (Inv /\ PTypes /\ Reserved)'
  BY <1>1, TypesKept, ReservedKept
<1> QED
  BY <1>2, InitPlacement, PTL DEF PSpec

(* Every variable keeps its type; in particular no worker is given a core   *)
(* that does not exist.                                                     *)
THEOREM PTypeCorrect == PSpec => []PTypeOK
<1>1. PTypes => PTypeOK
  BY DEF PTypes
<1> QED
  BY <1>1, Placing, PTL

(* However calls of set_cpu overlap, no worker runs on the core that is     *)
(* left to the network interrupts.                                          *)
THEOREM InterruptCoreSpared == PSpec => []InterruptCoreReserved
<1>1. Reserved => InterruptCoreReserved
  BY DEF Reserved, Bounded, InterruptCoreReserved
<1> QED
  BY <1>1, Placing, PTL
-----------------------------------------------------------------------------
(* How far the loop of a call has come that no other call overlaps: the set *)
(* holds the cores below the counter.                                       *)
OwnFirst(w) == IF kind[w] = "net" THEN seen[w].net_end + 1 ELSE seen[w].blk_start
OwnLimit(w) == IF kind[w] = "net" THEN seen[w].blk_start ELSE MAX_CPUS
Progress(w) ==
  /\ pc[w] \in Stored \cup {"store2"} => lib_net_end = seen[w].net_end
  /\ pc[w] \in Stored => file_start = seen[w].blk_start
  /\ pc[w] = "first" => mask = {}
  /\ pc[w] \in InLoop => OwnFirst(w) <= cursor(w)
  /\ pc[w] \in InLoop \ {"test"} => cursor(w) < OwnLimit(w)
  /\ pc[w] = "test" => cursor(w) = OwnFirst(w) \/ cursor(w) <= OwnLimit(w)
  /\ pc[w] \in {"test", "set", "set2"} => mask = OwnFirst(w)..(cursor(w) - 1)
  /\ pc[w] = "set2" => reg[w].mask = OwnFirst(w)..cursor(w)
  /\ pc[w] \in {"inc", "inc2"} => mask = OwnFirst(w)..cursor(w)
  /\ pc[w] = "inc2" => reg[w].cpu = cursor(w) + 1
  /\ pc[w] = "apply" => mask = OwnGroup(w)
Undisturbed(w) ==
  /\ pc[w] # "out" => /\ \A u \in Workers \ {w} : pc[u] = "out"
                      /\ Progress(w)
  /\ pc[w] = "out" /\ calls[w] > 0 /\ OwnGroup(w) # {} => affinity[w] = OwnGroup(w)
AloneInv == \A w \in Workers : alone[w] => Undisturbed(w)

LEMMA Intervals ==
  ASSUME NEW a \in Int, NEW b \in Int
  PROVE  /\ a..(a - 1) = {}
         /\ a <= b => (a..(b - 1)) \cup {b} = a..b
         /\ (a..b = {}) <=> b < a
OBVIOUS

LEMMA OwnGroupBounds ==
  ASSUME PTypes, NEW w \in Workers
  PROVE  /\ OwnGroup(w) = OwnFirst(w)..(OwnLimit(w) - 1)
         /\ OwnFirst(w) \in Nat /\ OwnLimit(w) \in Nat /\ cursor(w) \in Nat
BY BoundsAssumption DEF OwnGroup, OwnFirst, OwnLimit, MAX_CPUS, PTypes, PTypeOK, cursor

(* A step of set_cpu by another worker finds w outside, and leaves what it  *)
(* was given.                                                               *)
LEMMA OthersStep ==
  ASSUME PTypes, AloneInv, NEW v \in Workers, NEW w \in Workers \ {v},
         SetCpu(v) \/ WorkerStep(v), alone'[w]
  PROVE  Undisturbed(w)'
<1>1. /\ alone[w] /\ pc[w] = "out"
      /\ pc'[w] = pc[w] /\ seen'[w] = seen[w] /\ affinity'[w] = affinity[w]
      /\ calls'[w] = calls[w] /\ kind' = kind
  <2>1. CASE SetCpu(v)
    BY <2>1 DEF SetCpu, Goto, PTypes, PTypeOK
  <2>2. CASE WorkerStep(v)
    <3>1. pc[v] # "out"
      BY <2>2 DEF WorkerStep, ReadNetEnd, ReadBlkStart, StoreNetEnd, StoreFileStart, CpuZero,
                  LoopFirst, LoopTest, CpuSetLoad, CpuSetStore, IncLoad, IncStore, Apply, Goto
    <3>2. UNCHANGED <<alone, calls, kind>>
      BY <2>2 DEF WorkerStep, ReadNetEnd, ReadBlkStart, StoreNetEnd, StoreFileStart, CpuZero,
                  LoopFirst, LoopTest, CpuSetLoad, CpuSetStore, IncLoad, IncStore, Apply, Goto
    <3>3. pc'[w] = pc[w]
      BY <2>2 DEF WorkerStep, ReadNetEnd, ReadBlkStart, StoreNetEnd, StoreFileStart, CpuZero,
                  LoopFirst, LoopTest, CpuSetLoad, CpuSetStore, IncLoad, IncStore, Apply, Goto,
                  PTypes, PTypeOK
    <3>4. seen'[w] = seen[w] /\ affinity'[w] = affinity[w]
      BY <2>2 DEF WorkerStep, ReadNetEnd, ReadBlkStart, StoreNetEnd, StoreFileStart, CpuZero,
                  LoopFirst, LoopTest, CpuSetLoad, CpuSetStore, IncLoad, IncStore, Apply,
                  PTypes, PTypeOK
    <3> QED
      BY <3>1, <3>2, <3>3, <3>4 DEF AloneInv, Undisturbed
  <2> QED
    BY <2>1, <2>2
<1> QED
  BY <1>1 DEF AloneInv, Undisturbed, OwnGroup

(* The steps of a call that is alone. *)
LEMMA OwnStep ==
  ASSUME Inv, PTypes, Reserved, AloneInv, NEW w \in Workers,
         WorkerStep(w), alone'[w]
  PROVE  Undisturbed(w)'
<1>1. /\ alone[w] /\ pc[w] # "out" /\ UNCHANGED <<alone, calls, kind>>
      /\ \A u \in Workers \ {w} : pc[u] = "out" /\ pc'[u] = "out"
  <2>1. UNCHANGED <<alone, calls, kind>> /\ pc[w] # "out"
    BY DEF WorkerStep, ReadNetEnd, ReadBlkStart, StoreNetEnd, StoreFileStart, CpuZero,
           LoopFirst, LoopTest, CpuSetLoad, CpuSetStore, IncLoad, IncStore, Apply, Goto
  <2>2. \A u \in Workers \ {w} : pc'[u] = pc[u]
    BY DEF WorkerStep, ReadNetEnd, ReadBlkStart, StoreNetEnd, StoreFileStart, CpuZero,
           LoopFirst, LoopTest, CpuSetLoad, CpuSetStore, IncLoad, IncStore, Apply, Goto,
           PTypes, PTypeOK
  <2> QED
    BY <2>1, <2>2 DEF AloneInv, Undisturbed
<1>2. Progress(w)
  BY <1>1 DEF AloneInv, Undisturbed
<1>3. /\ OwnGroup(w) = OwnFirst(w)..(OwnLimit(w) - 1)
      /\ OwnFirst(w) \in Nat /\ OwnLimit(w) \in Nat /\ cursor(w) \in Nat
  BY OwnGroupBounds
<1>4. SUFFICES /\ pc'[w] # "out" => Progress(w)'
               /\ pc'[w] = "out" /\ OwnGroup(w)' # {} => affinity'[w] = OwnGroup(w)'
  BY <1>1 DEF Undisturbed
<1> USE DEF PTypes, PTypeOK, Stored, Building, InLoop, Goto
<1>5. CASE ReadNetEnd(w) \/ ReadBlkStart(w)
  BY <1>5 DEF ReadNetEnd, ReadBlkStart, Progress
<1>6. CASE StoreNetEnd(w)
  BY <1>6 DEF StoreNetEnd, Progress
<1>7. CASE StoreFileStart(w)
  BY <1>2, <1>7 DEF StoreFileStart, Progress
<1>8. CASE CpuZero(w)
  BY <1>2, <1>8 DEF CpuZero, Progress
<1>9. CASE LoopFirst(w)
  <2>1. cursor(w)' = OwnFirst(w)
    BY <1>2, <1>9 DEF LoopFirst, SetCursor, FirstCpu, Progress, OwnFirst, cursor
  <2>2. OwnFirst(w)' = OwnFirst(w) /\ OwnLimit(w)' = OwnLimit(w)
    BY <1>1, <1>9 DEF LoopFirst, OwnFirst, OwnLimit
  <2>3. pc[w] = "first" /\ pc'[w] = "test" /\ UNCHANGED <<mask, seen, lib_net_end, file_start>>
    BY <1>9 DEF LoopFirst
  <2>4. mask' = OwnFirst(w)..(OwnFirst(w) - 1)
    <3>1. mask' = {}
      BY <1>2, <2>3 DEF Progress
    <3>2. OwnFirst(w)..(OwnFirst(w) - 1) = {}
      BY <1>3
    <3> QED
      BY <3>1, <3>2
  <2>5. /\ cursor(w)' = OwnFirst(w)' /\ OwnFirst(w)' \in Nat
        /\ mask' = OwnFirst(w)'..(cursor(w)' - 1)
        /\ lib_net_end' = seen'[w].net_end /\ file_start' = seen'[w].blk_start
    BY <1>2, <1>3, <2>1, <2>2, <2>3, <2>4 DEF Progress
  <2>6. OwnFirst(w)' <= cursor(w)'
    BY <2>5
  <2> HIDE DEF PTypes, PTypeOK
  <2> QED
    BY <2>3, <2>5, <2>6 DEF Progress
<1>10. CASE LoopTest(w)
  <2>1. /\ pc[w] = "test" /\ UNCHANGED <<libVars, seen, reg>>
        /\ pc'[w] = IF cursor(w) < Limit(w) THEN "set" ELSE "apply"
    BY <1>10 DEF LoopTest
  <2>2. Limit(w) = OwnLimit(w)
    BY <1>2, <2>1 DEF Limit, OwnLimit, Progress
  <2>3. /\ cursor(w)' = cursor(w) /\ OwnFirst(w)' = OwnFirst(w)
        /\ OwnLimit(w)' = OwnLimit(w) /\ OwnGroup(w)' = OwnGroup(w)
    BY <1>1, <2>1 DEF libVars, cursor, OwnFirst, OwnLimit, OwnGroup
  <2>4. CASE cursor(w) < OwnLimit(w)
    BY <1>2, <1>3, <2>1, <2>2, <2>3, <2>4 DEF Progress, libVars
  <2>5. CASE ~(cursor(w) < OwnLimit(w))
    <3>1. mask = OwnFirst(w)..(cursor(w) - 1) /\ OwnFirst(w) <= cursor(w)
      BY <1>2, <2>1 DEF Progress
    <3>2. mask = OwnGroup(w)
      <4>1. CASE cursor(w) = OwnFirst(w)
        <5>1. mask = {} /\ OwnGroup(w) = {}
          BY <1>3, <2>5, <3>1, <4>1, Intervals
        <5> QED
          BY <5>1
      <4>2. CASE cursor(w) <= OwnLimit(w)
        <5>1. cursor(w) = OwnLimit(w)
          BY <1>3, <2>5, <4>2
        <5> QED
          BY <1>3, <3>1, <5>1
      <4> QED
        BY <1>2, <2>1, <4>1, <4>2 DEF Progress
    <3> QED
      BY <1>2, <2>1, <2>2, <2>3, <2>5, <3>2 DEF Progress, libVars
  <2> QED
    BY <2>4, <2>5
<1>11. CASE CpuSetLoad(w)
  <2>1. /\ pc[w] = "set" /\ pc'[w] = "set2" /\ UNCHANGED <<libVars, seen>>
        /\ reg'[w].mask = mask \cup {cursor(w)}
    BY <1>11 DEF CpuSetLoad
  <2>2. reg'[w].mask = OwnFirst(w)..cursor(w)
    <3>1. mask = OwnFirst(w)..(cursor(w) - 1) /\ OwnFirst(w) <= cursor(w)
      BY <1>2, <2>1 DEF Progress
    <3> QED
      BY <1>3, <2>1, <3>1, Intervals
  <2>3. /\ cursor(w)' = cursor(w) /\ OwnFirst(w)' = OwnFirst(w)
        /\ OwnLimit(w)' = OwnLimit(w)
    BY <1>1, <2>1 DEF libVars, cursor, OwnFirst, OwnLimit
  <2> QED
    BY <1>2, <2>1, <2>2, <2>3 DEF Progress, libVars
<1>12. CASE CpuSetStore(w)
  <2>1. /\ pc[w] = "set2" /\ pc'[w] = "inc" /\ mask' = reg[w].mask
        /\ UNCHANGED <<lib_net_end, file_start, net_cpu, file_cpu, seen>>
    BY <1>12 DEF CpuSetStore
  <2>2. /\ cursor(w)' = cursor(w) /\ OwnFirst(w)' = OwnFirst(w)
        /\ OwnLimit(w)' = OwnLimit(w)
    BY <1>1, <2>1 DEF cursor, OwnFirst, OwnLimit
  <2> QED
    BY <1>2, <2>1, <2>2 DEF Progress
<1>13. CASE IncLoad(w)
  <2>1. /\ pc[w] = "inc" /\ pc'[w] = "inc2" /\ UNCHANGED <<libVars, seen>>
        /\ reg'[w].cpu = cursor(w) + 1
    BY <1>13 DEF IncLoad
  <2>2. /\ cursor(w)' = cursor(w) /\ OwnFirst(w)' = OwnFirst(w)
        /\ OwnLimit(w)' = OwnLimit(w)
    BY <1>1, <2>1 DEF libVars, cursor, OwnFirst, OwnLimit
  <2> QED
    BY <1>2, <2>1, <2>2 DEF Progress, libVars
<1>14. CASE IncStore(w)
  <2>1. /\ pc[w] = "inc2" /\ pc'[w] = "test"
        /\ UNCHANGED <<lib_net_end, file_start, mask, seen>>
    BY <1>14 DEF IncStore
  <2>2. /\ cursor(w)' = cursor(w) + 1 /\ OwnFirst(w)' = OwnFirst(w)
        /\ OwnLimit(w)' = OwnLimit(w)
    BY <1>1, <1>2, <1>14, <2>1 DEF IncStore, SetCursor, cursor, OwnFirst, OwnLimit, Progress
  <2>3. /\ mask = OwnFirst(w)..cursor(w) /\ OwnFirst(w) <= cursor(w)
        /\ cursor(w) < OwnLimit(w)
        /\ lib_net_end = seen[w].net_end /\ file_start = seen[w].blk_start
    BY <1>2, <2>1 DEF Progress
  <2>4. cursor(w) = (cursor(w) + 1) - 1
    BY <1>3
  <2>5. /\ mask' = OwnFirst(w)'..(cursor(w)' - 1) /\ OwnFirst(w)' <= cursor(w)'
        /\ cursor(w)' <= OwnLimit(w)'
    BY <1>3, <2>1, <2>2, <2>3, <2>4
  <2> QED
    BY <2>1, <2>3, <2>5 DEF Progress
<1>15. CASE Apply(w)
  <2>1. /\ pc[w] = "apply" /\ pc'[w] = "out" /\ UNCHANGED seen
        /\ affinity'[w] = setaffinity(affinity[w], mask)
    BY <1>15 DEF Apply
  <2>2. OwnGroup(w)' = OwnGroup(w)
    BY <1>1, <2>1 DEF OwnGroup
  <2>3. mask = OwnGroup(w)
    BY <1>2, <2>1 DEF Progress
  <2>4. seen[w].blk_start \in Cores
    BY <2>1 DEF Reserved, Bounded
  <2>5. \A c \in OwnGroup(w) : c < MAX_CPUS
    BY <2>4, BoundsAssumption DEF OwnGroup, MAX_CPUS, Cores
  <2>6. {c \in OwnGroup(w) : c < MAX_CPUS} = OwnGroup(w)
    BY <2>5
  <2> QED
    BY <2>1, <2>2, <2>3, <2>6 DEF setaffinity
<1> QED
  BY <1>5, <1>6, <1>7, <1>8, <1>9, <1>10, <1>11, <1>12, <1>13, <1>14, <1>15 DEF WorkerStep

LEMMA AloneKept == Inv /\ PTypes /\ Reserved /\ AloneInv /\ [PNext]_pvars => AloneInv'
<1> SUFFICES ASSUME Inv, PTypes, Reserved, AloneInv, [PNext]_pvars PROVE AloneInv'
  OBVIOUS
<1>1. CASE UNCHANGED <<kind, libVars, ownVars>>
  BY <1>1 DEF libVars, ownVars, AloneInv, Undisturbed, Progress, OwnFirst, OwnLimit, OwnGroup, cursor
<1>2. ASSUME NEW v \in Workers, SetCpu(v) \/ WorkerStep(v) PROVE AloneInv'
  <2> SUFFICES ASSUME NEW w \in Workers, alone'[w] PROVE Undisturbed(w)'
    BY DEF AloneInv
  <2>1. CASE w # v
    BY <1>2, <2>1, OthersStep
  <2>2. CASE w = v /\ SetCpu(v)
    <3>1. pc'[w] = "read" /\ \A u \in Workers \ {w} : pc[u] = "out" /\ pc'[u] = "out"
      BY <2>2 DEF SetCpu, Goto, PTypes, PTypeOK
    <3> QED
      BY <3>1 DEF Undisturbed, Progress, Stored, Building, InLoop
  <2>3. CASE w = v /\ WorkerStep(v)
    BY <2>3, OwnStep
  <2> QED
    BY <1>2, <2>1, <2>2, <2>3
<1> QED
  BY <1>1, <1>2 DEF PNext, pvars

(* A call of set_cpu that no other call overlaps gives its worker exactly   *)
(* the cores of its side, whatever earlier calls left in the global         *)
(* variables.                                                               *)
THEOREM AloneGetsItsSide == PSpec => []PlacedOnItsSide
<1>1. PInit => AloneInv
  BY DEF PInit, AloneInv, Undisturbed
<1>2. PSpec => []AloneInv
  BY <1>1, AloneKept, Placing, PTL DEF PSpec
<1>3. AloneInv => PlacedOnItsSide
  BY DEF AloneInv, Undisturbed, PlacedOnItsSide
<1> QED
  BY <1>2, <1>3, PTL
=============================================================================

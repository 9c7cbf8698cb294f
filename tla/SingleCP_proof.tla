--------------------------- MODULE SingleCP_proof ---------------------------
(***************************************************************************)
(* Proofs about SingleCP for every socket size, every threshold, every      *)
(* number of queues and every utilisation the timer may measure.            *)
(***************************************************************************)
EXTENDS SingleCP, TLAPS

(* The reader of /proc/KU/dynamic that has printed net_end and seen `ticks' *)
(* ticks pass since: how far the boundaries may have drifted from what it   *)
(* printed.  A net turn can lower net_end by one, the blk turn after it can *)
(* lower blk_start by one; three ticks hold at most two blk turns, with a   *)
(* net turn between them.                                                   *)
Drift ==
  LET old == shown.net_end IN
  /\ shown.at = "half" =>
       /\ shown.ticks = 0 => net_end = old
       /\ shown.ticks = 1 => blk_start >= old + 3 /\ net_end >= old - 1
       /\ shown.ticks = 1 /\ dynamic_turn = 1 => net_end >= old
       /\ shown.ticks = 2 => blk_start >= old + 2 /\ net_end >= old - 1
       /\ shown.ticks = 3 => blk_start >= old + 2
  /\ shown.at = "shown" => shown.gap >= 2

Inv == TypeOK /\ GroupsNonEmpty /\ HintsInPartition

(* The moves of a turn for blk, whatever the load: what the guards on the   *)
(* boundaries leave of them.                                                *)
LEMMA BlkMoves ==
  ASSUME NEW load
  PROVE  /\ BlkMove(load) \in {-1, 0, 1}
         /\ BlkMove(load) = -1 => blk_start - net_end > 3
         /\ BlkMove(load) = 1 => blk_start # BLK_END
<1>1. CASE BlkGrows(load)
  <2>1. BlkMove(load) = -1
    BY <1>1 DEF BlkMove
  <2>2. blk_start - net_end > 3
    BY <1>1 DEF BlkGrows
  <2> QED BY <2>1, <2>2
<1>2. CASE ~BlkGrows(load) /\ (BlkYields(load) \/ BlkIdle(load)) /\ blk_start # BLK_END
  <2>1. BlkMove(load) = 1
    BY <1>2 DEF BlkMove
  <2> QED BY <2>1, <1>2
<1>3. CASE ~BlkGrows(load) /\ ~((BlkYields(load) \/ BlkIdle(load)) /\ blk_start # BLK_END)
  <2>1. BlkMove(load) = 0
    BY <1>3 DEF BlkMove
  <2> QED BY <2>1
<1> QED BY <1>1, <1>2, <1>3

(* The moves of a turn for net. *)
LEMMA NetMoves ==
  ASSUME NEW load
  PROVE  /\ NetMove(load) \in {-1, 0, 1}
         /\ NetMove(load) = 1 /\ ~NetPushesBlk(load) => blk_start - net_end > 3
         /\ NetMove(load) = -1 => net_end # NET_START
         /\ NetPushesBlk(load) => NetMove(load) = 1 /\ blk_start # BLK_END
<1>1. CASE NetPushesBlk(load)
  <2>1. NetMove(load) = 1
    BY <1>1 DEF NetMove
  <2>2. blk_start # BLK_END
    BY <1>1 DEF NetPushesBlk
  <2> QED BY <1>1, <2>1, <2>2
<1>2. CASE NetGrows(load) /\ ~NetPushesBlk(load)
  <2>1. NetMove(load) = 1
    BY <1>2 DEF NetMove
  <2>2. blk_start - net_end > 3
    BY <1>2 DEF NetGrows
  <2> QED BY <1>2, <2>1, <2>2
<1>3. CASE ~NetGrows(load) /\ ~NetPushesBlk(load) /\ NetShrinks(load)
  <2>1. NetMove(load) = -1
    BY <1>3 DEF NetMove
  <2>2. net_end # NET_START
    BY <1>3 DEF NetShrinks
  <2> QED BY <1>3, <2>1, <2>2
<1>4. CASE ~NetGrows(load) /\ ~NetPushesBlk(load) /\ ~NetShrinks(load)
  <2>1. NetMove(load) = 0
    BY <1>4 DEF NetMove
  <2> QED BY <1>4, <2>1
<1> QED BY <1>1, <1>2, <1>3, <1>4

(* Round robin stays among the cores it is given. *)
LEMMA SpreadStays ==
  ASSUME NEW queues, queues \subseteq Nat,
         NEW first \in Nat, NEW last \in Nat, first <= last
  PROVE  /\ Spread(queues, first, last) \in [queues -> Nat]
         /\ \A q \in queues : Spread(queues, first, last)[q] \in first..last
<1>1. ASSUME NEW q \in queues
      PROVE  first + (q % (last - first + 1)) \in first..last
  <2> DEFINE n == last - first + 1
  <2>1. q \in Nat /\ n \in Nat /\ n > 0
    OBVIOUS
  <2>2. q % n \in 0..(n - 1)
    <3> HIDE DEF n
    <3> QED BY <2>1
  <2> QED BY <2>2
<1> QED BY <1>1 DEF Spread

(* What a tick does to the boundaries. *)
LEMMA BlkTurnMoves ==
  ASSUME TypeOK, GroupsNonEmpty, NEW load \in Loads, BlkTurn(load)
  PROVE  /\ blk_start' \in Nat /\ net_end' = net_end
         /\ blk_start' <= BLK_END
         /\ blk_start' >= blk_start \/ blk_start' >= net_end + 3
         /\ net_end + 3 <= blk_start'
<1>1. blk_start \in Nat /\ net_end \in Nat /\ BLK_END \in Nat
  BY BoundsAssumption DEF TypeOK, Cores
<1>2. blk_start' = blk_start + BlkMove(load) /\ net_end' = net_end
  BY DEF BlkTurn
<1>3. blk_start <= BLK_END /\ net_end + 3 <= blk_start
  BY DEF GroupsNonEmpty
<1> QED BY <1>1, <1>2, <1>3, BlkMoves

LEMMA NetTurnMoves ==
  ASSUME TypeOK, GroupsNonEmpty, NEW load \in Loads, NetTurn(load)
  PROVE  /\ blk_start' \in Nat /\ net_end' \in Nat
         /\ NET_START <= net_end' /\ net_end' + 3 <= blk_start'
         /\ blk_start' <= BLK_END
         /\ blk_start' \in {blk_start, blk_start + 1}
         /\ net_end' >= net_end - 1
<1>1. blk_start \in Nat /\ net_end \in Nat /\ BLK_END \in Nat /\ NET_START \in Nat
  BY BoundsAssumption DEF TypeOK, Cores
<1>2. net_end' = net_end + NetMove(load)
  BY DEF NetTurn
<1>3. GroupsNonEmpty
  OBVIOUS
<1>4. CASE NetPushesBlk(load)
  <2>1. blk_start' = blk_start + 1
    BY <1>4 DEF NetTurn
  <2>2. NetMove(load) = 1 /\ blk_start # BLK_END
    BY <1>4, NetMoves
  <2> QED BY <1>1, <1>2, <1>3, <2>1, <2>2 DEF GroupsNonEmpty
<1>5. CASE ~NetPushesBlk(load)
  <2>1. blk_start' = blk_start
    BY <1>5 DEF NetTurn
  <2>2. /\ NetMove(load) \in {-1, 0, 1}
        /\ NetMove(load) = 1 => blk_start - net_end > 3
        /\ NetMove(load) = -1 => net_end # NET_START
    BY <1>5, NetMoves
  <2> QED BY <1>1, <1>2, <1>3, <2>1, <2>2 DEF GroupsNonEmpty
<1> QED BY <1>4, <1>5

(* Ticks leave the reader's record well typed. *)
LEMMA TickShownType ==
  ASSUME TypeOK, TickShown
  PROVE  shown' \in [at : {"idle", "half", "shown"}, net_end : Nat,
                     ticks : 0..MaxTicksInShow, gap : Int]
BY TickAssumption DEF TypeOK, TickShown

(* The inductive invariant holds initially, and each action keeps it. *)
LEMMA InitInv == Init => Inv
<1> SUFFICES ASSUME Init PROVE Inv
  OBVIOUS
<1>1. TypeOK
  <2>1. /\ blk_start \in Cores /\ net_end \in Cores /\ dynamic_turn \in {0, 1}
        /\ blkHint \in [BlkQueues -> Cores \cup {NONE}]
        /\ netHint \in [NetQueues -> Cores \cup {NONE}]
        /\ shown \in [at : {"idle", "half", "shown"}, net_end : Nat,
                      ticks : 0..MaxTicksInShow, gap : Int]
    BY BoundsAssumption, TickAssumption DEF Init, Cores, NotShowing
  <2>2. blk_idle \in BOOLEAN
    BY DEF Init
  <2> QED BY <2>1, <2>2 DEF TypeOK
<1>2. GroupsNonEmpty
  BY BoundsAssumption DEF Init, GroupsNonEmpty
<1>3. HintsInPartition
  BY DEF Init, HintsInPartition
<1> QED BY <1>1, <1>2, <1>3 DEF Inv

LEMMA BlkTurnInv ==
  ASSUME Inv, NEW load \in Loads, BlkTurn(load)
  PROVE  Inv'
<1> USE DEF Inv
<1>1. /\ blk_start' \in Nat /\ net_end' = net_end /\ blk_start' <= BLK_END
      /\ net_end + 3 <= blk_start'
  BY BlkTurnMoves
<1>2. /\ net_end \in Nat /\ BLK_END \in Nat /\ NET_START \in Nat
      /\ NET_START <= net_end
  BY BoundsAssumption DEF TypeOK, Cores, GroupsNonEmpty
<1>3. /\ blkHint' \in [BlkQueues -> Nat]
      /\ \A q \in BlkQueues : blkHint'[q] \in blk_start'..BLK_END
  BY <1>1, <1>2, SpreadStays, QueueAssumption DEF BlkTurn
<1>4. GroupsNonEmpty'
  BY <1>1, <1>2 DEF GroupsNonEmpty
<1>5. TypeOK'
  <2>1. blk_start' \in Cores /\ net_end' \in Cores
    BY <1>1, <1>2 DEF Cores
  <2>2. blkHint' \in [BlkQueues -> Cores \cup {NONE}]
    <3>1. \A q \in BlkQueues : blkHint'[q] \in Cores
      BY <1>1, <1>2, <1>3 DEF Cores
    <3> QED BY <1>3, <3>1
  <2>3. dynamic_turn' = 1 /\ netHint' = netHint /\ TickShown
    BY DEF BlkTurn
  <2>4. blk_idle' \in BOOLEAN
    BY DEF BlkTurn
  <2> QED BY <2>1, <2>2, <2>3, <2>4, TickShownType DEF TypeOK
<1>6. HintsInPartition'
  <2>1. dynamic_turn' = 1 /\ netHint' = netHint /\ net_end' = net_end
    BY DEF BlkTurn
  <2>2. \A q \in BlkQueues :
          blkHint'[q] \in (blk_start' - 1)..BLK_END /\ blkHint'[q] >= blk_start'
    BY <1>1, <1>2, <1>3
  <2> QED BY <2>1, <2>2 DEF HintsInPartition
<1> QED BY <1>4, <1>5, <1>6

(* Arithmetic of the three groups. *)
LEMMA NatChain ==
  ASSUME NEW a \in Nat, NEW b \in Nat, NEW c \in Nat, NEW d \in Nat,
         a <= b, b + 3 <= c, c <= d
  PROVE  a <= c /\ b <= d
OBVIOUS

LEMMA NetTurnInv ==
  ASSUME Inv, NEW load \in Loads, NetTurn(load)
  PROVE  Inv'
<1> USE DEF Inv
<1>1. /\ blk_start' \in Nat /\ net_end' \in Nat /\ blk_start' <= BLK_END
      /\ NET_START <= net_end' /\ net_end' + 3 <= blk_start'
  BY NetTurnMoves
<1>a. blk_start' = blk_start \/ blk_start' = blk_start + 1
  BY NetTurnMoves
<1>2. /\ BLK_END \in Nat /\ NET_START \in Nat /\ blk_start \in Nat
  BY BoundsAssumption DEF TypeOK, Cores
<1>b. NET_START <= blk_start' /\ net_end' <= BLK_END
  BY <1>1, <1>2, NatChain
<1>3. /\ netHint' \in [NetQueues -> Nat]
      /\ \A q \in NetQueues : netHint'[q] \in NET_START..net_end'
  BY <1>1, <1>2, SpreadStays, QueueAssumption DEF NetTurn
<1>4. GroupsNonEmpty'
  BY <1>1 DEF GroupsNonEmpty
<1>5. TypeOK'
  <2>1. blk_start' \in Cores /\ net_end' \in Cores
    BY <1>1, <1>2, <1>b DEF Cores
  <2>2. netHint' \in [NetQueues -> Cores \cup {NONE}]
    <3>1. \A q \in NetQueues : netHint'[q] \in Cores
      BY <1>1, <1>2, <1>b, <1>3 DEF Cores
    <3> QED BY <1>3, <3>1
  <2>3. dynamic_turn' = 0 /\ blkHint' = blkHint /\ TickShown
    BY DEF NetTurn
  <2>4. blk_idle' \in BOOLEAN
    BY DEF NetTurn
  <2> QED BY <2>1, <2>2, <2>3, <2>4, TickShownType DEF TypeOK
<1>6. HintsInPartition'
  <2>1. dynamic_turn = 1 /\ dynamic_turn' = 0 /\ blkHint' = blkHint
    BY DEF NetTurn
  <2>2. ASSUME NEW q \in BlkQueues, blkHint[q] # NONE
        PROVE  blkHint[q] \in (blk_start' - 1)..BLK_END
    <3>1. blkHint[q] \in (blk_start - 1)..BLK_END /\ blkHint[q] >= blk_start
      BY <2>1, <2>2 DEF HintsInPartition
    <3> QED BY <1>a, <1>2, <3>1
  <2> QED BY <1>3, <2>1, <2>2 DEF HintsInPartition
<1> QED BY <1>4, <1>5, <1>6

LEMMA ShowInv ==
  ASSUME Inv, ShowNetEnd \/ ShowBlkStart \/ ShowEnd
  PROVE  Inv'
<1>1. UNCHANGED <<blk_start, net_end, dynamic_turn, blkHint, netHint, blk_idle>>
  BY DEF ShowNetEnd, ShowBlkStart, ShowEnd
<1>2. blk_start \in Nat /\ net_end \in Nat
  BY BoundsAssumption DEF Inv, TypeOK, Cores
<1>3. shown' \in [at : {"idle", "half", "shown"}, net_end : Nat,
                  ticks : 0..MaxTicksInShow, gap : Int]
  <2>1. shown.net_end \in Nat /\ 0 \in 0..MaxTicksInShow
    BY TickAssumption DEF Inv, TypeOK
  <2>2. CASE ShowNetEnd
    <3>1. shown' = [at |-> "half", net_end |-> net_end, ticks |-> 0, gap |-> 0]
      BY <2>2 DEF ShowNetEnd, NotShowing
    <3> QED BY <1>2, <2>1, <3>1
  <2>3. CASE ShowBlkStart
    <3>1. shown' = [at |-> "shown", net_end |-> 0, ticks |-> 0,
                    gap |-> blk_start - shown.net_end]
      BY <2>3 DEF ShowBlkStart, NotShowing
    <3>2. blk_start - shown.net_end \in Int
      BY <1>2, <2>1
    <3> QED BY <2>1, <3>1, <3>2
  <2>4. CASE ShowEnd
    <3>1. shown' = [at |-> "idle", net_end |-> 0, ticks |-> 0, gap |-> 0]
      BY <2>4 DEF ShowEnd, NotShowing
    <3> QED BY <2>1, <3>1
  <2> QED BY <2>2, <2>3, <2>4
<1> QED BY <1>1, <1>3 DEF Inv, TypeOK, GroupsNonEmpty, HintsInPartition

LEMMA NextInv == Inv /\ [Next]_vars => Inv'
<1> SUFFICES ASSUME Inv, [Next]_vars PROVE Inv'
  OBVIOUS
<1>1. CASE Tick
  BY <1>1, BlkTurnInv, NetTurnInv DEF Tick
<1>2. CASE ShowNetEnd \/ ShowBlkStart \/ ShowEnd
  BY <1>2, ShowInv
<1>3. CASE UNCHANGED vars
  BY <1>3 DEF vars, Inv, TypeOK, GroupsNonEmpty, HintsInPartition
<1> QED BY <1>1, <1>2, <1>3 DEF Next

LEMMA Invariance == Spec => []Inv
<1> QED BY InitInv, NextInv, PTL DEF Spec

(* Every variable of the controller keeps its type. *)
THEOREM TypeCorrect == Spec => []TypeOK
<1>1. Inv => TypeOK
  BY DEF Inv
<1> QED BY <1>1, Invariance, PTL

(* No sequence of loads makes a group of cores empty: the averages of       *)
(* kerneltimer_timeover never divide by zero.                               *)
THEOREM NoEmptyGroup == Spec => []GroupsNonEmpty
<1>1. Inv => GroupsNonEmpty
  BY DEF Inv
<1> QED BY <1>1, Invariance, PTL

(* The affinity hints stay on their side of the partition, at most one core *)
(* stale.                                                                   *)
THEOREM HintsOnTheirSide == Spec => []HintsInPartition
<1>1. Inv => HintsInPartition
  BY DEF Inv
<1> QED BY <1>1, Invariance, PTL

(* A tick's effect on the reader's record. *)
LEMMA TickShownEffect ==
  ASSUME TypeOK, TickShown
  PROVE  /\ shown.at # "half" => shown' = shown
         /\ shown.at = "half" => /\ shown'.at = "half"
                                 /\ shown'.net_end = shown.net_end
                                 /\ shown'.ticks = shown.ticks + 1
                                 /\ shown'.ticks <= MaxTicksInShow
BY TickAssumption DEF TypeOK, TickShown

(* The drift of the boundaries during a read, tick by tick. *)
LEMMA DriftStep ==
  ASSUME MaxTicksInShow <= 3, Inv, Drift, [Next]_vars
  PROVE  Drift'
<1>1. /\ blk_start \in Nat /\ net_end \in Nat /\ net_end + 3 <= blk_start
      /\ dynamic_turn \in {0, 1}
      /\ shown.net_end \in Nat /\ shown.ticks \in Nat /\ shown.gap \in Int
      /\ MaxTicksInShow \in Nat
  BY BoundsAssumption, TickAssumption DEF Inv, TypeOK, GroupsNonEmpty, Cores
<1>2. ASSUME NEW load \in Loads, BlkTurn(load) PROVE Drift'
  <2>1. /\ blk_start' \in Nat /\ net_end' = net_end /\ net_end + 3 <= blk_start'
        /\ blk_start' >= blk_start \/ blk_start' >= net_end + 3
    BY <1>2, BlkTurnMoves DEF Inv
  <2>2. dynamic_turn = 0 /\ dynamic_turn' = 1 /\ TickShown
    BY <1>2 DEF BlkTurn
  <2>3. CASE shown.at = "half"
    <3>1. /\ shown'.at = "half" /\ shown'.net_end = shown.net_end
          /\ shown'.ticks = shown.ticks + 1 /\ shown'.ticks <= 3
      BY <1>1, <2>2, <2>3, TickShownEffect DEF Inv
    <3>2. shown.ticks \in {0, 1, 2}
      BY <1>1, <3>1
    <3>3. CASE shown.ticks = 0
      BY <1>1, <2>1, <2>2, <2>3, <3>1, <3>3 DEF Drift
    <3>4. CASE shown.ticks = 1
      BY <1>1, <2>1, <2>2, <2>3, <3>1, <3>4 DEF Drift
    <3>5. CASE shown.ticks = 2
      BY <1>1, <2>1, <2>2, <2>3, <3>1, <3>5 DEF Drift
    <3> QED BY <3>2, <3>3, <3>4, <3>5
  <2>4. CASE shown.at # "half"
    <3>1. shown' = shown
      BY <2>2, <2>4, TickShownEffect DEF Inv
    <3> QED BY <2>4, <3>1 DEF Drift
  <2> QED BY <2>3, <2>4
<1>3. ASSUME NEW load \in Loads, NetTurn(load) PROVE Drift'
  <2>1. /\ blk_start' \in Nat /\ net_end' \in Nat
        /\ blk_start' >= blk_start /\ net_end' >= net_end - 1
    <3>1. blk_start' = blk_start \/ blk_start' = blk_start + 1
      BY <1>3, NetTurnMoves DEF Inv
    <3>2. blk_start' \in Nat /\ net_end' \in Nat /\ net_end' >= net_end - 1
      BY <1>3, NetTurnMoves DEF Inv
    <3> QED BY <1>1, <3>1, <3>2
  <2>2. dynamic_turn = 1 /\ dynamic_turn' = 0 /\ TickShown
    BY <1>3 DEF NetTurn
  <2>3. CASE shown.at = "half"
    <3>1. /\ shown'.at = "half" /\ shown'.net_end = shown.net_end
          /\ shown'.ticks = shown.ticks + 1 /\ shown'.ticks <= 3
      BY <1>1, <2>2, <2>3, TickShownEffect DEF Inv
    <3>2. shown.ticks \in {0, 1, 2}
      BY <1>1, <3>1
    <3>3. CASE shown.ticks = 0
      BY <1>1, <2>1, <2>2, <2>3, <3>1, <3>3 DEF Drift
    <3>4. CASE shown.ticks = 1
      BY <1>1, <2>1, <2>2, <2>3, <3>1, <3>4 DEF Drift
    <3>5. CASE shown.ticks = 2
      BY <1>1, <2>1, <2>2, <2>3, <3>1, <3>5 DEF Drift
    <3> QED BY <3>2, <3>3, <3>4, <3>5
  <2>4. CASE shown.at # "half"
    <3>1. shown' = shown
      BY <2>2, <2>4, TickShownEffect DEF Inv
    <3> QED BY <2>4, <3>1 DEF Drift
  <2> QED BY <2>3, <2>4
<1>4. CASE ShowNetEnd
  <2>1. shown' = [at |-> "half", net_end |-> net_end, ticks |-> 0, gap |-> 0]
    BY <1>4 DEF ShowNetEnd, NotShowing
  <2>2. net_end' = net_end
    BY <1>4 DEF ShowNetEnd
  <2> QED BY <2>1, <2>2 DEF Drift
<1>5. CASE ShowBlkStart
  <2>1. shown.at = "half" /\ shown.ticks \in {0, 1, 2, 3}
    BY <1>1, <1>5 DEF ShowBlkStart, Inv, TypeOK
  <2>2. blk_start >= shown.net_end + 2
    BY <1>1, <2>1 DEF Drift
  <2>3. shown' = [at |-> "shown", net_end |-> 0, ticks |-> 0,
                  gap |-> blk_start - shown.net_end]
    BY <1>5 DEF ShowBlkStart, NotShowing
  <2> QED BY <1>1, <2>2, <2>3 DEF Drift
<1>6. CASE ShowEnd
  BY <1>6 DEF ShowEnd, NotShowing, Drift
<1>7. CASE UNCHANGED vars
  BY <1>7 DEF vars, Drift
<1> QED BY <1>2, <1>3, <1>4, <1>5, <1>6, <1>7 DEF Next, Tick

(* At most three ticks between the two values /proc/KU/dynamic prints: the  *)
(* pair still leaves a core for the network system calls, although the      *)
(* values may never have held together.                                     *)
THEOREM TornReadUsable ==
  ASSUME MaxTicksInShow <= 3
  PROVE  Spec => []ShownUsable
<1>1. Init => Drift
  BY DEF Init, NotShowing, Drift
<1>2. Inv /\ Drift /\ [Next]_vars => Drift'
  BY DriftStep
<1>3. Drift => ShownUsable
  BY DEF Drift, ShownUsable
<1> QED BY <1>1, <1>2, <1>3, Invariance, PTL DEF Spec
=============================================================================
